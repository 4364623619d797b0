# A formal model of a2dp-sink

TLA+ modules, TLC configurations and TLAPS proofs for the ESPHome components
under `src/components`: a Bluetooth A2DP receiver for the ESP32 (`a2dp`), the
sink that hands its audio on (`a2dp_sink`), the media source that feeds a
speaker from it (`a2dp_sink/media_source`), and AVRCP remote control
(`a2dp_avrcp`). `PROJECT.json` maps every definition to source lines and lists
runs, mutants, findings, hazards and theorems.

## 1. Inventory

The program has three actors: the **Bluetooth task** (callbacks of Bluedroid),
the **main loop** (ESPHome's single main task: `setup()`, `loop()`, automations,
the orchestrator's calls) and the **reader task** of the media source. The first
two share a FreeRTOS queue of 8 records, the last two an event group, the first
and the last the PCM ring buffer.

| Component | State | Operations | What makes it correct |
|---|---|---|---|
| Hub, `a2dp.cpp`/`.h` | `enabled_`, `connected_`, `audio_streaming_`, `discoverable_`, `pending_deinit_`, the deadlines, the retry counter, last peer (RAM and flash) | `enable`, `disable`, `disconnect`, `restart_discovery`, `request_audio_suspend`; timers at the top of `loop()`; one handler per queued record | subscribers agree with the hub; its view converges to the link; retries are bounded and never fight a wanted disconnect; `disable()` ends; an enabled hub can be reached |
| Bluetooth callbacks and queue | the queue; the stack, link and stream as Bluedroid sees them | `handle_a2d_event_`, `handle_avrc_ct_event_`, `handle_avrc_tg_event_`, `handle_gap_event_`: fill a record and post it without waiting | the order of the records is the order of the events; a lost record does no lasting damage |
| Coexistence | `saved_wifi_ps_`, `wifi_ps_saved_`, `wifi_paused_`, `coex_apply_at_`; the hub's request for high performance in the Wi-Fi component | `set_coex_preference_`, `apply_wifi_pause_`, called from commands, handlers and a timer | Bluetooth has priority only while it needs it; the user's power-save mode comes back |
| AVRCP | `avrcp_ct_connected_`, `avrc_ct_tl_`, `metadata_refresh_at_`, `avrcp_volume_` | passthrough, metadata request, track-change registration, absolute volume | the tracks are followed; no command in the loop that starts the audio |
| Sink | `audio_streaming_`, negotiated audio parameters | forwards audio edges to triggers and to the media source | one trigger for each start and stop |
| Media source | main loop: state, `pending_stop_`, `auto_play_pending_`, the task object; reader: held chunk, pre-roll flag, zero-write counter; shared: 8 event bits | `play_uri`, STOP/PAUSE/PLAY, three hub callbacks, `loop()`, the reader's loop with its drain, pre-roll, flush and exits | an active source has a reader; STOP ends; the task is freed only when it is done; PAUSED and IDLE mean what they say |
| PCM path | ring buffer, output flag, diagnostics counters | `handle_audio_data_`, `reset_audio_buffer` | bytes are counted right |
| SBC parameters | none | `sbc_*` helpers | rates and bit rate of every configuration, without overflow |
| Sensors | last published value | publish on callbacks | no stale name, no stale metadata |
| Code generation (Python, YAML) | none at run time | schemas, defines | outside the model; its options are the constants |

How they interact: the Bluetooth task posts records; the main loop handles them
and calls back subscribers (sensors, sink, media source) synchronously; the sink
forwards audio edges to the media source; the media source signals its reader by
event bits and the reader answers by event bits; both may ask the hub to suspend
the stream (`audio_suspend_requested_`), which the next `loop()` does.

Hard behaviours: events that describe a link which has already moved on;
commands between an event and its handling; a full queue; timers against late
answers; teardown in two halves; failed initialisation; resets; and between main
loop and reader, actions on bits read one step earlier. Every such place is a
hazard in `PROJECT.json`, at its line, with the properties that watch it or the
reason why none does yet.

## 2. Modules

| Module | Models | Uses |
|---|---|---|
| `BtStack` | Bluedroid and the phone (external), the posting callbacks, the queue | |
| `Coexistence` | `set_coex_preference_`, `apply_wifi_pause_`, and the power-save side of the Wi-Fi component (external) | |
| `A2dpHub` | class `A2DP`: commands, timers, handlers; the composition of the three; safety and liveness properties | `BtStack`, `Coexistence` |
| `HubSession` | what the queue says to the hub (`Replay`), and the refinement of `SessionView` | `A2dpHub`, `SessionView` |
| `SessionView` | abstract: the sessions subscribers are told of | |
| `HubHistory` | `A2dpHub` with two history variables: how the last connection ended, whether a record was lost | `A2dpHub` |
| `MCA2dpHub` | symmetry for TLC | `HubSession` |
| `MediaSource` | class `A2DPSinkMediaSource`: main-loop calls and reader task | `SourceLifecycle` |
| `SourceLifecycle` | abstract: states, stop and reader task as the orchestrator may rely on them | |
| `MCMediaSource` | the set of all calls, for TLC | `MediaSource` |
| `AudioParameters` | the `sbc_*` helpers, and what an SBC stream needs by the codec's definition | |
| `AudioConfig` | a codec configuration on its way to the sink and its sensors | `AudioParameters` |
| `Announcements` | connection sensor and name sensor, names answered late | |
| `Avrcp` | metadata, track-change registrations, transport buttons, the title sensor | |
| `AbsoluteVolume` | absolute volume: phone, Bluetooth task, main loop | |
| `PcmRing` | `handle_audio_data_` against reader and resets, and its counters | |
| `Timers` | deadlines and elapsed times over a wrapping `millis()` | |
| `MCParts` | the last six, side by side for TLC | all of them |
| `A2dpHubProofs`, `MediaSourceProofs`, `AudioConfigProofs`, `PcmRingProofs`, `TimersProofs` | theorems about the module of that name | `TLAPS` |
| `HubSessionProofs` | theorems about the sessions | `A2dpHubProofs` |
| `HubFollowProofs` | theorems about how the hub follows link and tracks: `QueueCompletes`, `StartsAnnounced`, `TracksFollowed`, the properties of `HubHistory`, and the power-save mode with the Wi-Fi pause | `HubHistory`, `HubSessionProofs` |
| `PartsProofs` | theorems about the volume, and about the parts side by side | `MCParts`, the proofs of the parts |

### The hub

Each field of class `A2DP` that control depends on is a variable of the same
name without the trailing underscore. `loop()` is three kinds of step:
`LoopTop` (the six timer and flag checks, in one step as nothing can come
between them on the main task but Bluetooth events, which only append to the
queue or move the link), one `Handle...` step per record, and `DrainDone` when
the queue is empty. Commands are steps while `main_pc = "idle"`, which is
between two loops; `request_audio_suspend()` is also called by the reader task
and may come at any time. Each step calls what the handler calls: a command that
ends in `start_discovery_()` contains `StartDiscovery`.

Abstractions: a deadline is *armed* or not, and an armed one may be found due at
any `LoopTop`; `deinit_deadline_` and `pending_coex_prefer_bt_` move together
with `pending_deinit_` and `coex_apply_at_` and have no variable of their own.
Records that the main loop only forwards are one kind, `INFO`. `init_bt_` either
succeeds or stops half way (`stack = "half"`), undoing nothing. `asserted` is
Bluedroid's assert on a teardown over a live link, which the comments at
a2dp.cpp:204 and a2dp.cpp:514 describe; the choice whether it strikes is open.
AVRCP commands are counted by their labels.

External behaviour is taken from the calls and callbacks the hub uses:
`esp_bt_gap_set_scan_mode` fails unless Bluedroid is enabled, `esp_a2d_sink_connect`
fails while there is a link, `esp_a2d_sink_disconnect` unless that peer is
connected; the end of a link also ends its stream, with one DISCONNECTED record;
the AVRCP control channel closes on its own, before or after the link.

Two parties set the power-save mode of the Wi-Fi driver. `set_coex_preference_`
does it directly (`PreferBt`, `PreferWifi`). `apply_wifi_pause_` releases and
requests high performance (a2dp.cpp:816, 823), which `__init__.py:302-307` enables
together with the pause; the Wi-Fi component serves the request in its own
`loop()` (`WifiLoop`), by PS_NONE while it stands and the configured mode when it
does not. ESPHome calls the loops of all components in turn, so a change the hub
made in one `loop()` is served before its next: `LoopTop` has the guard
`~WifiLoopDue`. Only a request that `disable()`, or `enable()` after it, makes between
the two loops may come too late for that; the model serves it at once. The hub's
is the only request in the model; other components may make requests of their
own, which this repository does not.

### The media source

Every access to the event group is a step. The reader's places (`reader`) are
the labels and loops of `reader_task_()`; a step acts on the bits that the step
before it read. A main-loop call that clears bits and then sets others is two
steps with `call` naming the half-done call. `loop()` is one step: the reader
can only add bits between its read and its clears, and these wait for the next
`loop()`. The hub is what its callbacks and accessors show; the orchestrator
calls at any time (`Commands`), except that with `EagerPlay = FALSE` it calls
`play_uri` only for an idle source whose reader is released. Audio edges and track
changes are heard whether or not the hub is connected: its handlers do not look
(a2dp.cpp:342, 428). PCM is counted in
chunks of the reader's read size, and a write takes the whole chunk or nothing.

### The parts around the control

Six small modules take up what the hub abstracts from. They share no variable,
and keep of the control only what they need, under names of their own.

- `AudioConfig`. `AUDIO_CFG_UPDATED` is translated on the Bluetooth task
  (`AudioCfg`, with the 16 bits of `frame_bits`), handed on by the main loop and
  kept by the sink and its two sensors. The reference, `StreamRate`, takes the
  header and the rounding of a frame from the codec's definition; the payload and
  the decoding of the configuration it shares with the code (`Payload`, `sbc_*`),
  so it checks the arithmetic around them and not those.
- `Announcements`. The callback that posts CONNECTED asks for the name of the
  phone; the answer is posted whenever it comes, or never if that phone has
  gone. `disconnect()` tells the sensors at once and may come between any two
  records.
- `Avrcp`. Requests to the phone and records from it are two queues. A
  registration reports one change; the channel takes its requests and its
  registration with it. One attribute stands for title, artist and album, whose
  sensors filter by attribute. Assumed of the phone: the control channel of a
  session is gone before the next session begins, and an answer shows the track
  of the moment it is given.
- `AbsoluteVolume`. The Bluetooth task answers SET at once and posts it, and
  answers a registration from the field the main loop writes. `set_volume`, what
  the phone set last, is a history variable.
- `PcmRing`. The callback's look at the free space, its write and its
  measurement are three steps, between which the reader may take bytes and
  anybody may reset. The buffer itself is external: its calls are atomic and
  `write()` discards the oldest bytes, as the comment at a2dp.cpp:900 says. Four
  history variables count what really happened.
- `Timers`. The clock has width `W` and ticks at most `SLACK` times between two
  looks. `at # 0 /\ now >= at` is every deadline of the hub, `now - started >=
  duration` the discoverability and the logs. History variables: the ages since
  the caller asked, and `due_time`, when a deadline would be due on a clock that
  does not wrap.

## 3. Runs

Passing runs, hub (module `MCA2dpHub` unless said otherwise):

| Run | Shows | Instance |
|---|---|---|
| `hub_safety` | `TypeOK`, `SubscribersAgree`, `ReconnectArmedSafely`, `Reachable`, `WifiPsRestorable` | a queue of 2 that overflows, all commands, BT preferred while streaming and while discoverable, no Wi-Fi pause (see below), Wi-Fi starting at any time, failing init and flash, power cuts, AVRCP with 2 labels |
| `hub_session` | `StreamingOnlyConnected`, `QueueCompletes`, `TracksFollowed`, `CoexOnlyWhileStreaming`, `WifiPsRestorable`, `StartsAnnounced`, and `SessionsTold`: the hub refines `SessionView` | two phones (symmetric), a queue of 4 without overflow, AVRCP, timed discoverability, BT preferred while streaming, Wi-Fi paused while connected; no `disconnect()`/`disable()`: with them `CoexOnlyWhileStreaming` and `StartsAnnounced` do not hold, see `f_powersave` and `f_start` |
| `hub_deadlines` | `DisableCompletes`, `RetriesEnd` | fairness; `enable`, `disable`, `disconnect`; three attempts; overflow may lose CONNECTED and DISCONNECTED; records that change nothing in between |
| `hub_converge` | `LinkSettled`, `EnabledReachable`, `LinkTracked`, `ReconnectOnlyAfterLoss` (module `HubHistory`) | fairness; two phones, a queue of 3 that overflows, `disconnect()`, failing init, power cuts; no `disable()` |

Passing run, the parts (module `MCParts`; a behaviour is one of one part):

| Property | Shows | Instance |
|---|---|---|
| `PartsTypeOK` | every part's types | |
| `BitrateEstimated` | the bit rate shown lies between the stream's highest rate and that plus one frame header | 768 configurations: both codings of the rate, every mode, length and number of subbands, the smallest, a usual and the largest bitpool |
| `DropsAccounted`, `HighWaterTrue` | the counters bracket what was lost and the peak, whatever reader and resets do between the steps of the callback | a buffer of 3 bytes, packets of 1 or 2, 7 bytes in all: enough to fill, to overflow and to be emptied between look, write and measurement |
| `VolumeAgreed` | once the queue is empty, hub and automations have the volume the phone set last; the phone too, unless it was told an older one while its SET was queued | three volumes, a queue of 3: two SETs and one on its way |
| `SensorsSettled`, `SensorsConverge` | with an empty queue and every name answered the sensors show the link and the phone at its end; and a phone that stays comes to be shown | two phones, two names on their way, a queue of 3 |
| `TitleSettled`, `TitleFollows` | once nothing is left to come, a playing phone is shown with its title and has a registration for the next; and a phone that plays on comes to be | two tracks, a queue of 2, one request unanswered when the next cause for one comes |
| `DeadlineKept`, `ElapsedKept` | an elapsed time ends within one loop of its time; so does a deadline, with exactly the exceptions the wrap makes: early, late or never | a clock of 8 ticks, looks at most 2 apart, delays 1 and 3, a duration of 4: every phase of the wrap |

Passing runs, media source (module `MCMediaSource`):

| Run | Shows | Instance |
|---|---|---|
| `ms_patient` | `TypeOK`, `ActiveHasReader`, `StopOwnsTask`, `GateHasRequest`, `StopCompletes`, and `LifecycleKept`: main loop and reader refine `SourceLifecycle` | all calls, an orchestrator that waits for the release of the reader, fairness |
| `ms_eager` | `ReleasedWhenDone` | `play_uri` at any time, task creation may fail |

Bounds. The queue holds 2 to 4 records instead of 8: what matters is a record
waiting behind another, and an event that finds no room, and both happen with 2;
the session properties, which assume that no record is lost, get 4 so that a
whole session (connect, control channel, start, end) fits. Two reconnect
attempts show "attempts left", "last attempt" and "out of attempts"; three also
show a middle one. One phone is enough where the address is not compared; two
where a second phone can take the place of the first. Two AVRCP labels make the
single-label commands wrap; where no property looks at the label there is one.
The refusal limits 2 and 3 keep the code's "longer before the first write", one
drain poll and two pre-roll polls give both loops a turn and an end, a ring of 2
chunks with a pre-roll target of 2 (1 in `ms_eager`) can be empty, short of the
target and full. Every counter is bounded by the code itself (attempts, labels,
refusals, polls) or by a named bound in a guard (`NAME_REQUESTS`,
`TITLE_REQUESTS`, `DIAG_LIMIT`, `W` for the ages); no state constraint is used.

Findings: runs that TLC must refute, one property each, taken from a text of the
repository; the trace of each was read against the code.

| Run | The text | What the code does |
|---|---|---|
| `f_asserted` | a2dp.cpp:514 "Never call esp_bluedroid_disable() while an ACL link [...] is still live" | `disable()` asks `connected_`, but CONNECTED may still be in the queue |
| `f_powersave` | README.md:231 power save off "while audio is streaming", restored afterwards | `disconnect()` leaves `coex_apply_at_` armed |
| `f_start` | README.md:104 `on_audio_start` is fired when the source starts streaming | a late AUDIO_STARTED after `disconnect()` swallows the next start |
| `f_muted` | a2dp_sink_media_source.h:100 a start while paused makes PCM flow | the output stays disabled after a refusal |
| `f_stale_pause` | a2dp_sink_media_source.h:78 PAUSED means the audio paused | parking wipes a START that has just come |

Behaviours the models also contain, and that no run singles out; each is a trace
of the passing instances and follows from the lines named:

- `enable()` looks at `enabled_` only (a2dp.cpp:468), so it runs during a
  pending teardown, and the comment "enabled_ is already false" (a2dp.cpp:205)
  no longer holds: the teardown then switches the stack off under an enabled hub,
  which no phone can reach. `Reachable` speaks of a stack that runs and does not
  see this; `EnabledReachable` does, and holds without `disable()` only.
- With `pause_wifi_sources_on_connect` the configured power-save mode can be lost,
  against README.md:231-233. The DISCONNECTED that lifts the pause requests high
  performance (a2dp.cpp:823) and the Wi-Fi component turns power save off. A
  preference for Bluetooth that comes while this is served reads PS_NONE
  (a2dp.cpp:788) and later restores that. It takes `disable()`, which lifts the
  pause (with `prefer_bt_while_discoverable`: CONNECTED, `disable()`, the Wi-Fi
  component's loop, `enable()`), or a lost CONNECTED before an AUDIO_STARTED.
  Otherwise every CONNECTED pauses Wi-Fi, and so releases the request, before its
  stream prefers Bluetooth: `hub_session` checks `WifiPsRestorable` there, and
  `WifiPsPausedCorrect` proves it. `hub_safety` checks it with every command and a
  queue that overflows, but without the pause.
- `disconnect()` does not lift the Wi-Fi pause, and the DISCONNECTED that follows
  finds `connected_` false (a2dp.cpp:294) and leaves it: `wifi_paused_` stays until
  the next connection ends, or `disable()`.
- `deinit_bt_()` (a2dp.cpp:679) does not flush the queue: a CONNECTED queued
  when `disable()` ran is handled afterwards and makes a disabled hub look
  connected, against README.md:78. This is why `RetriesEnd` lets a chain end in
  `connected`: after a later `enable()` the armed deadline waits behind the stale
  `connected_`.
- `resume_playback_on_reconnect_` (a2dp.h:275) survives a CONNECTED and an idle
  DISCONNECTED, and is read at the next AVRCP connection.
- AVRCP_TRACK_CHANGED, and AVRCP_CT_CONNECTED with a resume pending, send
  commands in the very `loop()` that handled AUDIO_STARTED (a2dp.cpp:48).
- `play_uri` before the release of the last reader wipes its SUSPENDED bit and
  reports PLAYING with nobody reading. Nothing in this repository excludes such
  a call; `ms_patient` shows that the source is right when the orchestrator
  waits.
- A stream that starts while a STOP is pending is ignored although the source is
  IDLE (a2dp_sink_media_source.cpp:40).
- A drain asked for by a disconnect is lost when the drain loop acts on an older
  START (a2dp_sink_media_source.cpp:360), or when a track change flushes it: the
  source stays PLAYING.
- The bit rate shown is too high by one frame header: `sbc_bitrate_` has the 32
  bits of the header in `frame_bits` and adds its 4 bytes once more
  (a2dp.cpp:122, 130). `BitrateEstimated` states the margin.
- Round the wrap of `millis()` (a2dp.cpp:223, 480) a deadline whose sum wraps is
  due at once; one whose sum wraps to exactly 0 is never due; and one so short
  before the wrap that no `loop()` comes in between is missed for 49.7 days.
  `DeadlineKept` names these cases and says that there are no others: a deadline
  is late only if it falls on the wrap (`FallsOnWrap`), is never found if it falls
  on its very tick, and is early only if its sum wraps, and then only until the
  clock has wrapped too. `ElapsedKept` needs no such exception.
- The INTERIM answer to a volume registration reads `avrcp_volume_`
  (a2dp.cpp:960) while the record of a SET may still be queued: the phone is told
  the volume it has just replaced. `told_stale` marks it; it lasts until the
  phone sets a volume or registers again, also when the queue is long empty.
  `VolumeAgreed` says that this is the only way for the phone to differ, and that
  hub and automations follow what it set, not what it was told.
- A name answered after DISCONNECTED is published over the empty one
  (a2dp_sink_text_sensor.h:21) and stays until the next connection ends; metadata
  answered after `disconnect()` likewise.
- Metadata and the registration for the next change are two commands
  (a2dp.cpp:231). A track that changes between their answers is in neither, and
  the title stays old until the next cause for a refresh. `TitleSettled` and
  `TitleFollows` hold without such a change; with `ChangeInGap = TRUE` they do not.

Deadlock is checked in every run: the system never stops.

## 4. Fairness

Hub: weak fairness of `setup()` after a reset, of the reset after a panic, of the
main loop (`LoopTop`, `Handle`, `DrainDone`) and of the Wi-Fi component's
(`WifiLoop`), which ESPHome calls in turn for ever.
Strong fairness of finding the teardown deadline and the reconnect deadline due:
`millis()` passes a deadline for good while `loop()` comes round again and again,
but `LoopTop` is not continuously enabled. Nothing is assumed of the phone. The
liveness properties carry the premise `LoopReturns`: the code drains the queue
until it is empty, so a phone that posts faster than the loop reads would keep
it from its timers.

`Announcements` and `Avrcp`: weak fairness of the main loop's handling and of the
refresh that falls due, and of the answers: Bluedroid ends every name request by
an answer or a failure, and a phone that stays answers the commands it gets.
Neither is assumed to come before anything else.

Media source: both tasks are scheduled (`WF` of the reader and of the second half
of a main-loop call); strong fairness of `Loop`, which runs in every pass of the
main loop whatever calls come between. `StopCompletes` excludes a STOP repeated
for ever.

## 5. Proofs

`A2dpHubProofs` proves for every value of the constants (any phones, queue
length, number of attempts and labels, any set of commands and options) that
`Spec` implies:

- `TypeCorrect`: `[]TypeOK`. Lemmas type the queue (`PostTyped`, `DequeueTyped`),
  the calls into the stack (`StackCallsTyped`), the labels and the coexistence
  operators; one lemma per module then goes through the actions.
- `SubscribersCorrect`: `[]SubscribersAgree`, inductive as it stands.
- `ReconnectCorrect`: `[]ReconnectArmedSafely`. The invariant adds that nothing
  is armed before `setup()`: that is what makes `enable()` at boot, which reads
  the peer from flash, safe.
- `ReachableCorrect`: `[]Reachable`, which speaks of a stack that runs. The
  invariant adds that a stack which is not running is not scanned, which is why a
  failed `esp_bt_gap_set_scan_mode` and a half-built stack do no harm.
- `EnabledReachableCorrect`: `[]EnabledReachable`, without `disable()`
  (`NeverDisabled`): the stack of an enabled hub does run. The premise is needed
  (section 3).
- `WifiPsCorrect`: `[]WifiPsRestorable`, without `pause_wifi_sources_on_connect` and
  for all other options. `SavedInv` adds that a mode is only saved once Wi-Fi is
  up, so that a restore always reaches the driver; `NothingRequested` that without
  the pause the Wi-Fi component never turns power save off. The step
  (`EveryStepKeepsSaved`) asks only that a preference finds no request
  (`PreferAllowed`), which the next proof of it uses too.

`MediaSourceProofs` proves for every ring size, limit, poll count and set of
calls that `Spec` implies:

- `SourceTypeCorrect`: `[]TypeOK`, one lemma for each kind of variable.
- `ReleasedCorrect`: `ReleasedWhenDone`, an action property. Its invariant
  `TaskInv` ties the task object to the reader (`created` exactly while there is
  one), SUSPENDED to the reader's last places, and these to an empty hand.
- `StopCorrect`: `[]StopOwnsTask`. The invariant adds that PAUSE and PLAY are only
  half way through for a source that is not IDLE, so their second half cannot
  move the state of a source whose stop is pending.
- `GateCorrect`: `[]GateHasRequest`, inductive as it stands.
- `ActiveCorrect`: `[]ActiveHasReader`, given `~EagerPlay` and `~CreateMayFail`.
  `PatientInv` adds why: STOP is in the event group only while the source is
  IDLE, so a reader that leaves without WANT_IDLE leaves an idle source; WANT_IDLE
  and SUSPENDED come together; a released source has no report left to hear; a
  source that still has its task is either not IDLE or stopping. Both premises
  are needed: without the first the source may report PLAYING over a dead
  reader (section 3), without the second over none at all.

- `LifecycleCorrect`: `LifecycleKept`, the refinement of `SourceLifecycle`, under
  the same two premises. The mapping reads the reader's state from the task object
  and its SUSPENDED bit (`TaskSeen`); the invariants above show that each step is a
  step of the abstract source or a stutter.

`HubSessionProofs`, for a queue that loses nothing and no `disconnect()`
(`QueueLeads`):

- `StreamingCorrect`: `[]StreamingOnlyConnected`, and `SessionsCorrect`:
  `SessionsTold`, the refinement of `SessionView`. `StreamingOnlyConnected` is not
  inductive: whether an AUDIO_STARTED in the queue finds a connection depends on
  the records before it (`InSession`). `SessionInv` adds that every AUDIO_STARTED in the queue
  lies in a session (after a CONNECTED or with the hub connected, and no
  DISCONNECTED in between) and that the end of the queue does while the link is
  up. For the refinement, `SubscribersAgree` lets the proof follow `connected_` and
  `audio_streaming_` instead of what the subscribers were told.
- `CoexCorrect`: `[]CoexOnlyWhileStreaming`, if only streams ask for priority and
  nobody calls `disable()` or `disconnect()` (`OnlyStreamsPreferBt`). It needs no
  lossless queue: `CoexInv` says that a preference is set or deferred only while
  `audio_streaming_`, and sources are paused only while `connected_`.

`HubFollowProofs`, about a hub that follows what the queue tells it:

- `QueueCompletesCorrect` (`[]QueueCompletes`) and `StartsCorrect`
  (`StartsAnnounced`), for a queue that loses nothing and neither `disable()` nor
  `disconnect()` (`FollowsLink`). `Replay` is a function defined by recursion over
  the queue; that it exists and is unique needs induction over the length. The
  library's induction theorems take an operator and cannot be used, so
  `NatSetInduction` is proved for a *set* of numbers, from the well-foundedness of
  strict inclusion of finite sets (`FS_StrictSubsetOrderingWellFounded`, `WFMin`).
  `ReplayAppend` and `ReplayTail` then say what a posted and a taken record do to
  it, so the invariant `FollowInv` needs no further induction. It adds to
  `QueueCompletes` that a queued record never says what the view already holds
  (`QueueTells`): that is why no start is swallowed.
- `TracksCorrect`: `[]TracksFollowed`, for a queue that loses nothing and no
  `disable()` (`FollowsTracks`); `disconnect()` may come at any time. `TracksInv`
  follows the registration through the queue: while the control channel is up, an
  end of an earlier channel in the queue is followed by the start of a later one,
  and a streaming hub has registered, is about to, or has a record coming that
  makes it register.
- `LossCorrect`: `ReconnectOnlyAfterLoss`, also when records are lost, without
  `disable()`. `LossInv`: an armed deadline belongs to a hub without a connection
  whose last drop was not a release; and (`UnusedInv`) a hub that is not enabled
  has not been since the boot, so `enable()` finds nothing left of a session.
- `SettledCorrect`: `[]LinkSettled`, without `disable()`. Records may be lost, but
  the property speaks of the time before the first loss. `SettleInv` replays the
  peers alone, without the audio, which `disconnect()` cuts off early:
  `LessKnown` shows that a hub that has forgotten its peer ends either where it
  would have ended or with no peer, and `OneByOne` that no CONNECTED in the queue
  finds a hub that already has a peer.

- `WifiPsPausedCorrect`: `[]WifiPsRestorable` with `pause_wifi_sources_on_connect`,
  for all other options, a queue that loses nothing and no `disable()`
  (`FollowsTracks`); `disconnect()` may come at any time. `PausedInv` says that no
  request for high performance stands while Wi-Fi is paused or before the hub is
  first enabled, and that a preference is only deferred while Wi-Fi is paused. For
  the latter it follows the queue as `SessionInv` does, with `wifi_paused` in the
  place of `connected`, which `disconnect()` clears early: every AUDIO_STARTED in
  it finds Wi-Fi paused.

None of these premises can be dropped. With `"disable"` among the commands of
`hub_session` or `hub_converge` TLC refutes `QueueCompletes`, `StartsAnnounced`,
`TracksFollowed`, `LinkSettled` and `ReconnectOnlyAfterLoss`, through the half
teardown that an `enable()` interrupts or the queue that `deinit_bt_()` does not
flush, and `WifiPsRestorable`: with CONNECTED and AUDIO_STARTED still queued at
`disable()`, the next `enable()` lifts the pause they brought while the preference
is deferred (section 3). With `disconnect()` it refutes
`StartsAnnounced` (`f_start`) and `QueueCompletes`: the hub lets go before the stack
does. With `Overflow` it refutes `QueueCompletes`, `StartsAnnounced`,
`TracksFollowed` and, with the Wi-Fi pause, `WifiPsRestorable`; the properties of
`HubHistory` allow for it by themselves.

The parts, each for every value of its constants:

- `TimersProofs`: `DeadlineCorrect` and `ElapsedCorrect`. The invariants give the age
  of a wait in terms of the clock (modulo `W` for the elapsed time, by the cases
  "sum wrapped" and "clock wrapped" for a deadline) and say that a wait still
  running was not over at the last `loop()`. `DelaysAssumption` keeps a delay and
  one loop within one round of the clock: the code's longest is 3 s.
- `PcmRingProofs`: `DropsCorrect` and `HighWaterCorrect`. The invariant follows the
  callback: after its look the packet is already counted, after its write not yet
  measured, and what left in between makes up the difference.
- `AudioConfigProofs`: `BitrateCorrect` for every configuration of five bytes, and
  `BitrateFits`: the product in `sbc_bitrate_` fits its 32 bits, which is why the
  model needs no `% 2^32` there. `PayloadBound` and
  `FrameLength` bound the products; `DivMonotone` carries the margin through the
  division.
- `PartsProofs`: `VolumeCorrect`. The invariant says that the end of the queue is
  what the phone set last, an empty one what the hub holds, and that the phone
  shows what it set unless it was told an old volume. `PartsTypeCorrect` and
  `PartsCorrect` put the parts side by side: `PartsStep` shows that a step of all is
  a step or a stutter of each, so a behaviour of all is a behaviour of each.
- `SensorsCorrect` (`[]SensorsSettled`) and `TitleCorrect` (`[]TitleSettled`), also in
  `PartsProofs`: the safety below `SensorsConverge` and `TitleFollows`, for which
  only the fairness of loop and answers is left to TLC. `SensorInv` says that a
  queued CONNECTED finds a hub whose earlier connection is over
  (`ConnectionOver`), that with the link up the hub has the phone or a CONNECTED
  of it with no end behind it, and that the last name asked for, queued or shown
  is that phone's. `TitleInv` says that with the channel up either the commands
  that are out, with what was answered, will do (`Fresh`), or another round is
  coming (`RefreshAhead`): the refresh is armed, or an event in the queue arms it,
  or one that clears it is followed by one that arms it again. `TitleCorrect`
  has the premise `~ChangeInGap`, without which it is false (section 3).

The assumptions are those named in the modules (`NoPeerAssumption`,
`QueueAssumption`, `LabelsAssumption`, `AttemptsAssumption`, `PsAssumption`,
`RingAssumption`, the Boolean options, and those of the parts); TLC evaluates them in every run. Each
proof has the form `Init => I`, `I /\ [Next]_vars => I'` by cases on the actions,
`I => property`. All invariants were checked with TLC on the instances of the
runs before they were proved.

Only model-checked: the liveness properties, since TLAPS does not handle fairness
and ENABLED here: `DisableCompletes`, `RetriesEnd`, `LinkTracked`, `StopCompletes`,
`SensorsConverge`, `TitleFollows`. Every invariant and every safety property of a
passing run is a theorem.

## 6. Not modelled, and the plan

Not modelled:

- automations that call back into the hub from a trigger (a2dp.cpp:310): nothing in the
  repository does, and what a handler should then go on with no text says;
- requests for high performance by other components, which the Wi-Fi component
  counts together with the hub's;
- the failure of `esp_wifi_set_ps` once Wi-Fi is up, the failure of `setup()` to
  allocate its queue or buffer;
- bytes of PCM as such, and the reader's own diagnostics (underruns, partial
  writes, stack watermark), which nothing reads but the log;
- audio that keeps arriving after AUDIO_STOPPED;
- the key codes of the transport buttons, the PIN reply, the texts of the log;
- the Python generators and the example configuration.

The plan of the first stage is carried out: hub, media source, their abstract
specifications and refinements, the parts, and the proofs of the safety of all
of them. What would extend it most is the composition of hub and media source
into one system, with the suspend request and the play request between them: its
state space is the product of two that are already large, so it needs an
abstract hub (`SessionView` with the lost start of `f_start`) beside the detailed
source.
