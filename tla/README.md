# A verification project for Jarvis Home

Jarvis Home is a tablet app (Kotlin, `src/app/src/main/java/com/avera/jarvis/`)
that listens for "Hey Jarvis", holds a spoken conversation with OpenAI's Realtime
API over a WebSocket, plays the answer, runs tools and keeps one timer. This
directory holds TLA+ models of the parts of it whose correctness depends on the
order in which threads, timers and server events meet, the TLC runs that check them
on small instances, and TLAPS proofs of some of the properties for all instances.
File names below without a path are Kotlin files of that package.

## 1. Inventory

| Component | Where | State | Operations | Modelled in |
|---|---|---|---|---|
| Turn-taking | `RealtimeSession.kt` 353-413, 652-929 | `micGated`, `startedGated`, `respActive`, `turnEcho`, `gatedFrags`, `audioChunks`, `stillborns`, `ungateGen`, `flushGen` | one handler per server event, `gatedFragEval`, `silenceNow`, `interrupt`, the starve watcher | `TurnTaking` |
| Microphone hub | `MicHub.kt` | `ring`, `frameCount`, `sinks` | capture loop, `addSink`, `removeSink`, `snapshotRange` | `MicHandoff` |
| Mic thread of a session | `RealtimeSession.kt` 485-545, 1000-1167 | its queue, `pending`, the seed, `preroll` | attach, park the detector, cut and write the seed, send or buffer | `MicHandoff` |
| Connection | `RealtimeSession.kt` 271-346, 548-622 | `ws`, `wsReady`, `running`, `reconnects`, `pendingAsk`, delayed blocks on `main` | `start`, `stop`, `ask`, `onOpen`, `onFailure`, `onClosed`, `reconnect`, idle and hard stop | `Connection`; what governs a start in `Coordinator`, what a lost link does to a turn in `TurnTaking`, to audio in `MicHandoff` |
| Playback | `RealtimeSession.kt` 240-270, 797-860, 931-983 | `track`, `framesWritten`, `playEpochFrames`, `playEpochMs`, `lastWriteMs`, `flushGen`, `playExec` | delta, paced write, flush, start, teardown | `Playback`; which response a chunk is of in `TurnTaking` |
| Wake-word detector | `WakeWordDetector.kt` | `running`, `captureOnly`, `thread`, sessions, sink | `start`, `stop`, `loop`, fire | `Coordinator` |
| Owner | `MainActivity.kt` | `micMuted`, the callbacks between detector, session, timer | `onCreate` wiring, tap, mute slider, new intent, destroy | `Coordinator`; the activity's creation and destruction in `Activities`; the mute's effect on audio in `MicHandoff` |
| Timer and ring | `tools/TimerTool.kt` | `endsAt`, `ringing`, chime loop | `start`, `cancel`, `fire`, `dismissRing`, stop listener | `Coordinator` |
| Panel | `Panel.kt`, `MainActivity.kt` 187-229 | `nightMode`, `pendingSince`, `lux`, brightness, the preferences | light sensor, tick, `updateLux`, `setNight`, choices, restarts | `Panel` |
| Volume | `Panel.kt` 36-40, `MainActivity.kt` 126, 222-229, `RealtimeSession.kt` 192-204, `tools/SystemTools.kt` | `volumePercent`, `outGain` | the tool, the rocker | no |
| System monitor | `SysMon.kt` | `lastBusy`, `lastTotal`, its listener | a sample every 3 s | no |
| Other tools | `Tools.kt`, `tools/*`, `Search.kt`, `Weather.kt` | none between calls | one request, one text | their effect on the turn in `TurnTaking`, the late stop of `end_conversation` in `Connection` |
| Memory | `Memory.kt` | two Markdown files | append, read, truncate | no |
| Far-end reference, echo canceller | `FarEnd.kt`, `Aec.kt`, `cpp/aec.cpp` | a ring of samples | append, read, reset | no |
| Screen, cards, sounds, weather | `PanelUi.kt`, `Cards.kt`, ... | drawing state | drawing, polling | no |
| Configuration, prompt, diagnostics, lab | `Config.kt`, `Prompt.kt`, `src/echolab` | constants | text | no |

### How they interact

```
 room --> MicHub --frames--> WakeWordDetector --fire--> MainActivity --start()--> RealtimeSession
             |                      ^                        ^                     |   |   |
             +--frames--> mic thread+-- stop(), start() -----+------ onClosed -----+   |   |
                              |                                                        |   |
                              +--audio--> socket <--events-- Realtime API              |   |
                                                     handleEvent --deltas--> playExec -+   |
                                                     handleEvent --tool calls--> TimerTool +
```

The threads are: the main thread (taps, posted and delayed blocks), the hub's
capture thread, the detector's loop, a mic thread per session, OkHttp's reader of
the socket, `playExec` (one thread), one starve watcher per finished response, and a
thread per slow tool call. They share the fields above, most of them `@Volatile`,
few of them under a lock (`prerollLock`, the hub's `ringLock`).

### Which behaviours are hard

* *An utterance is judged several times.* At its onset and its commit by the mic
  gate, seconds later by its transcript; in between the gate goes up with an answer
  and down with the speaker's silence. Nothing but the map `turnEcho` ties the
  verdicts together.
* *Everything is cancelled by generations.* `flushGen` orphans audio, `ungateGen`
  orphans starve watchers, `removeCallbacks` takes back `gatedFragEval`; what is
  already past its check is not taken back.
* *The gate must come down.* Each response's watcher is made obsolete by the next
  one's, by `silenceNow()` and by `stop()`.
* *Two timelines are spliced.* The words before the session began come from the
  hub's ring, the rest from the session's own queue, and the hub keeps capturing
  while the boundary is chosen.
* *The link fails* while the user speaks; audio then waits in `preroll`, filled by
  one thread and emptied by another.
* *Activities outlive themselves.* Android may destroy and create the activity while the
  process, its timer and everything posted live on.
* *Preferences reach the disk later*, and a process may be killed before.
* *Delayed blocks outlive what posted them*: 250 ms and 400 ms stops, reconnect
  delays, chimes. They test little when they run.

### What makes each component correct

* Turn-taking: no utterance draws two answers; talk-over that was collected is
  judged; a gate that is up comes down; only real chatter ends a session; a
  silenced answer stays silent.
* Handoff: seed and live audio meet; no frame vanishes other than at a named limit;
  none but the seam's is sent again; the server hears them in order.
* Connection: the caps that are armed are the conversation's own; only failures of the
  present link end it; a link that is lost is restored or the conversation ends; an open
  link has a speaker; a typed question is sent once; an ended session keeps no socket.
* Playback: the playhead the app computes is never far from the speaker's; the track
  holds a bounded amount; pacing ends; what was flushed is soon out of the air.
* Coordinator: detector and session never both own the conversation; when neither
  a session, a ring nor the mute slider holds the microphone the wake word is armed
  and its loop runs; a ring always ends, and only a timer that is set rings.
* Activities: the activity on the screen listens, and no other.
* Panel: passing light does not flip the mode, a lasting one does; a restart at night
  comes back dim.

`PROJECT.json` lists the hazards behind these, each at its line.

## 2. Modules

### `TurnTaking` (with `MCTurnTaking`)

The conversations of one `RealtimeSession`, one after the other. The state is the app's fields under their own
names, the queues between the threads (`mainQ`, `timers`, `playQ`, `watchers`,
`slowTools`), the two directions of the network (`outbox`, `inbox`) and the server.
The variables `answering`, `asked` and `hushed` are history that only properties read.

| Code | Action |
|---|---|
| `handleEvent`, branch by branch (660-911) | `HandleCreated`, `HandleSpeechStarted`, `HandleSpeechStopped`, `HandleCommitted`, `HandleTranscript`, `HandleAudioDelta`, `HandleToolCall`, `HandleDoneChatter`, `HandleDone` |
| blocks posted to `main` | `RunBareStop`, `RunHush`, `RunFragment`, `RunFragmentEval` (and `SkipRemovedEval` for one that `removeCallbacks` took), `RunDelayedCreate`, `RunUngate`, `RunStop` |
| a delay is over | `TimerDue` |
| `playExec` and the pace of its writes | `PlayChunk`, `SpeakerStarves` |
| `onFailure` and `stop()` for the link; `start()`; `onOpen` (570-584) | `LinkFails`, `Start`, `Opens` |
| the watcher thread (889-909) | `WatcherPosts`, `WatcherLeaves` |
| a slow tool's thread (705-733, 924-929) | `SlowToolReturns` |
| `interrupt()`, `stop()` from a tap or timer | `Interrupt`, `EndSession` |
| the Realtime API and the room | `Server...`, `SomeoneSpeaks`, `SomeonePauses` |

What is abstracted: a transcript is one of five kinds, which is all `STOP_PHRASE`,
`STOP_LOOSE` and the word count of `gatedFragEval` tell apart; word counts saturate
at the three that matter; time is gone, so a delay may end at any moment after it
began (every order the real delays allow is among these). An audio delta is its
response and generation. `PlayChunk` makes `playExec`'s last test of the generation
and the write one step; splitting them belongs to `Playback`. A posted `silenceNow()`
and the one from `interrupt()` are one step each, as they all run on the main thread
and nothing the other threads do in the middle of them is told apart by a property.
The ringing-timer branches, ducking and the idle timer's re-arming are left out.

`start()` resets little: `respActive`, `gatedFrags`, `turnEcho`, `audioChunks` and the
watchers of the conversation before are met by the next one, and the model keeps them.
A link that is lost takes the requests and events on it along (`LinkFails`, `Opens`),
`response.done` among them; only `onOpen`, which lowers the gate, makes up for it.

`TurnPolicy` is the abstract specification, *we create responses only for deliberate
turns*: an utterance waits, once it is over, for one verdict, an answer or a drop.
`TurnTaking` maps to it by `INSTANCE TurnPolicy WITH ...`: an utterance waits as long as
it is on one of the ways to `response.create` (without a transcript, in an event, a
posted piece, collected, or in a delayed create), and `ImplementsPolicy` says that every
step is one of the policy's or a stutter: no answer of an utterance that is not over, was
dropped, or was answered, none without a conversation, also for several of them together.

The server is modelled from how the code uses it: it refuses a `response.create`
while a response is active (the code ignores that error), answers a cancel with
`response.done`, and sends the transcript of a turn at any time after its commit.

### `MicHandoff`

One session's audio from the wake fire to the server, a frame being its number.

| Code | Action |
|---|---|
| `MicHub.loop` (131-166): store and count under the lock, then hand out | `Capture`, `HandOut` |
| `startMic` (1000-1021): subscribe, park the detector, wait 40 ms, read the clock | `AttachSink`, `ParkWake`, `WaitForSink`, `ReadClock` |
| `snapshotRange`, `writeSeed` | `CutSeed`, `WriteSeed` |
| the mic loop (1037-1146): take a frame; test `wsReady`; send or buffer | `TakeFrame`, `SendLive`, `KeepForLater`, `MicLeaves` |
| `onOpen` (570-584): take preroll; send it; become ready | `Opens`, `FlushPreroll`, `BecomesReady` |
| `onFailure`, `reconnect` | `Fails`, `Redials` |
| `stop()`, `setMuted` | `EndSession`, `SlideMute` |

`TakeFrame` reads `wsReady`, and `SendLive` or `KeepForLater` acts on what it read: the
lock covers only the buffer. Which frames at the ends of a seed count as silent is a
nondeterministic choice. History: `wire`, what the server got; `firstSunk`, the first
frame the session's sink was given; `gone`, the frames given up, and of them those the
sink's full queue refused (`refused`), a full preroll refused (`crowded`), that were trimmed
(`trimmed`) or muted (`silenced`); `cutAt`, where the hub stood when the seed was cut.

`EveryFrameAccounted` is not "no word is lost". It says where a frame may be: on the wire,
on its way (`Delivering`), in a message that was put aside after `onOpen` had emptied
preroll and waits for another open (`Stranded`), or given up; of the seed, the ring may have
overwritten what was older than its length *when the seed was cut*. Until a link breaks,
frames are given up at the four limits only. `OnlySeamRepeats` says which frames may be
sent twice: the sink's first, and if the seed had to end at the hub's clock, those the sink
got in between. `SentNoFrameTwice` is what the comments promise, and fails.

### `Coordinator`

Who listens: the wake detector, a conversation, or nobody because a timer rings or
the mute slider is on. `WakeWordDetector.start()` and `stop()` are split at the steps
another thread can come between; `stop()` runs on the main thread and on each
conversation's mic thread (`call[c]`), and no lock is between them. `models` and
`thread` identify which ONNX sessions and which loop the fields hold, so that closing
the models a loop runs on, or running two loops, is visible. A conversation is a flag
here; what is said in it is `TurnTaking`, its audio `MicHandoff`.

| Code | Action |
|---|---|
| `WakeWordDetector.start` (113-126) | `WakeStart` (the early return, the models), then `StartRuns` |
| `WakeWordDetector.stop` (165-175) | `StopUnsubscribes`, `StopJoins`, `StopCloses` |
| `loop` (199-263) | `LoopTakes`, `LoopHearsNothing`, `LoopFires`, `LoopFails` (an inference that throws), `LoopLeaves`, `LoopGivesUp` (the 4 s cap) |
| `startConversation`, `RealtimeSession.start`/`stop` | `RunWake`, `TapToggles`, `AskArrives`, `SessionEnds` through `StartConversation`, `StopSession` |
| blocks on `main`: `active`, `onClosed` (`MainActivity` 125) | `RunShows`, `RunClosed` |
| `TimerManager`: `start`, `cancel`, `fire`, `chimeLoop`, `dismissRing` | `RunSet`, `RunCancel`, `RunFire`, `RunChime`, `RunDismiss`; `SkipRemovedFire` for a fire `removeCallbacks` took |
| a delay is over | `TimerDue` |
| `onTap`, `setMuted`, `onNewIntent` | `TapDismisses`, `TapToggles`, `SlideMute`, `SlideUnmute`, `AskArrives` |
| `TimerTool.run`, `speech_started` over a ring, the ring's listener | `ToolSetsTimer`, `ToolCancelsTimer`, `SpeechOverRing`, `VoiceDismisses` |

Two orders that the real times exclude are excluded by name. `PostsDone`: a person does
nothing between a block that was just posted and its run. `Begun`: a conversation does not
end by itself (idle timer, cap, tool, lost link) within the moments of its own start. A tap,
a slide or a question while a mic thread parks the detector is *not* excluded: `join()`
alone may take 1.5 s, more than the 900 ms debounce of `onTap`. Two histories say when the
properties stop: `crossed`, `start()` was called on the main thread inside a mic thread's
`stop()`; `intruded`, `start()` was called during a conversation (a ring that ends as one
begins). `OneLoop` and `ModelsIdleWhenClosed` hold until `crossed`, `ArmedWhenIdle` until
either; section 5 says what happens then. `RealtimeSession.stop()` is one step. While the
slider is on, the microphone
is cut by the hardware (`design.md`), so no wake word is heard.

### `Connection`

Several conversations on one `RealtimeSession`, the sockets under them, and the blocks
that outlive what posted them. Each socket has a phase (dialling, inside `onOpen`, open,
half closed by the server); sockets of ended conversations go on delivering events until
they are gone, and the listener does not test which socket calls it except in
`onFailure`.

| Code | Action |
|---|---|
| `start` (293-326), `stop` (329-346) by hand | `Start`, `StopByHand` |
| `idleStop`, `hardStop` (286-287) | `CapFires` |
| the 250 ms and 400 ms stops of `end_conversation` (205-209) and of chatter | `AsksToEnd`, `LateStopRuns` |
| `onOpen` (570-584): to `startPlayback()`; to the reading of `pendingAsk`; its taking out | `Opens`, `BecomesReady`, `TakesAsk` |
| `onFailure` (586-609), its delayed `reconnect` (615-622) | `Fails` (with `LosesLink`), `RedialRuns` |
| `onClosed` (610-612) and the missing `onClosing` | `CloseCompletes`, `ServerCloses` |
| `ask`, `sendAsk`, `pendingAsk` (548-561) | `AskArrives`, `SendAsk` |
| the teardown on `playExec` | `TearsDown` |

Four things are one step though a thread could come between: `newWebSocket` with the
assignment of `ws`, the listener's test of `ws` with what follows it, `stop()` on a
socket's thread, and the test in `ask()` with what follows it. The reading and the taking
out of `pendingAsk` (583) are two: each socket has its own thread, two sockets may be in
`onOpen` at a time (a leftover redial, a closed socket that still opens), and both may then
read the question; `AskSentAtMostOnce` holds until two are (`overlapped`). A handshake of
the current socket is taken to last longer than `playExec` needs for a queued teardown
(`Opens`); without it `startPlayback()` could keep a track that is about to be released.

### `Playback`

From an audio delta to the speaker, in one unit: a tick is the duration of a frame.
`heard` is what the DAC has really played; the code sees only the clock and computes
`speakerFrames()` from it.

| Code | Action |
|---|---|
| `response.audio.delta` (797-806) | `DeltaArrives` |
| `silenceNow`, a quiet `speech_started` (672-704) | `SilenceNow`, `SpeechStarted` |
| `startPlayback` (931-967) from `start()` and `onOpen` | `Start`, `Opens` |
| `onFailure`, `stop()` | `Fails`; `StopBegins`, `StopFlushes` |
| the task on `playExec` (805-848), test by test | `TakesChunk`, `KeepsWaiting`, `LeavesLoop`, `MarksEpoch`, `Writes` |
| the teardown's task | `TearsDown` |
| time, the DAC, the end of a 40 ms sleep | `Tick` |

The steps of `playExec` are apart because every handler that bumps `flushGen` can come
between them. A thread may be preempted: `MaxStall` bounds the ticks between the last
look at the generation and the write, and between a track's first frame and the reading
of its epoch. The code has no such bound; the properties say how their guarantees depend
on it. Gain, ducking and the orb's level are left out.

### `Activities`

Several activities in one process, one after the other. Each has its own detector, session
and panel; the timer's callbacks are the newest's. It is about
what an activity leaves behind, so the steps of `WakeWordDetector.start()` and `stop()`,
the chimes and the loops, which `Coordinator` has, are one step each here.

| Code | Action |
|---|---|
| `onCreate`, `onDestroy` | `Create`, `Destroy` |
| a detector's fire and its block | `Fires`, `RunWake` |
| `onMicAboutToOpen` on a mic thread | `Parks` |
| `onTap`, `onNewIntent`; caps and tools | `TapOrAsk`, `Ends` |
| blocks of `start`, `stop`; `onClosed` | `RunShows`, `RunClosed` |
| `setMuted` | `Slides` |
| the timer and its ring | `ToolSetsTimer`, `RunSet`, `RunCancel`, `TimerFires`, `RingStops` |

A hand waits for the main thread and the handoff (what it does during one is in
`Coordinator`); Android does not, so `Destroy` and `Create` come at any moment. History: `unlucky`, an activity was destroyed
with something of it under way, or a ring ended while there was none; `early`, a ring's end
re-armed the detector under a conversation that was on and not shown yet (section 5).

### `Panel`

`Panel` has the light: the sensor that reports changes only (`SensorReports`), the tick
every 4 s or later (`Tick`, all of `updateLux` with `setNight`), the two brightness
choices, and what a restart reads (`ActivityRestarts`, `ProcessRestarts`). `apply()` changes
the preferences at once for the process and later on the disk (`Applies`). The age of a wish
for the other mode is kept instead of its time.

## 3. Runs

| Run | Question | Properties |
|---|---|---|
| `turns` | two utterances against two responses, with a lost link or a second conversation, fair | `TypeOK`, `GateComesDown` |
| `fragments` | three utterances, two of them over the answer to the first, with a lost link or a restart | `AnsweredAtMostOnce`, `PendingTalkoverIsJudged`, `ImplementsPolicy` |
| `tools` | three responses that may chain tools of every kind; two events in flight; answers longer than the watcher's cap | `ChatterEscapeAfterTwoSilent` |
| `seam` | a wake fire and five more frames, small ring, queue and preroll, one failure, one break, mute and stop at any time | `TypeOK`, `NoHoleAtSeam`, `EveryFrameAccounted`, `OnlySeamRepeats`, `HeardInOrder` |
| `links` | two conversations, four sockets, two retries, a late stop, two typed questions, dials and links that fail at any time, fair | `TypeOK`, `CapsAreOwn`, `AskSentAtMostOnce`, `SpeakerForOpenLink`, `GivesUpOnlyAfterFailuresInARow`, `LinkRestoredOrEnded` |
| `playback` | three deltas, two flushes, six ticks over a track that drains, restarts, is torn down and rebuilt | `TypeOK`, `PlayheadHonest`, `TrackBounded`, `PacingEnds`, `StarvedMeansSilent`, `FlushedSoonSilent` |
| `detector` | wake words, taps, slides, questions, tool calls, failed inferences, four in all, at any moment of a handoff too, with a timer that is set, cancelled, fires, rings and gives up, fair | `TypeOK`, `OneLoop`, `ModelsIdleWhenClosed`, `ArmedWhenIdle`, `RingEnds`, `RingsOnlyIfSet` |
| `night` | changes of light, choices and restarts between ticks, fair | `TypeOK`, `HeadlightsDoNotFlip`, `RestartKeepsLight`, `CatchesUp` |
| `activities` | three activities, six inputs, rings, slides and conversations that outlive them | `LiveListens`, `OneDetectorUnlessUnlucky` |
| `silenced_resumes` | does a silenced answer stay silent? No | `SilencedStaysSilent` |
| `leaked_socket` | does an ended conversation leave no socket open? No | `EndedKeepsNoSocket` |
| `repeats` | does the splice duplicate no audio? No | `SentNoFrameTwice` |

### Why the bounds are enough

* `turns`: the gate is moved by a response, by talk-over, by an interrupt, by a new link
  and by the watchers of older responses. Two responses let a watcher be made obsolete by
  the next response, or by a stop, before, while and after it posts its block; one
  relink lets `response.done` be lost or a conversation begin in the middle of a
  response. All utterances are `"long"`: what a stop does to the gate `Interrupt` does at
  any time, and the other kinds are in `fragments` and `tools`. One event in flight still
  interleaves everything the app does with every event.
* `fragments`: an utterance is talk-over only if a response came before it, and pieces of
  talk-over meet only if there are two of them; three utterances are the least in which
  an evaluation that is already due is taken back by a second piece. The relink is a
  second conversation that meets the pieces of the first.
* `tools`: the chatter escape compares consecutive responses, so three separate
  "two in a row" from "two in all". Two events in flight let the app lag behind the
  server, `MayOutlastCap` lets the gate come down while an answer still plays.
* `seam`: the ring of 3 overflows in 7 frames, the queue of 2 fills while the mic
  thread is parked, the preroll of 3 is passed by one message of 2, a fire may be too
  old to seed. Each of the limits is reached, which the mutants show.
* `links`: two conversations let every block of the first meet the second; two retries
  separate "in a row" from "in all". Four sockets never bind: `Dial` always finds a free
  one, so the bound cuts off no behaviour. A third conversation would meet what the
  second left, which is of the same kinds as what the first left.
* `leaked_socket`: two conversations and one retry are the least in which a delayed
  reconnect crosses from one to the next.
* `playback`: a track of two frames' cap takes chunks of one or two, so the test before
  the write is passed with and without room to spare; six ticks are a prime, a drain, a
  restart and a second drain; two flushes make two generations old; `WaitCap` is as small
  as the longest chunk, the least that `LengthsAssumption` allows.
* `detector`: an input is used up by each wake word, tap, slide, question, tool call and
  failed inference; what follows of them (posted blocks, the timer's fire, its chimes, the
  ring's listener, a conversation's own end) is free. Four open a conversation, set a
  timer, end the conversation while its mic thread still parks, and slide or tap again
  during the ring: both `crossed` and `intruded` are reached, and states without them in
  which a detector was parked by both kinds of threads. Three open a conversation and set
  a timer twice, so that a stale chime loop meets a new ring; `ChimeLimit` 2 lets a ring
  give up by itself.
* `repeats`: the bounds of `seam`; a seed of two frames and one live message are enough.
* `silenced_resumes`: one utterance, one response and one delta in flight are enough.
* `night`: one light per side of the two thresholds and one between them, so that the mode
  depends on its history; a gap of 4 s needs two ticks for the dwell, one of 7 s needs one.
  Four changes, choices and restarts are a restart with a loss between two changes.
* `activities`: the third activity meets what the first and the second left behind at the
  same time; six inputs are two conversations, a timer each and two slides.

No run allows deadlock checking: a conversation whose session has ended and whose room
is silent really stops, and so does the hub at `MaxFrames`.

`MCTurnTaking` identifies states that differ only in stale generations. Generations
are only compared with the current one; a stale watcher leaves, a stale evaluation is
skipped, a stale chunk is dropped, and none of this touches anything else. The view is
used by the runs of safety properties only: `turns`, which checks liveness, runs
without it.

### Fairness

`FairSpec` of `TurnTaking` assumes weak fairness of the socket reader, the main thread,
`playExec`, the watchers and the delays. Each is a thread or looper of the app that is
never blocked for ever: a posted block is run, a delay ends, a written chunk is played
and the track starves. Of the server it assumes that it takes the requests and
completes the responses it began, each of which the API does or else closes the
socket. That a link which is lost opens again (`WF(Opens)`) is what `Connection` shows:
`LinkRestoredOrEnded`. Nobody has to speak, to transcribe, to call a tool or to end the session.
`GateComesDown` is the one property of `TurnTaking` that needs it.

`FairSpec` of `Connection` assumes that a dial succeeds or fails, that `onOpen` runs to
its end, that a half closed socket fails or closes (OkHttp's ping every 30 s finds it),
that posted reconnects run and `playExec` works. It does not assume that dials ever
succeed, that anyone stops a conversation, or that the caps fire: a conversation whose
dials all fail must end by its retries alone.

`FairSpec` of `Coordinator` assumes weak fairness of the main thread's tasks, the
delays, each step of `start()` and `stop()`, and the detector's loops: they return from
an inference and see that `running` is false. That a loop takes the next 80 ms is not
assumed, nor that anyone speaks, taps or slides, nor that a conversation ends.
`ArmedWhenIdle` and `RingEnds` need it.

`FairSpec` of `Panel` assumes that the sensor reports a light that has changed and that the
tick, which posts itself, runs. `CatchesUp` needs both; that the disk is ever written, or
that anybody restarts or chooses, is not assumed.

## 4. Proofs

Eight modules hold the theorems: `TurnTaking_proofs`, on top of it `TurnPolicy_proofs`,
and `<component>_proofs` for `MicHandoff`, `Connection`, `Playback`, `Coordinator`,
`Activities` and `Panel`. Every safety property of a passing run, the action properties
among them, and the refinement are proved. Each theorem holds for all values of the constants that
satisfy the component's named assumption (`BoundsAssumption`, `SizesAssumption`,
`LimitsAssumption`, `LengthsAssumption`, `InputsAssumption`, `ActivitiesAssumption`,
`LightAssumption`).

* `TypeCorrect`: `Spec => []TypeOK`. `TypeOK` is inductive because it says what the
  queues contain: a task, chunk or event that is taken has the shape its producer gave
  it. One lemma per group of actions.
* `TalkoverAlwaysJudged`: `Spec => []PendingTalkoverIsJudged`. The property is
  inductive together with the queues' types: every step that adds words arms
  `gatedFragEval` with the new generation, every step that removes an evaluation from
  the timers clears the words or arms another, and the step that runs the live one
  clears them, *also when the session has stopped* (the code resets the fragments
  before its early return, line 389-392).
* `ChatterCountsTwoSilent`: `Spec => ChatterEscapeAfterTwoSilent`. The code counts deltas
  without asking of which response they are, so the property rests on the order of
  events. `EscapeInv` says: events of a response come behind those of all before it, and
  its end behind its deltas (`InOrder`); a response that sent audio has a delta on its
  way before its end, or counted with no other end in between (`Heard`); while no link was
  lost the responses not read to their end are the last ones, without a gap
  (`EndsInTurn`), which is why the one counted before is the one before; and that one
  was silent (`LastSilent`). `LinkFails` and `Start` take ends along, which is the
  exception the property makes. The lemmas speak of sequences of events and not of the
  state; one per way in which the app reads or the server sends.
* `OneAnswer`: `Spec => []AnsweredAtMostOnce`. An utterance has two ways to an answer, and
  `TurnInv` says that it is on at most one: its commit and its transcript are in flight
  at most once and in this order (`EventsOnce`); one task at most carries it, posted,
  delayed or collected (`CarriedOnce`); until its commit is read it is not answered, while
  its transcript is to come `turnEcho` knows which way it took, and once it is carried
  no event of it comes any more (`Staged`). A link that is lost takes what is untold
  along (`Unlinked`).
* `PolicyImplemented`: `Spec => ImplementsPolicy`. With `TurnInv` every step is of one of
  three kinds: `Quiet`, nothing asked for and nothing new waiting, which is the policy's
  `Drop` or `OpenOrClose` or a stutter; `SomeonePauses`, its `Hear`; and `Answers(T)`, a
  request for turns that all wait, its `Answer`.
* `SeamHasNoHole`: `Spec => []NoHoleAtSeam`. The property says nothing of the time
  between choosing the seed's end and the sink's first frame, so it is strengthened
  to `SeamInv`: once the sink is attached no frame passes it by (`SinkSees`,
  `Subscribed`), and an end that was chosen is never behind the next frame to be handed
  out (`EndAhead`). The order of `startMic`, subscribe first and read the counter
  afterwards, is exactly what `Subscribed` needs.
* `HandoffTypeCorrect` and `LostOnlyAtLimits`, `TypeOK` and `EveryFrameAccounted` of
  `MicHandoff`. That frames do not vanish follows from one lemma, `NothingLost`: no step of
  any thread makes the set of frames on their way or given up smaller, provided that the
  threads are where `Placed` says (a seed or a flush begins when the last one is gone,
  and no seed ends in the future). `SunkHeld` and `SeedHeld` say what got into that set.
  Where frames are given up is `LimitsInv`: until a link breaks, what the mic thread or a
  flush sends finds the link up (`ReadyOnlyOpen`), so that nothing is given to a dead
  socket. The theorem allows what the comments deny, a full queue and stranded messages.
* `SentOnce`: `[]OnlySeamRepeats`. `RepeatInv` says of every frame outside the seam that
  it is in one buffer only, and there once (`OnePlace`, `EachOnce`). A frame enters a
  buffer twice only if the seed ran ahead of the sink (`Old`) or reaches back into
  what the sink has queued (`Live`), and both are in the seam. As the sink's counter is
  one past its first frame (`SinkSees`), a seed that ends there shares exactly that frame.
* `InOrderOnFirstLink`: `[]HeardInOrder`. That neighbours on the wire are in order is not
  inductive: it says nothing of the frames in the buffers behind it. `OrderInv` orders any
  two frames of the whole line, wire, flush, preroll, seed, message and queue (`Line`),
  and says that live messages go out only once the flush is over (`ReadyOnlyOpen`).
* `CoordinatorTypeCorrect`: `Spec => []TypeOK` of `Coordinator`, in three parts (flags,
  detector, queues). Its content is the chimes: what `chimeLoop` posts stays within
  the cap, whoever cancelled and restarted the timer.
* `RingsOnlySetTimers`: `Spec => RingsOnlyIfSet`. An action property about the step that
  rings needs an invariant about the time before it: `FireOnlyIfSet`, the block that
  fires waits, in the delays or the queue, only while `endsAt` is set. It holds because
  `cancelInternal` removes the block from both places, which `NoFire` says of a queue.
* `OneLoopUnlessCrossed` and `StopWaitsUnlessCrossed`: `OneLoop` and
  `ModelsIdleWhenClosed`, of `Spec` as it is, with timers and hands at any moment. Nothing
  in `start()` and `stop()` keeps two threads apart, and several `stop()`s may be in
  progress at a time; the proof is about what each of them has seen of the one loop
  (`AloneInv`). The exception, a `start()` inside a mic thread's `stop()`, is part of the
  properties, so the theorems say that no other order breaks them.

* `Connection_proofs`: `TypeOK` and four safety properties. Each is strengthened by what
  holds between the moments it speaks of. `CapsAreOwn`: an ended conversation has no caps
  armed (`CapsFollow`), so that those of `start()` are the only ones.
  `GivesUpOnlyAfterFailuresInARow`: the counter never runs ahead of the failures of the
  present link (`CountsFailures`), as every open resets it and only the current socket's
  failures count. `AskSentAtMostOnce`: a question that waits, in the field or read by an
  `onOpen` that has not taken it out yet, was not handed on, as long as one `onOpen` runs
  at a time (`AsksMove`).
  `SpeakerForOpenLink`: no teardown is queued behind an open link (`LinkHasSpeaker`).
* `Playback_proofs`: `TypeOK` and all five safety properties from one invariant, `IInv`.
  The properties speak of the speaker, which the code does not see. `ClockHolds` says how
  far the clock and the speaker can be apart at each place of `playExec`: at most
  `MaxStall`, or the track is nearly drained, and the next epoch then throws the error
  away, which is why errors do not add up. `PacingHolds` says how far the writes are
  ahead of the clock: each tick waited is a frame less, and no chunk is longer than
  `WaitCap`, so pacing ends with room. `TrackHolds` and `LateWrite` carry both to the
  speaker, across a flush that comes too late for a chunk. `StopsFirst` and `GensAreOld`
  keep the tracks apart: a chunk of the present generation has no teardown behind it in
  the queue.
* `Activities_proofs`: `TypeOK`, and `OneDetectorUnlessUnlucky` from `OthersRest`: as long
  as nothing unlucky has happened, every activity that is not on the screen has its
  detector off and, besides, no session, no mic thread and no block that could start it.
  The second half is what makes the first inductive. `LiveHearsItsName` proves `LiveListens`:
  `Own` says of the activity on the screen that a conversation it shows runs or has its
  `closed` to come (`Talks`), that its detector is off only for a conversation, a mute, a
  ring or a `closed` to come (`Hears`), and what that `closed` will find (`Closes`). An
  activity that is not created yet has left nothing behind (`Fresh`), so that a new one
  starts with `Own`. It holds until a ring ends too early (`early`).
* `Panel_proofs`: `TypeOK`, `HeadlightsDoNotFlip` and `RestartKeepsLight`. A wish that is
  pending is never older than the time since a reading agreed with the mode, and
  after a tick the preferences are never further from mode and brightness than the
  hundredth below which nothing is saved.

Only model-checked: `GateComesDown`, `LinkRestoredOrEnded`, `ArmedWhenIdle`, `RingEnds`, `CatchesUp`
(liveness under fairness and the ENABLED in it are out of the prover's reach). Checked
and not proved, because they are not true, are the properties of the two runs that expect
a violation. No module has a RECURSIVE operator, and nothing is proved by induction over
data.

## 5. What the checks found

Three runs end in a counterexample to something the source says of itself. Each is
described in `PROJECT.json` under `findings` with the line it quotes:

* audio in flight survives `silenceNow()` (`silenced_resumes`);
* a delayed reconnect of one conversation dials a second socket for the next, and the
  socket `start()` dialled is never closed (`leaked_socket`);
* the seed's last frame is the live audio's first: `sinkFirstFrame` is read from a counter
  that has already moved past the frame (`repeats`). Whenever the seed ends at the sink's
  first frame and is not trimmed there, exactly one frame is sent twice; if the 40 ms wait
  was in vain and the hub's clock is read instead, it may be more. "Gapless and
  duplication-free" is `RealtimeSession.kt` 1013-1014, "neither drop nor duplicate audio"
  `MicHub.kt` 38-40.

Other comments of the source are contradicted too. The properties of the passing runs
except these cases by name, so that what remains is true and can be proved:

* "So the handoff can never drop audio again" (`RealtimeSession.kt` 1008-1010): the sink's
  queue holds 32 frames, 320 ms, and nobody empties it while `onMicAboutToOpen` joins the
  detector's loop for up to 1.5 s; frames that find it full are lost (`refused`).
* "So no words are lost" (`RealtimeSession.kt` 1139-1140): `wsReady` is tested outside the
  lock. A message whose test came before `onOpen` set it, and whose write came after
  `flushPreroll`, stays in `preroll`. It is sent by the next open, after what was said
  later, or dropped by `stop()` (`Stranded`). And a full `preroll` refuses what comes
  (`crowded`).
* "Wait for the loop to leave OrtSession.run() before closing the sessions"
  (`WakeWordDetector.kt` 168-170): a tap that ends a conversation while its mic thread is
  in that `join()` makes `onClosed` call `start()`; `running` is true again, the loop
  stays, and after 1.5 s `stop()` closes sessions, the new ones or those a loop infers
  on. There may be two loops. `OneLoop` and `ModelsIdleWhenClosed` hold until such a
  `start()` (`crossed`).
* "Session ended → re-arm wake word" (`MainActivity.kt` 125): in the same order the rest of
  that `stop()` undoes the `start()`, and the wake word is deaf. `ArmedWhenIdle` excepts it.
* `onRingChange(false)` starts the detector unless `active` (`MainActivity.kt` 137). A
  conversation that begins over a ring posts the ring's cancel before the block that sets
  `active`, so the detector may be started under it; if it then hears its name, its
  capture-only mode ends the loop while `running` stays set: `start()` after the conversation
  returns early, and the wake word is deaf. `ArmedWhenIdle` excepts it by `intruded`,
  `LiveListens` by `early`.
* "Immediately if the session is live, else queued for the next open"
  (`RealtimeSession.kt` 547): two sockets in `onOpen` at a time may both read the question
  and send it twice. `AskSentAtMostOnce` excepts it by `overlapped`.
* "Enter below ~3 lux, leave above ~8 lux" (`Panel.kt` 62-66): the constants are 25 and 45.
  `Panel` has the constants. The run's lights 0 and 100 are dark and bright by either pair;
  its 30 keeps the mode by the constants and would end the night by the comment.
* "Reconnects reuse the session's track" (`RealtimeSession.kt` 932): `onFailure` tears it down
  (603) and the next open builds another.

Some properties that one would first write down fail too. The runs above check the
strongest form that holds, and these are the cases it excepts:

* A response that only calls a tool has no audio and counts as stillborn
  (`RealtimeSession.kt` 874), so two tool calls in a row end the session as room chatter.
  `ChatterEscapeAfterTwoSilent` speaks of silence and not of its cause.
* `onClosed` (`MainActivity.kt` 125) does not ask whether a timer rings: a conversation that
  ends during a ring re-arms the detector while the chimes sound. The comment at 132 says
  that it sleeps.
* An activity destroyed during its conversation gets its detector re-armed by `onClosed`,
  next to that of the activity that replaces it. `OneDetectorUnlessUnlucky` excepts it.
* A new activity's panel does not show the mute of a slider that is on; `LiveListens` goes by
  what the panel shows.

Writing the models showed some facts that contradict no promise, but that a reader of the
code should know:

* `SysMon.cpuPercent()` sets `lastTotal` before it compares it with `total`, so its guard
  always returns -1; and `start()` returns early, so its listener stays the first activity's.
* A tool sets the session's gain on the socket's thread and posts the panel's volume; a press
  of the rocker in between leaves the two apart.
* A socket that was closed while dialling may still open. Its `onOpen` sets `wsReady`,
  builds a track, and flushes what the next conversation has in `preroll` to the old
  socket.
* The delayed `stop()` of `end_conversation` and of the chatter escape can end the
  conversation after the one it was meant for, and a slow tool's result may be sent to it.
* The watcher's certain silence and the track's 300 ms hold up to one chunk and one
  preemption (`Longest`).
* The watcher's posted block clears the gate without looking again, and may clear that of
  a response that began in between; no utterance is answered twice for it.

## 6. What is not modelled, and why

* Of `Panel`: warmth, a function of the light; the choices of model and voice, read at a
  session's start; when toasts and the volume's display were shown last; the volume itself,
  two assignments on two threads (see section 5). `SysMon` samples two files every 3 s.
* Screen, sounds, images and ambient data are drawing and polling. The tools compute a
  text from one request each. `Memory` appends to files under one lock.
* Echo cancellation, resampling, levels and the wake model are numerical code; the
  far-end reference is reset but never fed, and the C++ wrapper of the canceller
  (`cpp/aec.cpp`) is called by a diagnostic only. Its headers under `cpp/include`
  (Abseil, WebRTC) are vendored: they are most of the C and C++ of the repository by
  lines, and no part of the assistant's own logic, which is Kotlin.
* Opening and reopening the `AudioRecord` (`MicHub.kt`): while it is closed no frame is
  captured, and `Capture` never has to happen. Its retries are not modelled.
* Ducking, gain, the orb's level, the transcript on the screen, error events that are only
  logged.
* Configuration and prompt are constants; the echo laboratory is a test harness.

## 7. Plan

1. Modules: `TurnTaking` with `TurnPolicy`, `MicHandoff`, `Connection`, `Playback`,
   `Coordinator`, `Activities`, `Panel` (done).
2. Theorems: every safety property and the refinement (done). Worth adding are
   specifications as abstract as `TurnPolicy` for other components, such as a line that
   loses nothing unnamed and keeps its order for `MicHandoff`, with their refinements.
3. In `Coordinator`, a cancel tied to the ring it was meant for (`dismissRing` posts it
   after its test). In `Connection`, `stop()` on the socket's thread in steps.
