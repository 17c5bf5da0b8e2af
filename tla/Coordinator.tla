----------------------------- MODULE Coordinator -----------------------------
(***************************************************************************)
(* Who listens: the wake-word detector, a conversation, or nobody because  *)
(* a timer rings or the mute slider is on. MainActivity wires the three    *)
(* together; nothing owns the question but its callbacks.                  *)
(*                                                                         *)
(* Threads: the main thread, which runs posted and delayed blocks in turn  *)
(* and, between them, taps, key events and intents; the loops of the wake  *)
(* detector (one, unless something went wrong); and the mic thread of each *)
(* conversation, which parks the detector once its own sink is attached.   *)
(* So WakeWordDetector.stop() runs on two kinds of threads, start() on the *)
(* main thread, and no lock is between them.                               *)
(*                                                                         *)
(* Time is abstract: delays end at any moment after they began. Where the  *)
(* real times exclude an order, the action says so. What is said in a      *)
(* conversation is TurnTaking, its audio MicHandoff.                       *)
(***************************************************************************)
EXTENDS Integers, Sequences, FiniteSets

CONSTANTS
  MaxInputs,   \* wake words, taps, slides, asks, tool calls and failures, a bound
  ChimeLimit   \* chimes after which a ring gives up: 30

ASSUME InputsAssumption == MaxInputs \in Nat /\ ChimeLimit \in Nat \ {0}

\* Who calls the detector's stop() and start(): the main thread, or the mic
\* thread of a conversation.
Main == 0
Callers == 0..MaxInputs
MicThreads == Callers \ {Main}
Where == {"out", "unsub", "join", "close", "run"}

Tasks ==
  [op : {"wake", "closed", "set", "cancel", "dismiss", "fire", "removed"}]
    \cup [op : {"shows"}, on : BOOLEAN]
    \cup [op : {"chime"}, ring : Nat, n : 1..ChimeLimit]
Fire == [op |-> "fire"]
Removed == [op |-> "removed"]  \* what removeCallbacks took out of the queue

VARIABLES
  armed,        \* WakeWordDetector.running
  sinkOn,       \* its sink is subscribed
  captureOnly,  \* it fired and waits to be stopped
  models,       \* the ONNX sessions it has open, 0 = none
  thread,       \* its loop, as the field says; 0 = null
  polling,      \* loops waiting for audio
  inferring,    \* loops in OrtSession.run, and the models they run on
  dead,         \* history: loops that an inference's exception has ended
  call,         \* where a caller is in stop() or start()
  joins         \* the loop it waits for in stop()

VARIABLES
  running,      \* a conversation is on
  active,       \* ... as the screen and MainActivity see it
  muted,        \* the slider
  timerSet,     \* endsAt # 0
  ringing,
  listening,    \* the ring's stop listener waits for a loud voice
  mainQ,        \* blocks posted to the main thread
  delayed       \* blocks whose delay is not over

VARIABLES       \* identities, the bound, and history
  starts,       \* start() calls that went through
  sessions,     \* conversations so far
  rings,        \* rings so far
  inputs,
  crossed,      \* history: start() was called inside a mic thread's stop()
  intruded      \* history: start() was called during a conversation

loopVars == <<polling, inferring, dead>>
fieldVars == <<armed, sinkOn, captureOnly, models, thread, starts, crossed, intruded>>
callVars == <<call, joins>>
sessionVars == <<running, active, sessions>>
timerVars == <<timerSet, ringing, listening, delayed, rings>>
handVars == <<muted, inputs>>
vars == <<loopVars, fieldVars, callVars, sessionVars, timerVars, handVars, mainQ>>

\* After onCreate: the detector's first start() is through.
Init ==
  /\ armed = TRUE /\ sinkOn = TRUE /\ captureOnly = FALSE
  /\ models = 1 /\ thread = 1 /\ starts = 1
  /\ polling = {1} /\ inferring = {} /\ dead = {}
  /\ call = [c \in Callers |-> "out"] /\ joins = [c \in Callers |-> 0]
  /\ running = FALSE /\ active = FALSE /\ sessions = 0
  /\ timerSet = FALSE /\ ringing = FALSE /\ listening = FALSE
  /\ delayed = {} /\ rings = 0
  /\ muted = FALSE /\ inputs = 0
  /\ crossed = FALSE /\ intruded = FALSE
  /\ mainQ = <<>>

Input == inputs < MaxInputs /\ inputs' = inputs + 1

MainFree == call[Main] = "out"
Alive(l) == l \in polling \/ \E r \in inferring : r.loop = l
HandoffsDone == \A c \in MicThreads : call[c] = "out"

\* A hand is slower than the blocks that are posted to the main thread. It may
\* well be faster than a mic thread that parks the detector.
PostsDone == \A i \in 1..Len(mainQ) : mainQ[i].op \notin {"wake", "shows", "closed"}

-----------------------------------------------------------------------------
(* WakeWordDetector.start() and stop(). *)

\* start(), up to the opened models. Nothing happens if it is running.
StartsAlways == TRUE   \* mutant: without the early return
MayStart == ~armed
CaptureOnlyStays == captureOnly   \* mutant: not reset by start()
CaptureOnlyAfresh == FALSE

WakeStart ==
  /\ crossed' = (crossed \/ ~HandoffsDone)
  /\ intruded' = (intruded \/ running)
  /\ IF MayStart
     THEN /\ call' = [call EXCEPT ![Main] = "run"]
          /\ starts' = starts + 1
          /\ models' = starts + 1
          /\ captureOnly' = CaptureOnlyAfresh
     ELSE UNCHANGED <<call, starts, models, captureOnly>>

NoWakeStart == UNCHANGED <<call, starts, models, captureOnly, crossed, intruded>>

\* start()'s end: running, the sink, the loop's thread.
StartRuns ==
  /\ call[Main] = "run" /\ call' = [call EXCEPT ![Main] = "out"]
  /\ armed' = TRUE /\ sinkOn' = TRUE
  /\ thread' = starts
  /\ polling' = polling \cup {starts}
  /\ UNCHANGED <<captureOnly, models, starts, crossed, intruded, inferring, dead, joins,
                 sessionVars, timerVars, handVars, mainQ>>

WakeStop(c) == call' = [call EXCEPT ![c] = "unsub"]

StopUnsubscribes(c) ==
  /\ call[c] = "unsub" /\ call' = [call EXCEPT ![c] = "join"]
  /\ sinkOn' = FALSE /\ armed' = FALSE
  /\ joins' = [joins EXCEPT ![c] = thread]
  /\ UNCHANGED <<captureOnly, models, thread, starts, crossed, intruded, loopVars,
                 sessionVars, timerVars, handVars, mainQ>>

\* join(1500). A loop that sees running false leaves well before; only a start()
\* in between makes it stay.
JoinsNobody(c) == TRUE   \* mutant: no join
LoopIsGone(c) == ~Alive(joins[c]) \/ armed
StopJoins(c) ==
  /\ call[c] = "join" /\ call' = [call EXCEPT ![c] = "close"]
  /\ LoopIsGone(c)
  /\ thread' = 0
  /\ joins' = [joins EXCEPT ![c] = 0]
  /\ UNCHANGED <<armed, sinkOn, captureOnly, models, starts, crossed, intruded, loopVars,
                 sessionVars, timerVars, handVars, mainQ>>

StopCloses(c) ==
  /\ call[c] = "close" /\ call' = [call EXCEPT ![c] = "out"]
  /\ models' = 0
  /\ UNCHANGED <<armed, sinkOn, captureOnly, thread, starts, crossed, intruded, loopVars,
                 joins, sessionVars, timerVars, handVars, mainQ>>

InCall(c) == StopUnsubscribes(c) \/ StopJoins(c) \/ StopCloses(c)

-----------------------------------------------------------------------------
(* The detector's loops. *)

\* 80 ms of audio: inference, on the models the fields hold now. Without models
\* the loop runs on and hears nothing.
LoopTakes(l) ==
  /\ l \in polling /\ sinkOn /\ ~captureOnly /\ models # 0
  /\ polling' = polling \ {l}
  /\ inferring' = inferring \cup {[loop |-> l, on |-> models]}
  /\ UNCHANGED <<dead, fieldVars, callVars, sessionVars, timerVars, handVars, mainQ>>

LoopHearsNothing(l) ==
  /\ \E r \in inferring : r.loop = l /\ inferring' = inferring \ {r}
  /\ polling' = polling \cup {l}
  /\ UNCHANGED <<dead, fieldVars, callVars, sessionVars, timerVars, handVars, mainQ>>

\* An exception in an inference: "fail closed". The loop ends, running stays set.
LoopFails(l) ==
  /\ Input
  /\ \E r \in inferring : r.loop = l /\ inferring' = inferring \ {r}
  /\ dead' = dead \cup {l}
  /\ UNCHANGED <<polling, fieldVars, callVars, sessionVars, timerVars, muted, mainQ>>

\* "Hey Jarvis". The slider cuts the microphone itself off.
LoopFires(l) ==
  /\ Input /\ ~muted
  /\ \E r \in inferring : r.loop = l /\ inferring' = inferring \ {r}
  /\ polling' = polling \cup {l}
  /\ captureOnly' = TRUE
  /\ mainQ' = Append(mainQ, [op |-> "wake"])
  /\ UNCHANGED <<armed, sinkOn, models, thread, starts, crossed, intruded, dead, callVars,
                 sessionVars, timerVars, muted>>

LoopLeaves(l) ==
  /\ l \in polling /\ ~armed
  /\ polling' = polling \ {l}
  /\ UNCHANGED <<inferring, dead, fieldVars, callVars, sessionVars, timerVars,
                 handVars, mainQ>>

\* The 4 s cap of capture-only mode: the loop ends, running stays set.
LoopGivesUp(l) ==
  /\ l \in polling /\ armed /\ sinkOn /\ captureOnly
  /\ polling' = polling \ {l}
  /\ UNCHANGED <<inferring, dead, fieldVars, callVars, sessionVars, timerVars,
                 handVars, mainQ>>

Loop(l) ==
  \/ LoopTakes(l) \/ LoopHearsNothing(l) \/ LoopFails(l) \/ LoopFires(l)
  \/ LoopLeaves(l) \/ LoopGivesUp(l)

-----------------------------------------------------------------------------
(* Conversations. q is what the main thread's queue holds besides. *)

Cancel == [op |-> "cancel"]
DismissRing == IF ringing THEN <<Cancel>> ELSE <<>>

StartConversation(q) ==
  IF running \/ muted
  THEN mainQ' = q \o DismissRing /\ UNCHANGED <<running, sessions, call>>
  ELSE /\ running' = TRUE
       /\ sessions' = sessions + 1
       /\ WakeStop(sessions + 1)
       /\ mainQ' = q \o DismissRing \o <<[op |-> "shows", on |-> TRUE]>>

StopSession(q) ==
  /\ running' = FALSE
  /\ mainQ' = q \o <<[op |-> "shows", on |-> FALSE]>>
                \o (IF running THEN <<[op |-> "closed"]>> ELSE <<>>)
  /\ UNCHANGED <<sessions, call>>

\* Idle timer, session cap, a tool or a lost connection. Each comes seconds after
\* the start: the mic thread has parked the detector by then, and the main thread
\* has done what was posted around it.
Begun == call[sessions] = "out" /\ PostsDone
SessionEnds ==
  /\ running /\ Begun
  /\ StopSession(mainQ)
  /\ UNCHANGED <<loopVars, fieldVars, joins, active, timerVars, handVars>>

-----------------------------------------------------------------------------
(* The main thread's tasks. *)

TakeTask(op) == MainFree /\ mainQ # <<>> /\ Head(mainQ).op = op

RunWake ==
  /\ TakeTask("wake")
  /\ StartConversation(Tail(mainQ))
  /\ UNCHANGED <<loopVars, fieldVars, joins, active, timerVars, handVars>>

RunShows ==
  /\ TakeTask("shows") /\ mainQ' = Tail(mainQ)
  /\ active' = Head(mainQ).on
  /\ UNCHANGED <<loopVars, fieldVars, callVars, running, sessions, timerVars,
                 handVars>>

\* onClosed: whatever the ring and the slider say.
RunClosed ==
  /\ TakeTask("closed") /\ mainQ' = Tail(mainQ)
  /\ WakeStart
  /\ UNCHANGED <<armed, sinkOn, thread, loopVars, joins, sessionVars, timerVars,
                 handVars>>

CancelKeepsFire(q) == q   \* mutant: removeCallbacks(fire) forgotten
WithoutFire(q) == [i \in DOMAIN q |-> IF q[i] = Fire THEN Removed ELSE q[i]]

\* cancelInternal and onRingChange(false).
CancelInternal(q) ==
  /\ mainQ' = WithoutFire(q)
  /\ ringing' = FALSE /\ listening' = FALSE
  /\ IF ringing /\ ~active /\ ~muted THEN WakeStart
     ELSE NoWakeStart

RunCancel ==
  /\ TakeTask("cancel")
  /\ CancelInternal(Tail(mainQ))
  /\ timerSet' = FALSE
  /\ delayed' = delayed \ {Fire}
  /\ UNCHANGED <<armed, sinkOn, thread, loopVars, joins, sessionVars, rings,
                 handVars>>

RunSet ==
  /\ TakeTask("set")
  /\ CancelInternal(Tail(mainQ))
  /\ timerSet' = TRUE
  /\ delayed' = delayed \cup {Fire}
  /\ UNCHANGED <<armed, sinkOn, thread, loopVars, joins, sessionVars, rings,
                 handVars>>

\* The timer fires: the detector is parked, the first chime sounds.
RunFire ==
  /\ TakeTask("fire") /\ mainQ' = Tail(mainQ)
  /\ ringing' = TRUE /\ listening' = TRUE
  /\ rings' = rings + 1
  /\ delayed' = delayed \cup {[op |-> "chime", ring |-> rings + 1, n |-> 1]}
  /\ WakeStop(Main)
  /\ UNCHANGED <<fieldVars, loopVars, joins, sessionVars, timerSet, handVars>>

NeverTired(n) == FALSE   \* mutant: no cap on the chimes
Tired(n) == n >= ChimeLimit
CountsNothing(n) == n   \* mutant: chimeLoop(n)
NextChime(n) == n + 1

RunChime ==
  /\ TakeTask("chime")
  /\ LET n == Head(mainQ).n
     IN /\ mainQ' = Tail(mainQ) \o (IF ringing /\ Tired(n) THEN <<Cancel>> ELSE <<>>)
        /\ delayed' = IF ringing /\ ~Tired(n)
                      THEN delayed \cup {[Head(mainQ) EXCEPT !.n = NextChime(n)]} ELSE delayed
  /\ UNCHANGED <<fieldVars, loopVars, callVars, sessionVars, timerSet, ringing,
                 listening, rings, handVars>>

RunDismiss ==
  /\ TakeTask("dismiss")
  /\ mainQ' = Tail(mainQ) \o DismissRing
  /\ UNCHANGED <<fieldVars, loopVars, callVars, sessionVars, timerVars, handVars>>

SkipRemovedFire ==
  /\ TakeTask("removed") /\ mainQ' = Tail(mainQ)
  /\ UNCHANGED <<fieldVars, loopVars, callVars, sessionVars, timerVars, handVars>>

MainTask ==
  \/ RunWake \/ RunShows \/ RunClosed \/ RunCancel \/ RunSet \/ RunFire \/ RunChime
  \/ RunDismiss \/ SkipRemovedFire

TimerDue ==
  /\ \E task \in delayed : /\ delayed' = delayed \ {task}
                           /\ mainQ' = Append(mainQ, task)
  /\ UNCHANGED <<fieldVars, loopVars, callVars, sessionVars, timerSet, ringing,
                 listening, rings, handVars>>

-----------------------------------------------------------------------------
(* People, and the tools their words call. *)

\* A ringing timer owns the screen.
TapDismisses ==
  /\ Input /\ MainFree /\ ringing
  /\ mainQ' = mainQ \o DismissRing
  /\ UNCHANGED <<fieldVars, loopVars, callVars, sessionVars, timerVars, muted>>

\* A second tap within 900 ms is ignored; join() alone may take 1.5 s.
TapToggles ==
  /\ Input /\ MainFree /\ ~ringing /\ PostsDone
  /\ IF active THEN StopSession(mainQ) ELSE StartConversation(mainQ)
  /\ UNCHANGED <<fieldVars, loopVars, joins, active, timerVars, muted>>

\* An intent with a question.
AskArrives ==
  /\ Input /\ MainFree /\ ~active /\ PostsDone
  /\ StartConversation(mainQ)
  /\ UNCHANGED <<fieldVars, loopVars, joins, active, timerVars, muted>>

SlideMute ==
  /\ Input /\ MainFree /\ ~muted /\ PostsDone
  /\ muted' = TRUE
  /\ WakeStop(Main)
  /\ UNCHANGED <<fieldVars, loopVars, joins, sessionVars, timerVars, mainQ>>

SlideUnmute ==
  /\ Input /\ MainFree /\ muted /\ PostsDone
  /\ muted' = FALSE
  /\ IF active THEN NoWakeStart ELSE WakeStart
  /\ UNCHANGED <<armed, sinkOn, thread, loopVars, joins, sessionVars, timerVars, mainQ>>

ToolPosts(task) ==
  /\ Input /\ running
  /\ mainQ' = Append(mainQ, task)
  /\ UNCHANGED <<fieldVars, loopVars, callVars, sessionVars, timerVars, muted>>

ToolSetsTimer == ToolPosts([op |-> "set"])
ToolCancelsTimer == timerSet /\ ToolPosts(Cancel)
\* speech_started while the timer rings.
SpeechOverRing == ringing /\ ToolPosts([op |-> "dismiss"])

\* The ring's listener hears a raised voice, and has done its work.
VoiceDismisses ==
  /\ ringing /\ listening
  /\ listening' = FALSE
  /\ mainQ' = Append(mainQ, [op |-> "dismiss"])
  /\ UNCHANGED <<fieldVars, loopVars, callVars, sessionVars, timerSet, ringing,
                 delayed, rings, handVars>>

People ==
  \/ TapDismisses \/ TapToggles \/ AskArrives \/ SlideMute \/ SlideUnmute
  \/ ToolSetsTimer \/ ToolCancelsTimer \/ SpeechOverRing
  \/ VoiceDismisses

-----------------------------------------------------------------------------
Next ==
  \/ StartRuns \/ \E c \in Callers : InCall(c)
  \/ \E l \in polling \cup {r.loop : r \in inferring} : Loop(l)
  \/ MainTask \/ TimerDue \/ SessionEnds \/ People

Spec == Init /\ [][Next]_vars

(***************************************************************************)
(* Threads run: posted blocks, calls in progress, delays and the loops'    *)
(* own steps. Nobody has to say, tap, slide or set anything, and no        *)
(* conversation has to end.                                                *)
(***************************************************************************)
LoopSome(Step(_)) == \E l \in 1..starts : Step(l)
Fairness ==
  /\ WF_vars(MainTask) /\ WF_vars(TimerDue) /\ WF_vars(StartRuns)
  /\ WF_vars(\E c \in Callers : InCall(c))
  /\ WF_vars(LoopSome(LoopHearsNothing)) /\ WF_vars(LoopSome(LoopLeaves))

FairSpec == Spec /\ Fairness

-----------------------------------------------------------------------------
(* Properties. *)

FlagsTyped ==
  /\ armed \in BOOLEAN /\ sinkOn \in BOOLEAN /\ captureOnly \in BOOLEAN
  /\ running \in BOOLEAN /\ active \in BOOLEAN /\ muted \in BOOLEAN
  /\ timerSet \in BOOLEAN /\ ringing \in BOOLEAN /\ listening \in BOOLEAN
  /\ crossed \in BOOLEAN /\ intruded \in BOOLEAN

LoopsTyped ==
  /\ starts \in Nat \ {0} /\ models \in 0..starts /\ thread \in 0..starts
  /\ polling \subseteq 1..starts /\ dead \subseteq 1..starts
  /\ inferring \subseteq [loop : 1..starts, on : 1..starts]
  /\ call \in [Callers -> Where] /\ joins \in [Callers -> 0..starts]

QueuesTyped ==
  /\ mainQ \in Seq(Tasks) /\ delayed \subseteq Tasks
  /\ rings \in Nat /\ sessions \in Nat /\ inputs \in Nat

\* Every variable keeps its type, and no chime is due beyond the last of a ring.
TypeOK == FlagsTyped /\ LoopsTyped /\ QueuesTyped

\* "Wait for the loop to leave OrtSession.run() before closing the sessions": as
\* long as no start() was called inside a mic thread's stop(), stop(), on the main
\* thread or a mic thread, never closes the models that a loop, however it came to
\* run, is inferring on. After such a start() it may: join() is given a loop that
\* has been told to stay.
ModelsIdleWhenClosed ==
  [][~crossed =>
       \A c \in Callers : StopCloses(c) => \A r \in inferring : r.on # models]_vars

\* Parked and started by different threads, by rings, conversations and the slider
\* in any order, the detector never has two loops alive unless a start() was called
\* inside a mic thread's stop(). With two loops a wake word counts twice.
OneLoop == crossed \/ Cardinality(polling) + Cardinality(inferring) <= 1

\* "Session ended: re-arm the wake word": when there is no conversation, no ring
\* and no mute, the detector listens, or soon does. A loop whose inference threw
\* "fails closed": the detector is deaf until the next conversation, ring or mute
\* has stopped it, and no longer. Nothing is promised once a start() was called
\* inside a mic thread's stop() or during a conversation: the first may be undone by
\* that stop(), the second is taken for the one after the conversation.
FailedClosed == thread \in dead
Idle == ~running /\ ~muted /\ ~ringing /\ ~FailedClosed /\ ~crossed /\ ~intruded
Listening == armed /\ sinkOn /\ ~captureOnly /\ models # 0 /\ \E l \in 1..starts : Alive(l)
ArmedWhenIdle == [](Idle => <>(Listening \/ ~Idle))

\* A ring comes to an end by itself: chimes that a cancelled ring left behind,
\* restarts and parking the detector never keep a timer ringing for ever.
RingEnds == [](ringing => <>~ringing)

\* A timer rings only if it is set: whatever order starting, cancelling and the
\* fire that is due reach the main thread in, a cancelled timer stays silent.
RingsOnlyIfSet == [][~ringing /\ ringing' => timerSet]_vars

=============================================================================
