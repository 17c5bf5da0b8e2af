----------------------------- MODULE TurnTaking -----------------------------
(***************************************************************************)
(* Turn-taking in the conversations of RealtimeSession: who may speak, and *)
(* what a user's utterance does to the answer that is playing.             *)
(*                                                                         *)
(* Four kinds of threads of the app share the state:                       *)
(*   - the socket reader, which runs handleEvent on the server's events;   *)
(*   - the main thread, which runs posted tasks in the order of their      *)
(*     queue, and delayed tasks once their delay is over;                  *)
(*   - playExec, one thread that writes the queued audio to the speaker;   *)
(*   - one starve watcher per finished response, which waits for the       *)
(*     speaker to fall silent and then asks the main thread to clear the   *)
(*     mic gate.                                                           *)
(* The Realtime API's server and the people in the room are the            *)
(* environment.                                                            *)
(*                                                                         *)
(* The server never answers by itself (create_response is false): the app  *)
(* sends response.create for a turn it takes for deliberate. A turn that   *)
(* began or committed while the mic is "gated" (Jarvis may be audible) is  *)
(* judged by its transcript instead.                                       *)
(*                                                                         *)
(* Time is abstract: a delay is over at any moment after it began. Idle    *)
(* timer, session cap, a tap on the resting screen and onDestroy all end   *)
(* the session through stop() and are one action, EndSession. Sockets and  *)
(* reconnects, the ringing timer, ducking and the screen are not here.     *)
(***************************************************************************)
EXTENDS Integers, Sequences, FiniteSets

CONSTANTS
  MaxTurns,       \* utterances the room makes in the modelled conversation
  MaxResponses,   \* responses the server creates
  MaxDeltas,      \* audio deltas the server sends in one response
  MaxInFlight,    \* events on their way to the app before the server waits
  MaxRelinks,     \* sockets after the first one
  MayOutlastCap,  \* an answer may still play when the watcher's 60 s are over
  Texts,          \* kinds of utterance people make
  Tools           \* kinds of tool the model calls

ASSUME BoundsAssumption ==
  /\ MaxTurns \in Nat
  /\ MaxResponses \in Nat
  /\ MaxDeltas \in Nat
  /\ MaxInFlight \in Nat \ {0}
  /\ MaxRelinks \in Nat
  /\ MayOutlastCap \in BOOLEAN
  /\ Texts \subseteq {"stop", "inner", "short", "long", "blank"}
  /\ Tools \subseteq {"fast", "slow", "end"}

Turns == 1..MaxTurns
Responses == 1..MaxResponses

(***************************************************************************)
(* Texts is what a transcript says, as far as the code tells utterances    *)
(* apart:                                                                  *)
(*   "stop"   the whole utterance is a stop command (STOP_PHRASE);         *)
(*   "inner"  a longer one with a stop word in it (STOP_LOOSE);            *)
(*   "short"  two words, too few to be a question on their own;            *)
(*   "long"   three or more;   "blank"  nothing.                           *)
(***************************************************************************)
WordsOf(text) == IF text = "long" THEN 3 ELSE IF text = "short" THEN 2 ELSE 0
EnoughWords == 3
AddWords(n, text) ==   \* word counts matter only up to EnoughWords
  IF n + WordsOf(text) > EnoughWords THEN EnoughWords ELSE n + WordsOf(text)

Events ==
  [type : {"created", "delta", "done"}, resp : Responses]
    \cup [type : {"call"}, resp : Responses, tool : Tools]
    \cup [type : {"started", "stopped", "committed"}, turn : Turns]
    \cup [type : {"transcript"}, turn : Turns, text : Texts]

\* A request carries the turns it is meant to answer; the server ignores them.
Requests == [type : {"create"}, turns : SUBSET Turns] \cup [type : {"cancel"}]

Tasks ==
  [op : {"silence", "hush", "ungate"}]       \* bare stop, inner stop, gate clear
    \cup [op : {"frag"}, turn : Turns, text : Texts]
    \cup [op : {"eval"}, arm : Nat]          \* gatedFragEval
    \cup [op : {"create"}, turns : SUBSET Turns]
    \cup [op : {"stop"}, why : {"chatter", "tool"}]

Chunks == [resp : Responses, gen : Nat]

VARIABLES
  running,       \* the session is on
  micGated,      \* the speaker may be audible
  startedGated,  \* micGated at the last speech onset
  speechInFlight,\* an utterance over the speaker is in the air: duck held
  respActive,    \* between response.created and response.done
  audioChunks,   \* deltas counted since the last response.done
  stillborns,    \* responses without audio, in a row
  turnEcho,      \* committed turn -> "live" or "echo"; "absent" without entry
  gatedFrags,    \* talk-over collected: whose turns, how many words
  evalArm,       \* generation of gatedFragEval's last (re)arming or removal
  ungateGen,     \* invalidates older starve watchers
  flushGen,      \* orphans older audio chunks
  watchers,      \* generations of the starve watchers still waiting
  slowTools,     \* tool threads still working
  mainQ,         \* tasks posted to the main thread
  timers,        \* delayed tasks whose delay is not over
  playQ,         \* playExec's queue of audio chunks
  speaker        \* response written in the last 1.3 s; 0 = starved of writes

VARIABLES        \* the server, and the network in both directions
  outbox,        \* requests on their way to the server
  inbox,         \* events on their way to the app
  serving,       \* response the server is generating, 0 = none
  created,       \* responses created so far
  sent,          \* response -> deltas sent
  called,        \* response -> it called a tool
  talking,       \* someone is speaking
  spoken,        \* turns begun so far
  untold,        \* turns whose transcript is not out yet
  linked,        \* the session's socket is open
  relinks        \* sockets lost or left so far

VARIABLES        \* history, read by the properties only
  answering,     \* response -> the turns it was requested for
  asked,         \* turn -> response.create requests sent for it
  hushed         \* responses the server had begun at the last silenceNow()

gateVars  == <<micGated, startedGated, speechInFlight>>
respVars  == <<respActive, audioChunks, stillborns>>
fragVars  == <<gatedFrags, evalArm>>
genVars   == <<ungateGen, flushGen, watchers>>
serverVars == <<serving, created, sent, called, answering>>
linkVars  == <<linked, relinks>>
roomVars  == <<talking, spoken, untold, linkVars>>
silenceVars == <<micGated, startedGated, ungateGen, flushGen, hushed>>
appVars   == <<running, gateVars, respVars, turnEcho, fragVars, genVars,
               slowTools, mainQ, timers, playQ, speaker>>
ghostVars == <<asked, hushed>>
vars == <<appVars, outbox, inbox, serverVars, roomVars, ghostVars>>

NoFrags == [turns |-> {}, words |-> 0]

Init ==
  /\ running = TRUE
  /\ micGated = FALSE /\ startedGated = FALSE /\ speechInFlight = FALSE
  /\ respActive = FALSE /\ audioChunks = 0 /\ stillborns = 0
  /\ turnEcho = [t \in Turns |-> "absent"]
  /\ gatedFrags = NoFrags /\ evalArm = 0
  /\ ungateGen = 0 /\ flushGen = 0 /\ watchers = {}
  /\ slowTools = 0 /\ mainQ = <<>> /\ timers = {}
  /\ playQ = <<>> /\ speaker = 0
  /\ outbox = <<>> /\ inbox = <<>>
  /\ serving = 0 /\ created = 0
  /\ sent = [r \in Responses |-> 0]
  /\ called = [r \in Responses |-> FALSE]
  /\ answering = [r \in Responses |-> {}]
  /\ talking = FALSE /\ spoken = 0 /\ untold = {}
  /\ linked = TRUE /\ relinks = 0
  /\ asked = [t \in Turns |-> 0] /\ hushed = 0

-----------------------------------------------------------------------------
(* Shared steps. *)

Create(T) == [type |-> "create", turns |-> T]
Cancel == [type |-> "cancel"]

\* ws?.send: nothing is sent once stop() has dropped the socket.
Send(reqs) == outbox' = IF running THEN outbox \o reqs ELSE outbox

Credit(T) ==   \* remember that a create was sent for the turns T
  asked' = IF running THEN [t \in Turns |-> IF t \in T THEN asked[t] + 1 ELSE asked[t]]
           ELSE asked

CancelIfActive == IF respActive THEN <<Cancel>> ELSE <<>>

\* The part of silenceNow() that stays in the app. The timer it removes,
\* ungateSafety, is never armed anywhere.
SilenceLocally ==
  IF running
  THEN /\ micGated' = FALSE /\ startedGated' = FALSE
       /\ ungateGen' = ungateGen + 1
       /\ flushGen' = flushGen + 1
       /\ hushed' = created
  ELSE UNCHANGED silenceVars

SilenceNow == SilenceLocally /\ Send(CancelIfActive)

EvalTask(n) == [op |-> "eval", arm |-> n]
EvalPending == \/ EvalTask(evalArm) \in timers
               \/ \E i \in 1..Len(mainQ) : mainQ[i] = EvalTask(evalArm)
\* removeCallbacks(gatedFragEval): a copy already due has a stale arm.
WithoutEval(S) == {task \in S : task.op # "eval"}

FragsKeptByStop == IF running THEN NoFrags ELSE gatedFrags   \* mutant
FragsKeptAfter == gatedFrags   \* mutant
FragsOnceJudged == NoFrags

-----------------------------------------------------------------------------
(* The socket reader: handleEvent, one action per kind of event. *)

Receive(type) ==
  /\ inbox # <<>>
  /\ Head(inbox).type = type
  /\ inbox' = Tail(inbox)

HandleCreated ==
  /\ Receive("created")
  /\ respActive' = TRUE
  /\ micGated' = TRUE
  /\ UNCHANGED <<running, startedGated, speechInFlight, audioChunks, stillborns,
                 turnEcho, fragVars, genVars, slowTools, mainQ, timers, playQ,
                 speaker, outbox, serverVars, roomVars, ghostVars>>

\* A quiet onset orphans what is left of an answer if the modelled playhead is
\* still behind the last write, which it can be only shortly after a write.
HandleSpeechStarted ==
  /\ Receive("started")
  /\ startedGated' = micGated
  /\ speechInFlight' = (speechInFlight \/ micGated)
  /\ \/ UNCHANGED flushGen
     \/ ~micGated /\ speaker # 0 /\ flushGen' = flushGen + 1
  /\ UNCHANGED <<running, micGated, respVars, turnEcho, fragVars, ungateGen,
                 watchers, slowTools, mainQ, timers, playQ, speaker, outbox,
                 serverVars, roomVars, ghostVars>>

HandleSpeechStopped ==
  /\ Receive("stopped")
  /\ speechInFlight' = FALSE
  /\ UNCHANGED <<running, micGated, startedGated, respVars, turnEcho, fragVars,
                 genVars, slowTools, mainQ, timers, playQ, speaker, outbox,
                 serverVars, roomVars, ghostVars>>

HandleCommitted ==
  /\ Receive("committed")
  /\ LET t == Head(inbox).turn
         gated == micGated \/ startedGated
     IN /\ turnEcho' = [turnEcho EXCEPT ![t] = IF gated THEN "echo" ELSE "live"]
        /\ IF gated THEN UNCHANGED <<outbox, asked>>
           ELSE Send(<<Create({t})>>) /\ Credit({t})
  /\ speechInFlight' = FALSE
  /\ UNCHANGED <<running, micGated, startedGated, respVars, fragVars, genVars,
                 slowTools, mainQ, timers, playQ, speaker, serverVars, roomVars,
                 hushed>>

\* A turn without an entry is judged by the gate as it stands now.
JudgedByGateNow(t) == micGated   \* mutant
WasGated(t) == IF turnEcho[t] = "absent" THEN micGated ELSE turnEcho[t] = "echo"

TranscriptTask(t, text, gated) ==
  IF text = "stop" THEN <<[op |-> "silence"]>>
  ELSE IF gated /\ text = "inner" THEN <<[op |-> "hush"]>>
  ELSE IF gated /\ text # "blank"
       THEN <<[op |-> "frag", turn |-> t, text |-> text]>>
  ELSE <<>>

HandleTranscript ==
  /\ Receive("transcript")
  /\ LET t == Head(inbox).turn
     IN /\ turnEcho' = [turnEcho EXCEPT ![t] = "absent"]
        /\ mainQ' = mainQ \o TranscriptTask(t, Head(inbox).text, WasGated(t))
  /\ UNCHANGED <<running, gateVars, respVars, fragVars, genVars, slowTools,
                 timers, playQ, speaker, outbox, serverVars, roomVars, ghostVars>>

HandleAudioDelta ==
  /\ Receive("delta")
  /\ audioChunks' = audioChunks + 1
  /\ playQ' = Append(playQ, [resp |-> Head(inbox).resp, gen |-> flushGen])
  /\ UNCHANGED <<running, gateVars, respActive, stillborns, turnEcho, fragVars,
                 genVars, slowTools, mainQ, timers, speaker, outbox, serverVars,
                 roomVars, ghostVars>>

\* A fast tool answers on the socket thread, a slow one from its own thread;
\* end_conversation answers nothing and stops the session 250 ms later.
HandleToolCall ==
  /\ Receive("call")
  /\ \/ /\ Head(inbox).tool = "fast"
        /\ Send(<<Create({})>>)
        /\ UNCHANGED <<slowTools, timers>>
     \/ /\ Head(inbox).tool = "slow"
        /\ slowTools' = slowTools + 1
        /\ UNCHANGED <<outbox, timers>>
     \/ /\ Head(inbox).tool = "end"
        /\ timers' = timers \cup {[op |-> "stop", why |-> "tool"]}
        /\ UNCHANGED <<outbox, slowTools>>
  /\ UNCHANGED <<running, gateVars, respVars, turnEcho, fragVars, genVars, mainQ,
                 playQ, speaker, serverVars, roomVars, ghostVars>>

StillbornsNeverReset == IF audioChunks = 0 THEN stillborns + 1 ELSE stillborns \* mutant
StillbornsDecay == IF audioChunks = 0 THEN stillborns + 1 ELSE stillborns - 1  \* mutant
StillbornsAfterDone == IF audioChunks = 0 THEN stillborns + 1 ELSE 0

\* Two responses without audio in a row: stop in 400 ms, and return early.
HandleDoneChatter ==
  /\ Receive("done")
  /\ audioChunks = 0 /\ stillborns + 1 >= 2
  /\ respActive' = FALSE
  /\ stillborns' = stillborns + 1
  /\ timers' = timers \cup {[op |-> "stop", why |-> "chatter"]}
  /\ UNCHANGED <<running, gateVars, audioChunks, turnEcho, fragVars, genVars,
                 slowTools, mainQ, playQ, speaker, outbox, serverVars, roomVars,
                 ghostVars>>

\* Otherwise a starve watcher starts, and every older one is out of date.
HandleDone ==
  /\ Receive("done")
  /\ ~(audioChunks = 0 /\ stillborns + 1 >= 2)
  /\ respActive' = FALSE
  /\ stillborns' = StillbornsAfterDone
  /\ audioChunks' = 0
  /\ ungateGen' = ungateGen + 1
  /\ watchers' = watchers \cup {ungateGen + 1}
  /\ UNCHANGED <<running, gateVars, turnEcho, fragVars, flushGen, slowTools,
                 mainQ, timers, playQ, speaker, outbox, serverVars, roomVars,
                 ghostVars>>

HandleEvent ==
  \/ HandleCreated \/ HandleSpeechStarted \/ HandleSpeechStopped
  \/ HandleCommitted \/ HandleTranscript \/ HandleAudioDelta
  \/ HandleToolCall \/ HandleDoneChatter \/ HandleDone

GateKept == micGated   \* mutant: a gate survives the new socket
GateAtOpen == FALSE

\* onOpen of a new socket, after start() or a failure: the server knows nothing
\* of what was said before. Requests made while it was dialling go out now, those
\* made of a dead socket are lost; what the old one still had has come by now.
Opens ==
  /\ running /\ ~linked
  /\ linked' = TRUE
  /\ micGated' = GateAtOpen /\ startedGated' = FALSE
  /\ \E n \in 1..Len(outbox) + 1 : outbox' = SubSeq(outbox, n, Len(outbox))
  /\ inbox' = <<>>
  /\ UNCHANGED <<running, speechInFlight, respVars, turnEcho, fragVars, genVars,
                 slowTools, mainQ, timers, playQ, speaker, serverVars, talking,
                 spoken, untold, relinks, ghostVars>>

-----------------------------------------------------------------------------
(* The main thread. *)

TakeTask(op) ==
  /\ mainQ # <<>>
  /\ Head(mainQ).op = op
  /\ mainQ' = Tail(mainQ)

\* main.post { silenceNow() }: the transcript was a bare stop.
RunBareStop ==
  /\ TakeTask("silence")
  /\ SilenceNow
  /\ UNCHANGED <<running, speechInFlight, respVars, turnEcho, fragVars, watchers,
                 slowTools, timers, playQ, speaker, inbox, serverVars, roomVars,
                 asked>>

\* A stop word inside a longer talk-over: what was collected is dropped too.
RunHush ==
  /\ TakeTask("hush")
  /\ gatedFrags' = NoFrags
  /\ evalArm' = evalArm + 1
  /\ timers' = WithoutEval(timers)
  /\ SilenceNow
  /\ UNCHANGED <<running, speechInFlight, respVars, turnEcho, watchers, slowTools,
                 playQ, speaker, inbox, serverVars, roomVars, asked>>

\* A piece of talk-over: collect it and judge the whole 1.2 s after the last.
RunFragment ==
  /\ TakeTask("frag")
  /\ gatedFrags' = [turns |-> gatedFrags.turns \cup {Head(mainQ).turn},
                    words |-> AddWords(gatedFrags.words, Head(mainQ).text)]
  /\ evalArm' = evalArm + 1
  /\ timers' = WithoutEval(timers) \cup {EvalTask(evalArm + 1)}
  /\ UNCHANGED <<running, gateVars, respVars, turnEcho, genVars, slowTools, playQ,
                 speaker, outbox, inbox, serverVars, roomVars, ghostVars>>

\* gatedFragEval: a question is answered (after a cancel, 250 ms later), a
\* shorter fragment over the speaker counts as a stop, and later as nothing.
AnswerTalkover ==
  /\ SilenceLocally
  /\ IF respActive
     THEN /\ Send(<<Cancel>>)
          /\ timers' = timers \cup {[op |-> "create", turns |-> gatedFrags.turns]}
          /\ UNCHANGED asked
     ELSE /\ Send(<<Create(gatedFrags.turns)>>)
          /\ Credit(gatedFrags.turns)
          /\ UNCHANGED timers

JudgeTalkover ==
  \/ running /\ gatedFrags.words >= EnoughWords /\ AnswerTalkover
  \/ /\ running /\ gatedFrags.words \in 1..(EnoughWords - 1) /\ micGated
     /\ SilenceNow
     /\ UNCHANGED <<timers, asked>>
  \/ /\ ~running \/ gatedFrags.words = 0 \/ (gatedFrags.words < EnoughWords /\ ~micGated)
     /\ UNCHANGED <<silenceVars, outbox, timers, asked>>

RunFragmentEval ==
  /\ TakeTask("eval")
  /\ Head(mainQ).arm = evalArm
  /\ gatedFrags' = FragsOnceJudged
  /\ JudgeTalkover
  /\ UNCHANGED <<running, speechInFlight, respVars, turnEcho, evalArm, watchers,
                 slowTools, playQ, speaker, inbox, serverVars, roomVars>>

\* removeCallbacks took this copy out of the queue after it had come due.
SkipRemovedEval ==
  /\ TakeTask("eval")
  /\ Head(mainQ).arm # evalArm
  /\ UNCHANGED <<running, gateVars, respVars, turnEcho, fragVars, genVars, slowTools,
                 timers, playQ, speaker, outbox, inbox, serverVars, roomVars, ghostVars>>

RunDelayedCreate ==
  /\ TakeTask("create")
  /\ Send(<<Create(Head(mainQ).turns)>>)
  /\ Credit(Head(mainQ).turns)
  /\ UNCHANGED <<running, gateVars, respVars, turnEcho, fragVars, genVars,
                 slowTools, timers, playQ, speaker, inbox, serverVars, roomVars,
                 hushed>>

\* The block a starve watcher posted: by now nothing is checked again.
RunUngate ==
  /\ TakeTask("ungate")
  /\ micGated' = FALSE
  /\ UNCHANGED <<running, startedGated, speechInFlight, respVars, turnEcho,
                 fragVars, genVars, slowTools, timers, playQ, speaker, outbox,
                 inbox, serverVars, roomVars, ghostVars>>

\* stop(): gatedFragEval and the anonymous delayed tasks stay behind. The
\* track is torn down, so the speaker is fed no more.
Stop ==
  /\ running' = FALSE
  /\ micGated' = FALSE
  /\ flushGen' = flushGen + 1
  /\ speaker' = 0

RunStop ==
  /\ TakeTask("stop")
  /\ Stop
  /\ UNCHANGED <<startedGated, speechInFlight, respVars, turnEcho, fragVars,
                 ungateGen, watchers, slowTools, timers, playQ, outbox, inbox,
                 serverVars, roomVars, ghostVars>>

EndSession ==
  /\ running
  /\ Stop
  /\ UNCHANGED <<startedGated, speechInFlight, respVars, turnEcho, fragVars,
                 ungateGen, watchers, slowTools, mainQ, timers, playQ, outbox,
                 inbox, serverVars, roomVars, ghostVars>>

\* What was in flight to the server that is left, and what it was doing, is gone.
LeavesServer ==
  /\ linked' = FALSE
  /\ relinks < MaxRelinks /\ relinks' = relinks + 1
  /\ outbox' = <<>> /\ serving' = 0
  /\ talking' = FALSE /\ untold' = {}
  /\ UNCHANGED <<created, sent, called, answering, spoken>>

\* onFailure with retries left: response.done, if one was due, never comes.
LinkFails ==
  /\ running /\ linked
  /\ LeavesServer
  /\ inbox' = <<>>
  /\ flushGen' = flushGen + 1
  /\ speaker' = 0
  /\ UNCHANGED <<running, gateVars, respVars, turnEcho, fragVars, ungateGen, watchers,
                 slowTools, mainQ, timers, playQ, ghostVars>>

\* start(): the fields it does not set are what the last conversation left. Some
\* of the old socket's events may still come.
Start ==
  /\ ~running
  /\ running' = TRUE
  /\ micGated' = FALSE /\ startedGated' = FALSE
  /\ stillborns' = 0
  /\ LeavesServer
  /\ \E n \in 0..Len(inbox) : inbox' = SubSeq(inbox, 1, n)
  /\ UNCHANGED <<speechInFlight, respActive, audioChunks, turnEcho, fragVars, genVars,
                 slowTools, mainQ, timers, playQ, speaker, ghostVars>>

\* interrupt(): "Hey Jarvis" over the answer, or a tap while he speaks.
Interrupt ==
  /\ running /\ micGated
  /\ SilenceNow
  /\ UNCHANGED <<running, speechInFlight, respVars, turnEcho, fragVars, watchers,
                 slowTools, mainQ, timers, playQ, speaker, inbox, serverVars,
                 roomVars, asked>>

TimerDue ==
  /\ \E task \in timers :
       /\ timers' = timers \ {task}
       /\ mainQ' = Append(mainQ, task)
  /\ UNCHANGED <<running, gateVars, respVars, turnEcho, fragVars, genVars,
                 slowTools, playQ, speaker, outbox, inbox, serverVars, roomVars,
                 ghostVars>>

MainTask ==
  \/ RunBareStop \/ RunHush \/ RunFragment \/ RunFragmentEval \/ SkipRemovedEval
  \/ RunDelayedCreate \/ RunUngate \/ RunStop

-----------------------------------------------------------------------------
(* playExec, the speaker and the starve watchers. *)

\* A chunk from before a flush is dropped; a written one feeds the speaker.
PlayChunk ==
  /\ playQ # <<>>
  /\ playQ' = Tail(playQ)
  /\ speaker' = IF Head(playQ).gen = flushGen /\ running THEN Head(playQ).resp
                ELSE speaker
  /\ UNCHANGED <<running, gateVars, respVars, turnEcho, fragVars, genVars,
                 slowTools, mainQ, timers, outbox, inbox, serverVars, roomVars,
                 ghostVars>>

\* 1.3 s without a write. playExec keeps under 300 ms in the track and writes
\* on, so it pauses that long only when no live chunk is left to write.
SpeakerStarves ==
  /\ speaker # 0
  /\ \A i \in 1..Len(playQ) : playQ[i].gen # flushGen
  /\ speaker' = 0
  /\ UNCHANGED <<running, gateVars, respVars, turnEcho, fragVars, genVars,
                 slowTools, mainQ, timers, playQ, outbox, inbox, serverVars,
                 roomVars, ghostVars>>

\* A watcher sees the silence it waits for, or gives up after 60 s.
WatcherPosts(g) ==
  /\ g \in watchers /\ running /\ g = ungateGen
  /\ (speaker = 0 /\ ~respActive) \/ MayOutlastCap
  /\ watchers' = watchers \ {g}
  /\ mainQ' = Append(mainQ, [op |-> "ungate"])
  /\ UNCHANGED <<running, gateVars, respVars, turnEcho, fragVars, ungateGen,
                 flushGen, slowTools, timers, playQ, speaker, outbox, inbox,
                 serverVars, roomVars, ghostVars>>

WatcherLeaves(g) ==
  /\ g \in watchers /\ ~(running /\ g = ungateGen)
  /\ watchers' = watchers \ {g}
  /\ UNCHANGED <<running, gateVars, respVars, turnEcho, fragVars, ungateGen,
                 flushGen, slowTools, mainQ, timers, playQ, speaker, outbox, inbox,
                 serverVars, roomVars, ghostVars>>

Watcher == \E g \in watchers : WatcherPosts(g) \/ WatcherLeaves(g)

\* A slow tool's thread ends: sendFunctionResult asks for the next response.
SlowToolReturns ==
  /\ slowTools > 0
  /\ slowTools' = slowTools - 1
  /\ Send(<<Create({})>>)
  /\ UNCHANGED <<running, gateVars, respVars, turnEcho, fragVars, genVars, mainQ,
                 timers, playQ, speaker, inbox, serverVars, roomVars, ghostVars>>

-----------------------------------------------------------------------------
(* The Realtime server and the room: the environment. *)

Deliver(events) ==
  /\ Len(inbox) < MaxInFlight
  /\ inbox' = inbox \o events

\* A create while a response is active is refused with a benign error event.
ServerTakesCreate ==
  /\ linked /\ outbox # <<>> /\ Head(outbox).type = "create"
  /\ outbox' = Tail(outbox)
  /\ IF serving = 0 /\ created < MaxResponses
     THEN /\ serving' = created + 1
          /\ created' = created + 1
          /\ answering' = [answering EXCEPT ![created + 1] = Head(outbox).turns]
          /\ Deliver(<<[type |-> "created", resp |-> created + 1]>>)
     ELSE UNCHANGED <<serving, created, answering, inbox>>
  /\ UNCHANGED <<appVars, sent, called, roomVars, ghostVars>>

ServerTakesCancel ==
  /\ linked /\ outbox # <<>> /\ Head(outbox).type = "cancel"
  /\ outbox' = Tail(outbox)
  /\ IF serving # 0
     THEN serving' = 0 /\ Deliver(<<[type |-> "done", resp |-> serving]>>)
     ELSE UNCHANGED <<serving, inbox>>
  /\ UNCHANGED <<appVars, created, sent, called, answering, roomVars, ghostVars>>

ServerSendsDelta ==
  /\ linked /\ serving # 0 /\ sent[serving] < MaxDeltas
  /\ sent' = [sent EXCEPT ![serving] = @ + 1]
  /\ Deliver(<<[type |-> "delta", resp |-> serving]>>)
  /\ UNCHANGED <<appVars, outbox, serving, created, called, answering, roomVars,
                 ghostVars>>

ServerCallsTool ==
  /\ linked /\ serving # 0 /\ ~called[serving]
  /\ called' = [called EXCEPT ![serving] = TRUE]
  /\ \E tool \in Tools :
       Deliver(<<[type |-> "call", resp |-> serving, tool |-> tool]>>)
  /\ UNCHANGED <<appVars, outbox, serving, created, sent, answering, roomVars,
                 ghostVars>>

ServerFinishes ==
  /\ linked /\ serving # 0
  /\ serving' = 0
  /\ Deliver(<<[type |-> "done", resp |-> serving]>>)
  /\ UNCHANGED <<appVars, outbox, created, sent, called, answering, roomVars,
                 ghostVars>>

SomeoneSpeaks ==
  /\ linked /\ ~talking /\ spoken < MaxTurns
  /\ talking' = TRUE
  /\ spoken' = spoken + 1
  /\ Deliver(<<[type |-> "started", turn |-> spoken + 1]>>)
  /\ UNCHANGED <<appVars, outbox, serverVars, untold, linkVars, ghostVars>>

SomeonePauses ==
  /\ linked /\ talking
  /\ talking' = FALSE
  /\ untold' = untold \cup {spoken}
  /\ Deliver(<<[type |-> "stopped", turn |-> spoken],
               [type |-> "committed", turn |-> spoken]>>)
  /\ UNCHANGED <<appVars, outbox, serverVars, spoken, linkVars, ghostVars>>

ServerTranscribes ==
  /\ linked
  /\ \E t \in untold, text \in Texts :
       /\ untold' = untold \ {t}
       /\ Deliver(<<[type |-> "transcript", turn |-> t, text |-> text]>>)
  /\ UNCHANGED <<appVars, outbox, serverVars, talking, spoken, linkVars, ghostVars>>

Environment ==
  \/ ServerTakesCreate \/ ServerTakesCancel \/ ServerSendsDelta \/ ServerCallsTool
  \/ ServerFinishes \/ SomeoneSpeaks \/ SomeonePauses \/ ServerTranscribes

-----------------------------------------------------------------------------
Next ==
  \/ HandleEvent \/ LinkFails \/ Start \/ Opens
  \/ MainTask \/ EndSession \/ Interrupt \/ TimerDue
  \/ PlayChunk \/ SpeakerStarves \/ Watcher \/ SlowToolReturns
  \/ Environment

Spec == Init /\ [][Next]_vars

(***************************************************************************)
(* Every thread of the app that can run does run, delays end, and the      *)
(* server takes requests and completes the responses it began. Nobody has  *)
(* to speak, interrupt, call a tool or end the session.                    *)
(***************************************************************************)
Fairness ==
  /\ WF_vars(HandleEvent) /\ WF_vars(MainTask) /\ WF_vars(TimerDue)
  /\ WF_vars(PlayChunk) /\ WF_vars(SpeakerStarves) /\ WF_vars(Watcher)
  /\ WF_vars(ServerTakesCreate \/ ServerTakesCancel)
  /\ WF_vars(ServerFinishes) /\ WF_vars(Opens)

FairSpec == Spec /\ Fairness

-----------------------------------------------------------------------------
(* Properties. *)

FlagsTyped ==
  /\ running \in BOOLEAN /\ respActive \in BOOLEAN /\ talking \in BOOLEAN
  /\ linked \in BOOLEAN
  /\ micGated \in BOOLEAN /\ startedGated \in BOOLEAN
  /\ speechInFlight \in BOOLEAN

StateTyped ==
  /\ audioChunks \in Nat /\ stillborns \in Nat
  /\ turnEcho \in [Turns -> {"absent", "live", "echo"}]
  /\ gatedFrags \in [turns : SUBSET Turns, words : 0..EnoughWords]
  /\ evalArm \in Nat /\ ungateGen \in Nat /\ flushGen \in Nat
  /\ watchers \in SUBSET Nat /\ slowTools \in Nat
  /\ speaker \in 0..MaxResponses

QueuesTyped ==
  /\ mainQ \in Seq(Tasks) /\ timers \in SUBSET Tasks
  /\ playQ \in Seq(Chunks)
  /\ outbox \in Seq(Requests) /\ inbox \in Seq(Events)

ServerTyped ==
  /\ serving \in 0..MaxResponses /\ created \in 0..MaxResponses
  /\ sent \in [Responses -> Nat] /\ called \in [Responses -> BOOLEAN]
  /\ spoken \in 0..MaxTurns /\ (talking => spoken # 0) /\ untold \in SUBSET Turns
  /\ relinks \in 0..MaxRelinks
  /\ answering \in [Responses -> SUBSET Turns]
  /\ asked \in [Turns -> Nat] /\ hushed \in 0..MaxResponses

\* Every variable keeps its type; queues hold only what their producers put in.
TypeOK == FlagsTyped /\ StateTyped /\ QueuesTyped /\ ServerTyped

\* No utterance draws two answers. An utterance reaches response.create on two
\* paths several events apart, its commit and the evaluation of its transcript
\* as talk-over; turnEcho alone keeps them exclusive, however the gate moves
\* in between.
AnsweredAtMostOnce == \A t \in Turns : asked[t] <= 1

\* Talk-over that was collected is always going to be judged: no removal of
\* gatedFragEval, no stop and no late fragment leaves words behind that a later
\* utterance, in this session or the next, would be glued to.
PendingTalkoverIsJudged == gatedFrags.words > 0 => EvalPending

\* The chatter escape ends a session only after two responses in a row that
\* brought no audio at all: one with audio in between starts the count again,
\* unless its end was lost with the link, and deltas are never counted for the
\* wrong response. (That a response which only calls a tool brings no audio
\* either, and counts, is how the code is.)
ChatterStop == [op |-> "stop", why |-> "chatter"]
EscapeArmed == ChatterStop \notin timers /\ ChatterStop \in timers'
ChatterEscapeAfterTwoSilent ==
  [][EscapeArmed => LET r == Head(inbox).resp
                    IN /\ r > 1 /\ sent[r] = 0
                       /\ sent[r - 1] = 0 \/ relinks > 0]_vars

\* The mic gate never sticks: whatever cancels, flushes, tool calls and late
\* events do to the watchers, a gate that is up in a running session comes down
\* or the session ends.
GateComesDown == [](micGated => <>(~micGated \/ ~running))

\* "The server is told to stop generating, so he doesn't resume talking over the
\* user": once silenceNow() has run, no audio is written of a response the
\* server had begun by then.
SilencedStaysSilent ==
  [][PlayChunk /\ Head(playQ).gen = flushGen /\ running
       => Head(playQ).resp > hushed]_vars

(***************************************************************************)
(* The policy that is implemented. An utterance waits for its verdict as   *)
(* long as it is on one of the ways to response.create: not told or in an  *)
(* event, a posted piece of talk-over, collected, or in a delayed create.  *)
(***************************************************************************)
Carries(task, t) ==
  \/ task.op = "frag" /\ task.turn = t
  \/ task.op = "create" /\ t \in task.turns
InEvent(t) ==
  \E i \in 1..Len(inbox) :
    inbox[i].type \in {"committed", "transcript"} /\ inbox[i].turn = t
OnItsWay(t) ==
  \/ t \in untold \/ InEvent(t) \/ t \in gatedFrags.turns
  \/ \E i \in 1..Len(mainQ) : Carries(mainQ[i], t)
  \/ \E task \in timers : Carries(task, t)

Over == IF talking THEN spoken - 1 ELSE spoken

Policy == INSTANCE TurnPolicy
  WITH open <- running,
       heard <- Over,
       waiting <- {t \in 1..Over : OnItsWay(t) /\ asked[t] = 0},
       answers <- asked

\* "The server never auto-responds ... WE create responses only for deliberate
\* turns": every step of the app, the server and the room is one of the policy's,
\* or none of its business, across conversations.
ImplementsPolicy == Policy!Spec
=============================================================================
