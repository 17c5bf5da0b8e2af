-------------------------- MODULE TurnTaking_proofs --------------------------
(***************************************************************************)
(* Theorems about TurnTaking, for every number of turns, responses, deltas *)
(* and events in flight and every choice of utterances and tools: its      *)
(* types, that collected talk-over is judged, and that the chatter escape  *)
(* counts two silent responses in a row.                                   *)
(*                                                                         *)
(* The proof of the type invariant has one lemma per action and, in each,  *)
(* one step per named part of TypeOK. Boolean flags go to Zenon, the rest  *)
(* to the SMT solver.                                                      *)
(***************************************************************************)
EXTENDS TurnTaking, TLAPS

USE BoundsAssumption DEF BoundsAssumption

-----------------------------------------------------------------------------
(* Lemmas about the shared steps. *)

LEMMA AddWordsTyped ==
  ASSUME NEW n \in 0..EnoughWords, NEW text
  PROVE  AddWords(n, text) \in 0..EnoughWords
<1>1. WordsOf(text) \in 0..3
  BY DEF WordsOf
<1>2. QED
  BY <1>1 DEF AddWords, EnoughWords

LEMMA NoFragsTyped == NoFrags \in [turns : SUBSET Turns, words : 0..EnoughWords]
BY DEF NoFrags, EnoughWords

LEMMA RequestForms ==
  /\ Cancel \in Requests
  /\ \A T \in SUBSET Turns : Create(T) \in Requests
BY DEF Cancel, Create, Requests

LEMMA SendTyped ==
  ASSUME outbox \in Seq(Requests), NEW reqs \in Seq(Requests), Send(reqs)
  PROVE  outbox' \in Seq(Requests)
BY DEF Send

LEMMA SilenceNowSends ==
  ASSUME outbox \in Seq(Requests), SilenceNow
  PROVE  outbox' \in Seq(Requests)
<1>1. CancelIfActive \in Seq(Requests)
  BY RequestForms DEF CancelIfActive
<1>2. QED
  BY <1>1, SendTyped DEF SilenceNow

LEMMA DeliverTyped ==
  ASSUME inbox \in Seq(Events), NEW events \in Seq(Events), Deliver(events)
  PROVE  inbox' \in Seq(Events)
BY DEF Deliver

\* The fields a handler reads from the event it has received.
LEMMA EventFields ==
  ASSUME inbox \in Seq(Events), NEW type, Receive(type)
  PROVE  /\ inbox' \in Seq(Events)
         /\ type \in {"created", "delta", "done", "call"} => Head(inbox).resp \in Responses
         /\ type \in {"started", "stopped", "committed", "transcript"}
              => Head(inbox).turn \in Turns
         /\ type = "transcript" => Head(inbox).text \in Texts
<1>1. Head(inbox) \in Events /\ Head(inbox).type = type /\ inbox' \in Seq(Events)
  BY DEF Receive
<1>2. QED
  BY <1>1 DEF Events

\* The fields the main thread reads from the task it runs.
LEMMA TaskFields ==
  ASSUME mainQ \in Seq(Tasks), NEW op, TakeTask(op)
  PROVE  /\ mainQ' \in Seq(Tasks)
         /\ op = "frag" => Head(mainQ).turn \in Turns /\ Head(mainQ).text \in Texts
         /\ op = "create" => Head(mainQ).turns \in SUBSET Turns
         /\ op = "eval" => Head(mainQ) = EvalTask(Head(mainQ).arm)
<1>1. Head(mainQ) \in Tasks /\ Head(mainQ).op = op /\ mainQ' \in Seq(Tasks)
  BY DEF TakeTask
<1>2. QED
  BY <1>1 DEF Tasks, EvalTask

LEMMA ChunkFields ==
  ASSUME playQ \in Seq(Chunks), playQ # <<>>
  PROVE  Head(playQ).resp \in Responses /\ Tail(playQ) \in Seq(Chunks)
<1>1. Head(playQ) \in Chunks
  OBVIOUS
<1>2. QED
  BY <1>1 DEF Chunks

LEMMA TranscriptTaskTyped ==
  ASSUME NEW t \in Turns, NEW text \in Texts, NEW gated
  PROVE  TranscriptTask(t, text, gated) \in Seq(Tasks)
<1>1. /\ [op |-> "silence"] \in Tasks /\ [op |-> "hush"] \in Tasks
      /\ [op |-> "frag", turn |-> t, text |-> text] \in Tasks
  BY DEF Tasks
<1>2. QED
  BY <1>1 DEF TranscriptTask

LEMMA TypeHandleCreated == TypeOK /\ HandleCreated => TypeOK'
<1> SUFFICES ASSUME TypeOK, HandleCreated PROVE TypeOK'
  OBVIOUS
<1>1. FlagsTyped'
  BY Zenon DEF TypeOK, FlagsTyped, HandleCreated, roomVars, linkVars
<1>2. StateTyped'
  BY DEF TypeOK, StateTyped, HandleCreated, fragVars, genVars
<1>3. QueuesTyped'
  BY EventFields DEF TypeOK, QueuesTyped, HandleCreated
<1>4. ServerTyped'
  BY DEF TypeOK, ServerTyped, HandleCreated, serverVars, roomVars, linkVars, ghostVars
<1>5. QED
  BY <1>1, <1>2, <1>3, <1>4 DEF TypeOK

LEMMA TypeHandleSpeechStarted == TypeOK /\ HandleSpeechStarted => TypeOK'
<1> SUFFICES ASSUME TypeOK, HandleSpeechStarted PROVE TypeOK'
  OBVIOUS
<1>1. FlagsTyped'
  BY Zenon DEF TypeOK, FlagsTyped, HandleSpeechStarted, respVars, roomVars, linkVars
<1>2. StateTyped'
  BY DEF TypeOK, StateTyped, HandleSpeechStarted, respVars, fragVars
<1>3. QueuesTyped'
  BY EventFields DEF TypeOK, QueuesTyped, HandleSpeechStarted
<1>4. ServerTyped'
  BY DEF TypeOK, ServerTyped, HandleSpeechStarted, serverVars, roomVars, linkVars,
     ghostVars
<1>5. QED
  BY <1>1, <1>2, <1>3, <1>4 DEF TypeOK

LEMMA TypeHandleSpeechStopped == TypeOK /\ HandleSpeechStopped => TypeOK'
<1> SUFFICES ASSUME TypeOK, HandleSpeechStopped PROVE TypeOK'
  OBVIOUS
<1>1. FlagsTyped'
  BY Zenon DEF TypeOK, FlagsTyped, HandleSpeechStopped, respVars, roomVars, linkVars
<1>2. StateTyped'
  BY DEF TypeOK, StateTyped, HandleSpeechStopped, respVars, fragVars, genVars
<1>3. QueuesTyped'
  BY EventFields DEF TypeOK, QueuesTyped, HandleSpeechStopped
<1>4. ServerTyped'
  BY DEF TypeOK, ServerTyped, HandleSpeechStopped, serverVars, roomVars, linkVars,
     ghostVars
<1>5. QED
  BY <1>1, <1>2, <1>3, <1>4 DEF TypeOK

LEMMA TypeHandleCommitted == TypeOK /\ HandleCommitted => TypeOK'
<1> SUFFICES ASSUME TypeOK, HandleCommitted PROVE TypeOK'
  OBVIOUS
<1>1. FlagsTyped'
  BY Zenon DEF TypeOK, FlagsTyped, HandleCommitted, respVars, roomVars, linkVars
<1>2. StateTyped'
  BY DEF TypeOK, StateTyped, HandleCommitted, respVars, fragVars, genVars
<1>3. QueuesTyped'
  <2>1. inbox' \in Seq(Events) /\ Head(inbox).turn \in Turns
    BY EventFields DEF TypeOK, QueuesTyped, HandleCommitted
  <2>2. outbox' \in Seq(Requests)
    <3>1. <<Create({Head(inbox).turn})>> \in Seq(Requests)
      BY <2>1, RequestForms
    <3>2. QED
      BY <3>1, SendTyped DEF TypeOK, QueuesTyped, HandleCommitted
  <2>3. QED
    BY <2>1, <2>2 DEF TypeOK, QueuesTyped, HandleCommitted
<1>4. ServerTyped'
  BY DEF TypeOK, ServerTyped, HandleCommitted, serverVars, roomVars, linkVars, Credit
<1>5. QED
  BY <1>1, <1>2, <1>3, <1>4 DEF TypeOK

LEMMA TypeHandleTranscript == TypeOK /\ HandleTranscript => TypeOK'
<1> SUFFICES ASSUME TypeOK, HandleTranscript PROVE TypeOK'
  OBVIOUS
<1>1. FlagsTyped'
  BY Zenon DEF TypeOK, FlagsTyped, HandleTranscript, gateVars, respVars,
     roomVars, linkVars
<1>2. StateTyped'
  BY DEF TypeOK, StateTyped, HandleTranscript, respVars, fragVars, genVars
<1>3. QueuesTyped'
  <2> DEFINE t == Head(inbox).turn
             text == Head(inbox).text
  <2>1. inbox' \in Seq(Events) /\ t \in Turns /\ text \in Texts
    BY EventFields DEF TypeOK, QueuesTyped, HandleTranscript
  <2>2. TranscriptTask(t, text, WasGated(t)) \in Seq(Tasks)
    BY <2>1, TranscriptTaskTyped
  <2>3. mainQ' \in Seq(Tasks)
    BY <2>2 DEF TypeOK, QueuesTyped, HandleTranscript
  <2>4. QED
    BY <2>1, <2>3 DEF TypeOK, QueuesTyped, HandleTranscript
<1>4. ServerTyped'
  BY DEF TypeOK, ServerTyped, HandleTranscript, serverVars, roomVars, linkVars,
     ghostVars
<1>5. QED
  BY <1>1, <1>2, <1>3, <1>4 DEF TypeOK

LEMMA TypeHandleAudioDelta == TypeOK /\ HandleAudioDelta => TypeOK'
<1> SUFFICES ASSUME TypeOK, HandleAudioDelta PROVE TypeOK'
  OBVIOUS
<1>1. FlagsTyped'
  BY Zenon DEF TypeOK, FlagsTyped, HandleAudioDelta, gateVars, roomVars, linkVars
<1>2. StateTyped'
  BY DEF TypeOK, StateTyped, HandleAudioDelta, fragVars, genVars
<1>3. QueuesTyped'
  <2>1. inbox' \in Seq(Events) /\ Head(inbox).resp \in Responses
    BY EventFields DEF TypeOK, QueuesTyped, HandleAudioDelta
  <2>2. [resp |-> Head(inbox).resp, gen |-> flushGen] \in Chunks
    BY <2>1 DEF TypeOK, StateTyped, Chunks
  <2>3. QED
    BY <2>1, <2>2 DEF TypeOK, QueuesTyped, HandleAudioDelta
<1>4. ServerTyped'
  BY DEF TypeOK, ServerTyped, HandleAudioDelta, serverVars, roomVars, linkVars,
     ghostVars
<1>5. QED
  BY <1>1, <1>2, <1>3, <1>4 DEF TypeOK

LEMMA TypeHandleToolCall == TypeOK /\ HandleToolCall => TypeOK'
<1> SUFFICES ASSUME TypeOK, HandleToolCall PROVE TypeOK'
  OBVIOUS
<1>1. FlagsTyped'
  BY Zenon DEF TypeOK, FlagsTyped, HandleToolCall, gateVars, respVars,
     roomVars, linkVars
<1>2. StateTyped'
  BY DEF TypeOK, StateTyped, HandleToolCall, respVars, fragVars, genVars
<1>3. QueuesTyped'
  <2>1. inbox' \in Seq(Events)
    BY EventFields DEF TypeOK, QueuesTyped, HandleToolCall
  <2>2. <<Create({})>> \in Seq(Requests) /\ [op |-> "stop", why |-> "tool"] \in Tasks
    BY RequestForms DEF Tasks
  <2>3. outbox' \in Seq(Requests)
    BY <2>2, SendTyped DEF TypeOK, QueuesTyped, HandleToolCall
  <2>4. timers' \in SUBSET Tasks
    BY <2>2 DEF TypeOK, QueuesTyped, HandleToolCall
  <2>5. QED
    BY <2>1, <2>3, <2>4 DEF TypeOK, QueuesTyped, HandleToolCall
<1>4. ServerTyped'
  BY DEF TypeOK, ServerTyped, HandleToolCall, serverVars, roomVars, linkVars, ghostVars
<1>5. QED
  BY <1>1, <1>2, <1>3, <1>4 DEF TypeOK

LEMMA TypeHandleDoneChatter == TypeOK /\ HandleDoneChatter => TypeOK'
<1> SUFFICES ASSUME TypeOK, HandleDoneChatter PROVE TypeOK'
  OBVIOUS
<1>1. FlagsTyped'
  BY Zenon DEF TypeOK, FlagsTyped, HandleDoneChatter, gateVars, roomVars, linkVars
<1>2. StateTyped'
  BY DEF TypeOK, StateTyped, HandleDoneChatter, fragVars, genVars
<1>3. QueuesTyped'
  <2>1. [op |-> "stop", why |-> "chatter"] \in Tasks
    BY DEF Tasks
  <2>2. QED
    BY <2>1, EventFields DEF TypeOK, QueuesTyped, HandleDoneChatter
<1>4. ServerTyped'
  BY DEF TypeOK, ServerTyped, HandleDoneChatter, serverVars, roomVars, linkVars,
     ghostVars
<1>5. QED
  BY <1>1, <1>2, <1>3, <1>4 DEF TypeOK

LEMMA TypeHandleDone == TypeOK /\ HandleDone => TypeOK'
<1> SUFFICES ASSUME TypeOK, HandleDone PROVE TypeOK'
  OBVIOUS
<1>1. FlagsTyped'
  BY Zenon DEF TypeOK, FlagsTyped, HandleDone, gateVars, roomVars, linkVars
<1>2. StateTyped'
  BY DEF TypeOK, StateTyped, HandleDone, fragVars, StillbornsAfterDone
<1>3. QueuesTyped'
  BY EventFields DEF TypeOK, QueuesTyped, HandleDone
<1>4. ServerTyped'
  BY DEF TypeOK, ServerTyped, HandleDone, serverVars, roomVars, linkVars, ghostVars
<1>5. QED
  BY <1>1, <1>2, <1>3, <1>4 DEF TypeOK

LEMMA TypeRunBareStop == TypeOK /\ RunBareStop => TypeOK'
<1> SUFFICES ASSUME TypeOK, RunBareStop PROVE TypeOK'
  OBVIOUS
<1>1. FlagsTyped'
  BY Zenon DEF TypeOK, FlagsTyped, RunBareStop, respVars, roomVars, linkVars,
     SilenceNow, SilenceLocally, silenceVars
<1>2. StateTyped'
  BY DEF TypeOK, StateTyped, RunBareStop, respVars, fragVars, SilenceNow,
     SilenceLocally, silenceVars
<1>3. QueuesTyped'
  BY TaskFields, SilenceNowSends DEF TypeOK, QueuesTyped, RunBareStop
<1>4. ServerTyped'
  BY DEF TypeOK, ServerTyped, RunBareStop, serverVars, roomVars, linkVars, SilenceNow,
     SilenceLocally, silenceVars
<1>5. QED
  BY <1>1, <1>2, <1>3, <1>4 DEF TypeOK

LEMMA TypeRunHush == TypeOK /\ RunHush => TypeOK'
<1> SUFFICES ASSUME TypeOK, RunHush PROVE TypeOK'
  OBVIOUS
<1>1. FlagsTyped'
  BY Zenon DEF TypeOK, FlagsTyped, RunHush, respVars, roomVars, linkVars, SilenceNow,
     SilenceLocally, silenceVars
<1>2. StateTyped'
  BY NoFragsTyped DEF TypeOK, StateTyped, RunHush, SilenceNow, SilenceLocally,
     silenceVars, respVars
<1>3. QueuesTyped'
  BY TaskFields, SilenceNowSends DEF TypeOK, QueuesTyped, RunHush, WithoutEval
<1>4. ServerTyped'
  BY DEF TypeOK, ServerTyped, RunHush, serverVars, roomVars, linkVars, SilenceNow,
     SilenceLocally, silenceVars
<1>5. QED
  BY <1>1, <1>2, <1>3, <1>4 DEF TypeOK

LEMMA TypeRunFragment == TypeOK /\ RunFragment => TypeOK'
<1> SUFFICES ASSUME TypeOK, RunFragment PROVE TypeOK'
  OBVIOUS
<1>1. FlagsTyped'
  BY Zenon DEF TypeOK, FlagsTyped, RunFragment, gateVars, respVars, roomVars, linkVars
<1>2. StateTyped'
  <2>1. Head(mainQ).turn \in Turns
    BY TaskFields DEF TypeOK, QueuesTyped, RunFragment
  <2>2. gatedFrags' \in [turns : SUBSET Turns, words : 0..EnoughWords]
    BY <2>1, AddWordsTyped DEF TypeOK, StateTyped, RunFragment
  <2>3. QED
    BY <2>2 DEF TypeOK, StateTyped, RunFragment, respVars, genVars
<1>3. QueuesTyped'
  <2>1. EvalTask(evalArm + 1) \in Tasks
    BY DEF TypeOK, StateTyped, EvalTask, Tasks
  <2>2. QED
    BY <2>1, TaskFields DEF TypeOK, QueuesTyped, RunFragment, WithoutEval
<1>4. ServerTyped'
  BY DEF TypeOK, ServerTyped, RunFragment, serverVars, roomVars, linkVars, ghostVars
<1>5. QED
  BY <1>1, <1>2, <1>3, <1>4 DEF TypeOK

LEMMA TypeRunFragmentEval == TypeOK /\ RunFragmentEval => TypeOK'
<1> SUFFICES ASSUME TypeOK, RunFragmentEval PROVE TypeOK'
  OBVIOUS
<1>1. FlagsTyped'
  BY Zenon DEF TypeOK, FlagsTyped, RunFragmentEval, respVars, roomVars, linkVars,
     JudgeTalkover, silenceVars, SilenceNow, SilenceLocally, AnswerTalkover
<1>2. StateTyped'
  <2>1. gatedFrags' \in [turns : SUBSET Turns, words : 0..EnoughWords]
    BY NoFragsTyped DEF RunFragmentEval, FragsOnceJudged
  <2>2. ungateGen' \in Nat /\ flushGen' \in Nat
    BY DEF TypeOK, StateTyped, RunFragmentEval, JudgeTalkover, AnswerTalkover,
           SilenceNow, SilenceLocally, silenceVars
  <2>3. QED
    BY <2>1, <2>2 DEF TypeOK, StateTyped, RunFragmentEval, respVars
<1>3. QueuesTyped'
  <2> DEFINE T == gatedFrags.turns
  <2>1. mainQ' \in Seq(Tasks)
    BY TaskFields DEF TypeOK, QueuesTyped, RunFragmentEval
  <2>2. /\ <<Cancel>> \in Seq(Requests) /\ <<Create(T)>> \in Seq(Requests)
        /\ [op |-> "create", turns |-> T] \in Tasks
    BY RequestForms DEF TypeOK, StateTyped, Tasks
  <2>3. outbox' \in Seq(Requests) /\ timers' \in SUBSET Tasks
    <3>1. CASE AnswerTalkover
      BY <2>2, <3>1, SendTyped DEF TypeOK, QueuesTyped, AnswerTalkover
    <3>2. CASE SilenceNow /\ UNCHANGED timers
      BY <3>2, SilenceNowSends DEF TypeOK, QueuesTyped
    <3>3. CASE UNCHANGED <<outbox, timers>>
      BY <3>3 DEF TypeOK, QueuesTyped
    <3>4. QED
      BY <3>1, <3>2, <3>3 DEF RunFragmentEval, JudgeTalkover
  <2>4. QED
    BY <2>1, <2>3 DEF TypeOK, QueuesTyped, RunFragmentEval
<1>4. ServerTyped'
  <2>1. asked' \in [Turns -> Nat] /\ hushed' \in 0..MaxResponses
    BY DEF TypeOK, ServerTyped, RunFragmentEval, JudgeTalkover, AnswerTalkover,
           SilenceNow, SilenceLocally, Credit, silenceVars
  <2>2. QED
    BY <2>1 DEF TypeOK, ServerTyped, RunFragmentEval, serverVars, roomVars, linkVars
<1>5. QED
  BY <1>1, <1>2, <1>3, <1>4 DEF TypeOK

LEMMA TypeSkipRemovedEval == TypeOK /\ SkipRemovedEval => TypeOK'
<1> SUFFICES ASSUME TypeOK, SkipRemovedEval PROVE TypeOK'
  OBVIOUS
<1>1. FlagsTyped'
  BY Zenon DEF TypeOK, FlagsTyped, SkipRemovedEval, gateVars, respVars,
     roomVars, linkVars
<1>2. StateTyped'
  BY DEF TypeOK, StateTyped, SkipRemovedEval, respVars, fragVars, genVars
<1>3. QueuesTyped'
  BY TaskFields DEF TypeOK, QueuesTyped, SkipRemovedEval
<1>4. ServerTyped'
  BY DEF TypeOK, ServerTyped, SkipRemovedEval, serverVars, roomVars, linkVars, ghostVars
<1>5. QED
  BY <1>1, <1>2, <1>3, <1>4 DEF TypeOK

LEMMA TypeRunDelayedCreate == TypeOK /\ RunDelayedCreate => TypeOK'
<1> SUFFICES ASSUME TypeOK, RunDelayedCreate PROVE TypeOK'
  OBVIOUS
<1>1. FlagsTyped'
  BY Zenon DEF TypeOK, FlagsTyped, RunDelayedCreate, gateVars, respVars,
     roomVars, linkVars
<1>2. StateTyped'
  BY DEF TypeOK, StateTyped, RunDelayedCreate, respVars, fragVars, genVars
<1>3. QueuesTyped'
  <2>1. mainQ' \in Seq(Tasks) /\ Head(mainQ).turns \in SUBSET Turns
    BY TaskFields DEF TypeOK, QueuesTyped, RunDelayedCreate
  <2>2. <<Create(Head(mainQ).turns)>> \in Seq(Requests)
    BY <2>1, RequestForms
  <2>3. QED
    BY <2>1, <2>2, SendTyped DEF TypeOK, QueuesTyped, RunDelayedCreate
<1>4. ServerTyped'
  <2>1. asked' \in [Turns -> Nat]
    BY DEF TypeOK, ServerTyped, RunDelayedCreate, Credit
  <2>2. QED
    BY <2>1 DEF TypeOK, ServerTyped, RunDelayedCreate, serverVars, roomVars, linkVars
<1>5. QED
  BY <1>1, <1>2, <1>3, <1>4 DEF TypeOK

LEMMA TypeRunUngate == TypeOK /\ RunUngate => TypeOK'
<1> SUFFICES ASSUME TypeOK, RunUngate PROVE TypeOK'
  OBVIOUS
<1>1. FlagsTyped'
  BY Zenon DEF TypeOK, FlagsTyped, RunUngate, respVars, roomVars, linkVars
<1>2. StateTyped'
  BY DEF TypeOK, StateTyped, RunUngate, respVars, fragVars, genVars
<1>3. QueuesTyped'
  BY TaskFields DEF TypeOK, QueuesTyped, RunUngate
<1>4. ServerTyped'
  BY DEF TypeOK, ServerTyped, RunUngate, serverVars, roomVars, linkVars, ghostVars
<1>5. QED
  BY <1>1, <1>2, <1>3, <1>4 DEF TypeOK

LEMMA TypeRunStop == TypeOK /\ RunStop => TypeOK'
<1> SUFFICES ASSUME TypeOK, RunStop PROVE TypeOK'
  OBVIOUS
<1>1. FlagsTyped'
  BY Zenon DEF TypeOK, FlagsTyped, RunStop, respVars, roomVars, linkVars, Stop
<1>2. StateTyped'
  BY DEF TypeOK, StateTyped, RunStop, respVars, fragVars, Stop
<1>3. QueuesTyped'
  BY TaskFields DEF TypeOK, QueuesTyped, RunStop
<1>4. ServerTyped'
  BY DEF TypeOK, ServerTyped, RunStop, serverVars, roomVars, linkVars, ghostVars
<1>5. QED
  BY <1>1, <1>2, <1>3, <1>4 DEF TypeOK

LEMMA TypeEndSession == TypeOK /\ EndSession => TypeOK'
<1> SUFFICES ASSUME TypeOK, EndSession PROVE TypeOK'
  OBVIOUS
<1>1. FlagsTyped'
  BY Zenon DEF TypeOK, FlagsTyped, EndSession, respVars, roomVars, linkVars, Stop
<1>2. StateTyped'
  BY DEF TypeOK, StateTyped, EndSession, respVars, fragVars, Stop
<1>3. QueuesTyped'
  BY DEF TypeOK, QueuesTyped, EndSession
<1>4. ServerTyped'
  BY DEF TypeOK, ServerTyped, EndSession, serverVars, roomVars, linkVars, ghostVars
<1>5. QED
  BY <1>1, <1>2, <1>3, <1>4 DEF TypeOK

LEMMA TypeInterrupt == TypeOK /\ Interrupt => TypeOK'
<1> SUFFICES ASSUME TypeOK, Interrupt PROVE TypeOK'
  OBVIOUS
<1>1. FlagsTyped'
  BY Zenon DEF TypeOK, FlagsTyped, Interrupt, respVars, roomVars, linkVars, SilenceNow,
     SilenceLocally, silenceVars
<1>2. StateTyped'
  BY DEF TypeOK, StateTyped, Interrupt, respVars, fragVars, SilenceNow,
     SilenceLocally, silenceVars
<1>3. QueuesTyped'
  BY SilenceNowSends DEF TypeOK, QueuesTyped, Interrupt
<1>4. ServerTyped'
  BY DEF TypeOK, ServerTyped, Interrupt, serverVars, roomVars, linkVars, SilenceNow,
     SilenceLocally, silenceVars
<1>5. QED
  BY <1>1, <1>2, <1>3, <1>4 DEF TypeOK

LEMMA TypeTimerDue == TypeOK /\ TimerDue => TypeOK'
<1> SUFFICES ASSUME TypeOK, TimerDue PROVE TypeOK'
  OBVIOUS
<1>1. FlagsTyped'
  BY Zenon DEF TypeOK, FlagsTyped, TimerDue, gateVars, respVars, roomVars, linkVars
<1>2. StateTyped'
  BY DEF TypeOK, StateTyped, TimerDue, respVars, fragVars, genVars
<1>3. QueuesTyped'
  BY DEF TypeOK, QueuesTyped, TimerDue
<1>4. ServerTyped'
  BY DEF TypeOK, ServerTyped, TimerDue, serverVars, roomVars, linkVars, ghostVars
<1>5. QED
  BY <1>1, <1>2, <1>3, <1>4 DEF TypeOK

LEMMA TypePlayChunk == TypeOK /\ PlayChunk => TypeOK'
<1> SUFFICES ASSUME TypeOK, PlayChunk PROVE TypeOK'
  OBVIOUS
<1>1. FlagsTyped'
  BY Zenon DEF TypeOK, FlagsTyped, PlayChunk, gateVars, respVars, roomVars, linkVars
<1>2. StateTyped'
  <2>1. speaker' \in 0..MaxResponses
    BY ChunkFields DEF TypeOK, StateTyped, QueuesTyped, PlayChunk, Responses
  <2>2. QED
    BY <2>1 DEF TypeOK, StateTyped, PlayChunk, respVars, fragVars, genVars
<1>3. QueuesTyped'
  BY ChunkFields DEF TypeOK, QueuesTyped, PlayChunk
<1>4. ServerTyped'
  BY DEF TypeOK, ServerTyped, PlayChunk, serverVars, roomVars, linkVars, ghostVars
<1>5. QED
  BY <1>1, <1>2, <1>3, <1>4 DEF TypeOK

LEMMA TypeSpeakerStarves == TypeOK /\ SpeakerStarves => TypeOK'
<1> SUFFICES ASSUME TypeOK, SpeakerStarves PROVE TypeOK'
  OBVIOUS
<1>1. FlagsTyped'
  BY Zenon DEF TypeOK, FlagsTyped, SpeakerStarves, gateVars, respVars,
     roomVars, linkVars
<1>2. StateTyped'
  BY DEF TypeOK, StateTyped, SpeakerStarves, respVars, fragVars, genVars
<1>3. QueuesTyped'
  BY DEF TypeOK, QueuesTyped, SpeakerStarves
<1>4. ServerTyped'
  BY DEF TypeOK, ServerTyped, SpeakerStarves, serverVars, roomVars, linkVars, ghostVars
<1>5. QED
  BY <1>1, <1>2, <1>3, <1>4 DEF TypeOK

LEMMA TypeWatcher == TypeOK /\ Watcher => TypeOK'
<1> SUFFICES ASSUME TypeOK, Watcher PROVE TypeOK'
  OBVIOUS
<1>1. FlagsTyped'
  BY Zenon DEF TypeOK, FlagsTyped, Watcher, WatcherPosts, gateVars, respVars,
     roomVars, linkVars, WatcherLeaves
<1>2. StateTyped'
  BY DEF TypeOK, StateTyped, Watcher, WatcherPosts, respVars, fragVars,
     WatcherLeaves
<1>3. QueuesTyped'
  <2>1. mainQ' \in Seq(Tasks)
    <3>1. [op |-> "ungate"] \in Tasks
      BY DEF Tasks
    <3>2. mainQ \in Seq(Tasks)
      BY DEF TypeOK, QueuesTyped
    <3>3. PICK g \in watchers : WatcherPosts(g) \/ WatcherLeaves(g)
      BY DEF Watcher
    <3>4. CASE WatcherPosts(g)
      BY <3>1, <3>2, <3>4 DEF WatcherPosts
    <3>5. CASE WatcherLeaves(g)
      BY <3>2, <3>5 DEF WatcherLeaves
    <3>6. QED
      BY <3>3, <3>4, <3>5
  <2>2. QED
    BY <2>1 DEF TypeOK, QueuesTyped, Watcher, WatcherPosts, WatcherLeaves
<1>4. ServerTyped'
  BY DEF TypeOK, ServerTyped, Watcher, WatcherPosts, serverVars, roomVars, linkVars,
     ghostVars, WatcherLeaves
<1>5. QED
  BY <1>1, <1>2, <1>3, <1>4 DEF TypeOK

LEMMA TypeSlowToolReturns == TypeOK /\ SlowToolReturns => TypeOK'
<1> SUFFICES ASSUME TypeOK, SlowToolReturns PROVE TypeOK'
  OBVIOUS
<1>1. FlagsTyped'
  BY Zenon DEF TypeOK, FlagsTyped, SlowToolReturns, gateVars, respVars,
     roomVars, linkVars
<1>2. StateTyped'
  BY DEF TypeOK, StateTyped, SlowToolReturns, respVars, fragVars, genVars
<1>3. QueuesTyped'
  <2>1. <<Create({})>> \in Seq(Requests)
    BY RequestForms
  <2>2. QED
    BY <2>1, SendTyped DEF TypeOK, QueuesTyped, SlowToolReturns
<1>4. ServerTyped'
  BY DEF TypeOK, ServerTyped, SlowToolReturns, serverVars, roomVars, linkVars, ghostVars
<1>5. QED
  BY <1>1, <1>2, <1>3, <1>4 DEF TypeOK

LEMMA TypeServerTakesCreate == TypeOK /\ ServerTakesCreate => TypeOK'
<1> SUFFICES ASSUME TypeOK, ServerTakesCreate PROVE TypeOK'
  OBVIOUS
<1>1. FlagsTyped'
  BY Zenon DEF TypeOK, FlagsTyped, ServerTakesCreate, roomVars, linkVars, appVars,
     gateVars, respVars
<1>2. StateTyped'
  BY DEF TypeOK, StateTyped, ServerTakesCreate, appVars, respVars, fragVars,
     genVars
<1>3. QueuesTyped'
  <2>1. inbox' \in Seq(Events)
    <3>1. CASE serving = 0 /\ created < MaxResponses
      <4>1. <<[type |-> "created", resp |-> created + 1]>> \in Seq(Events)
        BY <3>1 DEF TypeOK, ServerTyped, Events, Responses
      <4>2. QED
        BY <3>1, <4>1, DeliverTyped DEF TypeOK, QueuesTyped, ServerTakesCreate
    <3>2. CASE ~(serving = 0 /\ created < MaxResponses)
      BY <3>2 DEF TypeOK, QueuesTyped, ServerTakesCreate
    <3>3. QED
      BY <3>1, <3>2
  <2>2. QED
    BY <2>1 DEF TypeOK, QueuesTyped, ServerTakesCreate, appVars
<1>4. ServerTyped'
  <2>1. Head(outbox) \in Requests /\ Head(outbox).type = "create"
    BY DEF TypeOK, QueuesTyped, ServerTakesCreate
  <2>2. Head(outbox).turns \in SUBSET Turns
    BY <2>1 DEF Requests
  <2>3. serving' \in 0..MaxResponses /\ created' \in 0..MaxResponses
    BY DEF TypeOK, ServerTyped, ServerTakesCreate
  <2>4. answering' \in [Responses -> SUBSET Turns]
    BY <2>2 DEF TypeOK, ServerTyped, ServerTakesCreate
  <2>5. QED
    BY <2>3, <2>4 DEF TypeOK, ServerTyped, ServerTakesCreate, roomVars, linkVars, ghostVars
<1>5. QED
  BY <1>1, <1>2, <1>3, <1>4 DEF TypeOK

LEMMA TypeServerTakesCancel == TypeOK /\ ServerTakesCancel => TypeOK'
<1> SUFFICES ASSUME TypeOK, ServerTakesCancel PROVE TypeOK'
  OBVIOUS
<1>1. FlagsTyped'
  BY Zenon DEF TypeOK, FlagsTyped, ServerTakesCancel, roomVars, linkVars, appVars,
     gateVars, respVars
<1>2. StateTyped'
  BY DEF TypeOK, StateTyped, ServerTakesCancel, appVars, respVars, fragVars,
     genVars
<1>3. QueuesTyped'
  <2>1. ASSUME serving # 0
        PROVE  <<[type |-> "done", resp |-> serving]>> \in Seq(Events)
    BY <2>1 DEF TypeOK, ServerTyped, Events, Responses
  <2>2. inbox' \in Seq(Events)
    BY <2>1, DeliverTyped DEF TypeOK, QueuesTyped, ServerTakesCancel
  <2>3. QED
    BY <2>2 DEF TypeOK, QueuesTyped, ServerTakesCancel, appVars
<1>4. ServerTyped'
  BY DEF TypeOK, ServerTyped, ServerTakesCancel, roomVars, linkVars, ghostVars
<1>5. QED
  BY <1>1, <1>2, <1>3, <1>4 DEF TypeOK

LEMMA TypeServerSendsDelta == TypeOK /\ ServerSendsDelta => TypeOK'
<1> SUFFICES ASSUME TypeOK, ServerSendsDelta PROVE TypeOK'
  OBVIOUS
<1>1. FlagsTyped'
  BY Zenon DEF TypeOK, FlagsTyped, ServerSendsDelta, roomVars, linkVars, appVars,
     gateVars, respVars
<1>2. StateTyped'
  BY DEF TypeOK, StateTyped, ServerSendsDelta, appVars, respVars, fragVars,
     genVars
<1>3. QueuesTyped'
  <2>1. ASSUME serving # 0
        PROVE  <<[type |-> "delta", resp |-> serving]>> \in Seq(Events)
    BY <2>1 DEF TypeOK, ServerTyped, Events, Responses
  <2>2. inbox' \in Seq(Events)
    BY <2>1, DeliverTyped DEF TypeOK, QueuesTyped, ServerSendsDelta
  <2>3. QED
    BY <2>2 DEF TypeOK, QueuesTyped, ServerSendsDelta, appVars
<1>4. ServerTyped'
  <2>1. sent' \in [Responses -> Nat]
    BY DEF TypeOK, ServerTyped, ServerSendsDelta, Responses
  <2>2. QED
    BY <2>1 DEF TypeOK, ServerTyped, ServerSendsDelta, roomVars, linkVars, ghostVars
<1>5. QED
  BY <1>1, <1>2, <1>3, <1>4 DEF TypeOK

LEMMA TypeServerCallsTool == TypeOK /\ ServerCallsTool => TypeOK'
<1> SUFFICES ASSUME TypeOK, ServerCallsTool PROVE TypeOK'
  OBVIOUS
<1>1. FlagsTyped'
  BY Zenon DEF TypeOK, FlagsTyped, ServerCallsTool, roomVars, linkVars, appVars,
     gateVars, respVars
<1>2. StateTyped'
  BY DEF TypeOK, StateTyped, ServerCallsTool, appVars, respVars, fragVars,
     genVars
<1>3. QueuesTyped'
  <2>1. ASSUME NEW tool \in Tools
        PROVE  <<[type |-> "call", resp |-> serving, tool |-> tool]>> \in Seq(Events)
    BY DEF TypeOK, ServerTyped, ServerCallsTool, Events, Responses
  <2>2. inbox' \in Seq(Events)
    BY <2>1, DeliverTyped DEF TypeOK, QueuesTyped, ServerCallsTool
  <2>3. QED
    BY <2>2 DEF TypeOK, QueuesTyped, ServerCallsTool, appVars
<1>4. ServerTyped'
  BY DEF TypeOK, ServerTyped, ServerCallsTool, roomVars, linkVars, ghostVars
<1>5. QED
  BY <1>1, <1>2, <1>3, <1>4 DEF TypeOK

LEMMA TypeServerFinishes == TypeOK /\ ServerFinishes => TypeOK'
<1> SUFFICES ASSUME TypeOK, ServerFinishes PROVE TypeOK'
  OBVIOUS
<1>1. FlagsTyped'
  BY Zenon DEF TypeOK, FlagsTyped, ServerFinishes, roomVars, linkVars, appVars,
     gateVars, respVars
<1>2. StateTyped'
  BY DEF TypeOK, StateTyped, ServerFinishes, appVars, respVars, fragVars,
     genVars
<1>3. QueuesTyped'
  <2>1. ASSUME serving # 0
        PROVE  <<[type |-> "done", resp |-> serving]>> \in Seq(Events)
    BY <2>1 DEF TypeOK, ServerTyped, Events, Responses
  <2>2. inbox' \in Seq(Events)
    BY <2>1, DeliverTyped DEF TypeOK, QueuesTyped, ServerFinishes
  <2>3. QED
    BY <2>2 DEF TypeOK, QueuesTyped, ServerFinishes, appVars
<1>4. ServerTyped'
  BY DEF TypeOK, ServerTyped, ServerFinishes, roomVars, linkVars, ghostVars
<1>5. QED
  BY <1>1, <1>2, <1>3, <1>4 DEF TypeOK

LEMMA TypeSomeoneSpeaks == TypeOK /\ SomeoneSpeaks => TypeOK'
<1> SUFFICES ASSUME TypeOK, SomeoneSpeaks PROVE TypeOK'
  OBVIOUS
<1>1. FlagsTyped'
  BY Zenon DEF TypeOK, FlagsTyped, SomeoneSpeaks, linkVars, appVars, gateVars, respVars
<1>2. StateTyped'
  BY DEF TypeOK, StateTyped, SomeoneSpeaks, appVars, respVars, fragVars,
     genVars
<1>3. QueuesTyped'
  <2>1. <<[type |-> "started", turn |-> spoken + 1]>> \in Seq(Events)
    BY DEF TypeOK, ServerTyped, SomeoneSpeaks, Events, Turns
  <2>2. inbox' \in Seq(Events)
    BY <2>1, DeliverTyped DEF TypeOK, QueuesTyped, SomeoneSpeaks
  <2>3. QED
    BY <2>2 DEF TypeOK, QueuesTyped, SomeoneSpeaks, appVars
<1>4. ServerTyped'
  BY DEF TypeOK, ServerTyped, SomeoneSpeaks, linkVars, serverVars, ghostVars
<1>5. QED
  BY <1>1, <1>2, <1>3, <1>4 DEF TypeOK

LEMMA TypeSomeonePauses == TypeOK /\ SomeonePauses => TypeOK'
<1> SUFFICES ASSUME TypeOK, SomeonePauses PROVE TypeOK'
  OBVIOUS
<1>1. FlagsTyped'
  BY Zenon DEF TypeOK, FlagsTyped, SomeonePauses, linkVars, appVars, gateVars, respVars
<1>2. StateTyped'
  BY DEF TypeOK, StateTyped, SomeonePauses, appVars, respVars, fragVars,
     genVars
<1>3. QueuesTyped'
  <2>1. <<[type |-> "stopped", turn |-> spoken],
          [type |-> "committed", turn |-> spoken]>> \in Seq(Events)
    BY DEF TypeOK, ServerTyped, SomeonePauses, Events, Turns
  <2>2. inbox' \in Seq(Events)
    BY <2>1, DeliverTyped DEF TypeOK, QueuesTyped, SomeonePauses
  <2>3. QED
    BY <2>2 DEF TypeOK, QueuesTyped, SomeonePauses, appVars
<1>4. ServerTyped'
  BY DEF TypeOK, ServerTyped, SomeonePauses, linkVars, serverVars, ghostVars, Turns
<1>5. QED
  BY <1>1, <1>2, <1>3, <1>4 DEF TypeOK

LEMMA TypeServerTranscribes == TypeOK /\ ServerTranscribes => TypeOK'
<1> SUFFICES ASSUME TypeOK, ServerTranscribes PROVE TypeOK'
  OBVIOUS
<1>1. FlagsTyped'
  BY Zenon DEF TypeOK, FlagsTyped, ServerTranscribes, linkVars, appVars, gateVars,
     respVars
<1>2. StateTyped'
  BY DEF TypeOK, StateTyped, ServerTranscribes, appVars, respVars, fragVars,
     genVars
<1>3. QueuesTyped'
  <2>1. ASSUME NEW t \in untold, NEW text \in Texts
        PROVE  <<[type |-> "transcript", turn |-> t, text |-> text]>> \in Seq(Events)
    BY DEF TypeOK, ServerTyped, Events
  <2>2. inbox' \in Seq(Events)
    BY <2>1, DeliverTyped DEF TypeOK, QueuesTyped, ServerTranscribes
  <2>3. QED
    BY <2>2 DEF TypeOK, QueuesTyped, ServerTranscribes, appVars
<1>4. ServerTyped'
  BY DEF TypeOK, ServerTyped, ServerTranscribes, linkVars, serverVars, ghostVars
<1>5. QED
  BY <1>1, <1>2, <1>3, <1>4 DEF TypeOK

LEMMA SliceTyped ==
  ASSUME NEW S, NEW q \in Seq(S), NEW m \in 1..Len(q) + 1, NEW n \in 0..Len(q)
  PROVE  SubSeq(q, m, n) \in Seq(S)
OBVIOUS

\* A server is left with nothing of its own in flight.
LEMMA LeavesServerTyped ==
  ASSUME ServerTyped, LeavesServer, UNCHANGED ghostVars
  PROVE  ServerTyped'
BY DEF ServerTyped, LeavesServer, ghostVars

LEMMA TypeLinkFails == TypeOK /\ LinkFails => TypeOK'
<1> SUFFICES ASSUME TypeOK, LinkFails PROVE TypeOK'
  OBVIOUS
<1>1. FlagsTyped'
  BY Zenon DEF TypeOK, FlagsTyped, LinkFails, LeavesServer, gateVars, respVars
<1>2. StateTyped'
  BY DEF TypeOK, StateTyped, LinkFails, respVars, fragVars
<1>3. QueuesTyped'
  BY DEF TypeOK, QueuesTyped, LinkFails, LeavesServer
<1>4. ServerTyped'
  BY LeavesServerTyped DEF TypeOK, LinkFails
<1>5. QED
  BY <1>1, <1>2, <1>3, <1>4 DEF TypeOK

LEMMA TypeStart == TypeOK /\ Start => TypeOK'
<1> SUFFICES ASSUME TypeOK, Start PROVE TypeOK'
  OBVIOUS
<1>1. FlagsTyped'
  BY Zenon DEF TypeOK, FlagsTyped, Start, LeavesServer
<1>2. StateTyped'
  BY DEF TypeOK, StateTyped, Start, fragVars, genVars
<1>3. QueuesTyped'
  <2>1. inbox' \in Seq(Events)
    BY SliceTyped DEF TypeOK, QueuesTyped, Start
  <2>2. QED
    BY <2>1 DEF TypeOK, QueuesTyped, Start, LeavesServer
<1>4. ServerTyped'
  BY LeavesServerTyped DEF TypeOK, Start
<1>5. QED
  BY <1>1, <1>2, <1>3, <1>4 DEF TypeOK

LEMMA TypeOpens == TypeOK /\ Opens => TypeOK'
<1> SUFFICES ASSUME TypeOK, Opens PROVE TypeOK'
  OBVIOUS
<1>1. FlagsTyped'
  BY Zenon DEF TypeOK, FlagsTyped, Opens, GateAtOpen, respVars
<1>2. StateTyped'
  BY DEF TypeOK, StateTyped, Opens, respVars, fragVars, genVars
<1>3. QueuesTyped'
  <2>1. outbox' \in Seq(Requests)
    BY SliceTyped DEF TypeOK, QueuesTyped, Opens
  <2>2. QED
    BY <2>1 DEF TypeOK, QueuesTyped, Opens
<1>4. ServerTyped'
  BY DEF TypeOK, ServerTyped, Opens, serverVars, ghostVars
<1>5. QED
  BY <1>1, <1>2, <1>3, <1>4 DEF TypeOK

LEMMA TypeStutter == TypeOK /\ UNCHANGED vars => TypeOK'
<1> SUFFICES ASSUME TypeOK, UNCHANGED vars PROVE TypeOK'
  OBVIOUS
<1> USE DEF TypeOK, vars, appVars, gateVars, respVars, fragVars, genVars,
            serverVars, roomVars, linkVars, ghostVars
<1>1. FlagsTyped'
  BY Zenon DEF FlagsTyped
<1>2. StateTyped'
  BY DEF StateTyped
<1>3. QueuesTyped'
  BY DEF QueuesTyped
<1>4. ServerTyped'
  BY DEF ServerTyped
<1>5. QED
  BY <1>1, <1>2, <1>3, <1>4

LEMMA TypeInit == Init => TypeOK
<1> SUFFICES ASSUME Init PROVE TypeOK
  OBVIOUS
<1> USE DEF Init
<1>1. FlagsTyped
  BY Zenon DEF FlagsTyped
<1>2. StateTyped
  BY NoFragsTyped DEF StateTyped
<1>3. QueuesTyped
  BY DEF QueuesTyped
<1>4. ServerTyped
  BY DEF ServerTyped, Turns, Responses
<1>5. QED
  BY <1>1, <1>2, <1>3, <1>4 DEF TypeOK

-----------------------------------------------------------------------------
\* Every step of every thread, of the server and of the room keeps every
\* variable in its type, whatever the bounds: a queue never holds anything its
\* consumer does not know, a counter never leaves its range.
THEOREM TypeCorrect == Spec => []TypeOK
<1>1. TypeOK /\ HandleEvent => TypeOK'
  BY TypeHandleCreated, TypeHandleSpeechStarted, TypeHandleSpeechStopped,
     TypeHandleCommitted, TypeHandleTranscript, TypeHandleAudioDelta,
     TypeHandleToolCall, TypeHandleDoneChatter, TypeHandleDone DEF HandleEvent
<1>2. TypeOK /\ MainTask => TypeOK'
  BY TypeRunBareStop, TypeRunHush, TypeRunFragment, TypeRunFragmentEval,
     TypeSkipRemovedEval, TypeRunDelayedCreate, TypeRunUngate, TypeRunStop
     DEF MainTask
<1>3. TypeOK /\ Environment => TypeOK'
  BY TypeServerTakesCreate, TypeServerTakesCancel, TypeServerSendsDelta,
     TypeServerCallsTool, TypeServerFinishes, TypeSomeoneSpeaks,
     TypeSomeonePauses, TypeServerTranscribes DEF Environment
<1>4. TypeOK /\ [Next]_vars => TypeOK'
  BY <1>1, <1>2, <1>3, TypeEndSession, TypeInterrupt, TypeTimerDue,
     TypePlayChunk, TypeSpeakerStarves, TypeWatcher, TypeSlowToolReturns,
     TypeLinkFails, TypeStart, TypeOpens, TypeStutter DEF Next
<1>5. QED
  BY <1>4, TypeInit, PTL DEF Spec

-----------------------------------------------------------------------------
(* Collected talk-over is always going to be judged. *)

\* What is pending stays pending while nothing re-arms or collects, and no due
\* evaluation is taken from the main thread's queue.
LEMMA StaysPending ==
  ASSUME PendingTalkoverIsJudged, UNCHANGED <<gatedFrags, evalArm>>,
         timers \subseteq timers',
         \A i \in 1..Len(mainQ) : mainQ[i] = EvalTask(evalArm)
           => \E j \in 1..Len(mainQ') : mainQ'[j] = mainQ[i]
  PROVE  PendingTalkoverIsJudged'
<1> SUFFICES ASSUME gatedFrags.words > 0 PROVE EvalPending'
  BY DEF PendingTalkoverIsJudged
<1>1. EvalPending
  BY DEF PendingTalkoverIsJudged
<1>2. EvalTask(evalArm)' = EvalTask(evalArm)
  BY DEF EvalTask
<1>3. QED
  BY <1>1, <1>2 DEF EvalPending

LEMMA AppendKeepsTasks ==
  ASSUME mainQ \in Seq(Tasks), NEW task \in Tasks, mainQ' = Append(mainQ, task)
  PROVE  \A i \in 1..Len(mainQ) : i \in 1..Len(mainQ') /\ mainQ'[i] = mainQ[i]
OBVIOUS

\* The main thread takes one task, which is not the armed evaluation.
LEMMA TakeKeepsEval ==
  ASSUME mainQ \in Seq(Tasks), NEW op, TakeTask(op),
         Head(mainQ) # EvalTask(evalArm)
  PROVE  \A i \in 1..Len(mainQ) : mainQ[i] = EvalTask(evalArm)
           => \E j \in 1..Len(mainQ') : mainQ'[j] = mainQ[i]
<1> SUFFICES ASSUME NEW i \in 1..Len(mainQ), mainQ[i] = EvalTask(evalArm)
             PROVE  \E j \in 1..Len(mainQ') : mainQ'[j] = mainQ[i]
  OBVIOUS
<1>1. i # 1
  BY DEF TakeTask
<1>2. i - 1 \in 1..Len(mainQ') /\ mainQ'[i - 1] = mainQ[i]
  BY <1>1 DEF TakeTask
<1>3. QED
  BY <1>2

\* A task of another kind is not an evaluation.
LEMMA OtherTask ==
  ASSUME NEW op, op # "eval", TakeTask(op)
  PROVE  Head(mainQ) # EvalTask(evalArm)
BY DEF TakeTask, EvalTask

\* A delay that ends moves the evaluation from the timers to the queue.
LEMMA DueKeepsPending ==
  ASSUME QueuesTyped, PendingTalkoverIsJudged, TimerDue
  PROVE  PendingTalkoverIsJudged'
<1>1. PICK task \in timers : /\ timers' = timers \ {task}
                             /\ mainQ' = Append(mainQ, task)
  BY DEF TimerDue
<1>2. mainQ \in Seq(Tasks) /\ task \in Tasks
  BY DEF QueuesTyped
<1>3. UNCHANGED <<gatedFrags, evalArm>> /\ EvalTask(evalArm)' = EvalTask(evalArm)
  BY DEF TimerDue, fragVars, EvalTask
<1>4. Len(mainQ') \in 1..Len(mainQ') /\ mainQ'[Len(mainQ')] = task
  BY <1>1, <1>2
<1>5. SUFFICES ASSUME gatedFrags.words > 0 PROVE EvalPending'
  BY <1>3 DEF PendingTalkoverIsJudged
<1>6. EvalPending
  BY <1>5 DEF PendingTalkoverIsJudged
<1>7. CASE EvalTask(evalArm) = task
  BY <1>3, <1>4, <1>7 DEF EvalPending
<1>8. CASE EvalTask(evalArm) \in timers \ {task}
  BY <1>1, <1>3, <1>8 DEF EvalPending
<1>9. CASE \E i \in 1..Len(mainQ) : mainQ[i] = EvalTask(evalArm)
  BY <1>1, <1>2, <1>3, <1>9, AppendKeepsTasks DEF EvalPending
<1>10. QED
  BY <1>6, <1>7, <1>8, <1>9 DEF EvalPending

LEMMA TranscriptKeepsPending ==
  ASSUME QueuesTyped, PendingTalkoverIsJudged, HandleTranscript
  PROVE  PendingTalkoverIsJudged'
<1> DEFINE t == Head(inbox).turn
           s == TranscriptTask(t, Head(inbox).text, WasGated(t))
<1>1. s \in Seq(Tasks) /\ mainQ' = mainQ \o s
  BY EventFields, TranscriptTaskTyped DEF QueuesTyped, HandleTranscript
<1>2. mainQ \in Seq(Tasks)
  BY DEF QueuesTyped
<1> HIDE DEF s
<1>3. \A i \in 1..Len(mainQ) : i \in 1..Len(mainQ') /\ mainQ'[i] = mainQ[i]
  BY <1>1, <1>2
<1>4. QED
  BY <1>3, StaysPending DEF HandleTranscript, fragVars

\* Talk-over arms the evaluation anew; a hush and the evaluation itself leave
\* no words behind.
LEMMA FragmentArms ==
  ASSUME RunFragment
  PROVE  PendingTalkoverIsJudged'
<1>1. timers' = WithoutEval(timers) \cup {EvalTask(evalArm + 1)}
      /\ evalArm' = evalArm + 1
  BY DEF RunFragment
<1>2. EvalTask(evalArm)' = EvalTask(evalArm + 1)
  BY <1>1 DEF EvalTask
<1>3. QED
  BY <1>1, <1>2 DEF PendingTalkoverIsJudged, EvalPending

LEMMA NothingCollected ==
  ASSUME gatedFrags' = NoFrags
  PROVE  PendingTalkoverIsJudged'
BY DEF NoFrags, PendingTalkoverIsJudged

LEMMA MainTaskKeepsPending ==
  ASSUME QueuesTyped, PendingTalkoverIsJudged, MainTask
  PROVE  PendingTalkoverIsJudged'
<1>1. mainQ \in Seq(Tasks)
  BY DEF QueuesTyped
<1>2. CASE RunBareStop
  BY <1>1, <1>2, OtherTask, TakeKeepsEval, StaysPending DEF RunBareStop, fragVars
<1>3. CASE RunHush
  BY <1>3, NothingCollected DEF RunHush
<1>4. CASE RunFragment
  BY <1>4, FragmentArms
<1>5. CASE RunFragmentEval
  BY <1>5, NothingCollected DEF RunFragmentEval, FragsOnceJudged
<1>6. CASE SkipRemovedEval
  <2>1. Head(mainQ) # EvalTask(evalArm)
    BY <1>6 DEF SkipRemovedEval, EvalTask
  <2>2. QED
    BY <1>1, <1>6, <2>1, TakeKeepsEval, StaysPending DEF SkipRemovedEval, fragVars
<1>7. CASE RunDelayedCreate
  BY <1>1, <1>7, OtherTask, TakeKeepsEval, StaysPending
     DEF RunDelayedCreate, fragVars
<1>8. CASE RunUngate
  BY <1>1, <1>8, OtherTask, TakeKeepsEval, StaysPending DEF RunUngate, fragVars
<1>9. CASE RunStop
  BY <1>1, <1>9, OtherTask, TakeKeepsEval, StaysPending DEF RunStop, fragVars
<1>10. QED
  BY <1>2, <1>3, <1>4, <1>5, <1>6, <1>7, <1>8, <1>9 DEF MainTask

LEMMA WatcherKeepsPending ==
  ASSUME QueuesTyped, PendingTalkoverIsJudged, Watcher
  PROVE  PendingTalkoverIsJudged'
<1>1. mainQ \in Seq(Tasks) /\ [op |-> "ungate"] \in Tasks
  BY DEF QueuesTyped, Tasks
<1>2. PICK g \in watchers : WatcherPosts(g) \/ WatcherLeaves(g)
  BY DEF Watcher
<1>3. CASE WatcherPosts(g)
  BY <1>1, <1>3, AppendKeepsTasks, StaysPending DEF WatcherPosts, fragVars
<1>4. CASE WatcherLeaves(g)
  BY <1>4, StaysPending DEF WatcherLeaves, fragVars
<1>5. QED
  BY <1>2, <1>3, <1>4

\* The other handlers leave the talk-over and the queue alone; those that start
\* a delay add to the timers.
LEMMA EventKeepsPending ==
  ASSUME QueuesTyped, PendingTalkoverIsJudged, HandleEvent
  PROVE  PendingTalkoverIsJudged'
<1>1. CASE HandleTranscript
  BY <1>1, TranscriptKeepsPending
<1>2. CASE ~HandleTranscript
  <2>1. UNCHANGED <<gatedFrags, evalArm, mainQ>> /\ timers \subseteq timers'
    BY <1>2 DEF HandleEvent, HandleCreated, HandleSpeechStarted,
       HandleSpeechStopped, HandleCommitted, HandleAudioDelta, HandleToolCall,
       HandleDoneChatter, HandleDone, fragVars
  <2>2. QED
    BY <2>1, StaysPending
<1>3. QED
  BY <1>1, <1>2

LEMMA OthersKeepPending ==
  ASSUME PendingTalkoverIsJudged,
         \/ EndSession \/ Interrupt \/ PlayChunk \/ SpeakerStarves
         \/ SlowToolReturns \/ LinkFails \/ Start \/ Opens \/ Environment
         \/ UNCHANGED vars
  PROVE  PendingTalkoverIsJudged'
<1>1. UNCHANGED <<gatedFrags, evalArm, mainQ, timers>>
  BY DEF EndSession, Interrupt, PlayChunk, SpeakerStarves, SlowToolReturns,
     LinkFails, Start, Opens, Environment, ServerTakesCreate, ServerTakesCancel, ServerSendsDelta,
     ServerCallsTool, ServerFinishes, SomeoneSpeaks, SomeonePauses,
     ServerTranscribes, vars, appVars, fragVars
<1>2. QED
  BY <1>1, StaysPending

\* Whatever removes or re-arms gatedFragEval, collected talk-over never loses
\* its evaluation: it is judged with the words it arrived with, and never glued
\* to a later utterance. Inductive together with the types of the queues.
THEOREM TalkoverAlwaysJudged == Spec => []PendingTalkoverIsJudged
<1>1. Init => PendingTalkoverIsJudged
  BY DEF Init, NoFrags, PendingTalkoverIsJudged
<1>2. TypeOK /\ PendingTalkoverIsJudged /\ [Next]_vars => PendingTalkoverIsJudged'
  BY EventKeepsPending, MainTaskKeepsPending, WatcherKeepsPending,
     DueKeepsPending, OthersKeepPending DEF Next, TypeOK
<1>3. QED
  BY <1>1, <1>2, TypeCorrect, PTL DEF Spec

-----------------------------------------------------------------------------
(***************************************************************************)
(* The chatter escape counts rightly. That audioChunks is zero at a        *)
(* response.done says something of that response only because events come  *)
(* in the order of the responses: a delta that is on its way, or counted,  *)
(* is of the response whose end comes next (Heard). And while no link was  *)
(* lost the ends that are due are those of the last responses, one after   *)
(* the other (EndsInTurn), so the one counted before is the one before.    *)
(***************************************************************************)
OfResponse(e) == e.type \in {"created", "delta", "call", "done"}
IsDone(e, r) == e.type = "done" /\ e.resp = r
IsDelta(e, r) == e.type = "delta" /\ e.resp = r

Ordered(q) ==
  \A i, j \in 1..Len(q) : i < j /\ OfResponse(q[i]) /\ OfResponse(q[j]) =>
    /\ q[i].resp <= q[j].resp
    /\ q[i].type = "done" => q[i].resp < q[j].resp

Ends(q, r) == \E i \in 1..Len(q) : IsDone(q[i], r)

\* The events q, when c responses were created and the server generates s.
InOrder(q, c, s) ==
  /\ Ordered(q)
  /\ \A i \in 1..Len(q) : OfResponse(q[i]) => q[i].resp <= c
  /\ s # 0 => s = c /\ ~Ends(q, s)

\* Before the n-th event a delta of r is read, or a are counted and no end resets them.
Told(q, n, r, a) ==
  \/ \E j \in 1..Len(q) : j < n /\ IsDelta(q[j], r)
  \/ a > 0 /\ \A j \in 1..Len(q) : j < n => q[j].type # "done"

\* Audio that was sent is counted when the end of its response is read.
Heard(q, s, st, a) ==
  /\ \A i \in 1..Len(q) : q[i].type = "done" /\ st[q[i].resp] > 0 => Told(q, i, q[i].resp, a)
  /\ s # 0 /\ st[s] > 0 => Told(q, Len(q) + 1, s, a)

LEMMA EventTyped ==
  ASSUME NEW e \in Events
  PROVE  OfResponse(e) => e.resp \in Responses /\ e.resp \in Int
BY DEF Events, OfResponse, Responses

\* Where an event is after the first one was taken.
LEMMA Behind ==
  ASSUME NEW q \in Seq(Events), q # <<>>
  PROVE  /\ Tail(q) \in Seq(Events) /\ Len(Tail(q)) = Len(q) - 1 /\ Len(q) \in Nat
         /\ 1 \in 1..Len(q) /\ Head(q) = q[1] /\ Head(q) \in Events
         /\ \A i \in 1..Len(Tail(q)) : /\ i + 1 \in 1..Len(q) /\ Tail(q)[i] = q[i + 1]
                                       /\ Tail(q)[i] \in Events
         /\ \A i \in 1..Len(q) : i # 1 => i - 1 \in 1..Len(Tail(q)) /\ Tail(q)[i - 1] = q[i]
OBVIOUS

LEMMA TakenInOrder ==
  ASSUME NEW q \in Seq(Events), q # <<>>, NEW c \in Nat, NEW s \in Nat, InOrder(q, c, s)
  PROVE  /\ InOrder(Tail(q), c, s)
         /\ \A r : Ends(Tail(q), r) <=> Ends(q, r) /\ ~IsDone(Head(q), r)
<1> DEFINE p == Tail(q)
<1>1. /\ p \in Seq(Events) /\ Len(p) = Len(q) - 1 /\ Len(q) \in Nat
      /\ 1 \in 1..Len(q) /\ Head(q) = q[1] /\ Head(q) \in Events
      /\ \A i \in 1..Len(p) : i + 1 \in 1..Len(q) /\ p[i] = q[i + 1] /\ p[i] \in Events
      /\ \A i \in 1..Len(q) : i # 1 => i - 1 \in 1..Len(p) /\ p[i - 1] = q[i]
  BY Behind
<1> HIDE DEF p
<1>2. \A r : Ends(p, r) <=> Ends(q, r) /\ ~IsDone(Head(q), r)
  <2> SUFFICES ASSUME NEW r PROVE Ends(p, r) <=> Ends(q, r) /\ ~IsDone(Head(q), r)
    OBVIOUS
  <2>1. Ends(p, r) => Ends(q, r)
    BY <1>1 DEF Ends
  <2>2. ASSUME IsDone(Head(q), r), NEW i \in 1..Len(p), IsDone(p[i], r) PROVE FALSE
    <3>1. i + 1 \in 1..Len(q) /\ 1 < i + 1 /\ q[i + 1] = p[i]
      BY <1>1
    <3>2. OfResponse(q[1]) /\ OfResponse(q[i + 1]) /\ q[1].type = "done"
      BY <1>1, <2>2, <3>1 DEF OfResponse, IsDone
    <3>3. q[1].resp < q[i + 1].resp
      BY <1>1, <3>1, <3>2 DEF InOrder, Ordered
    <3>4. q[1].resp = r /\ q[i + 1].resp = r /\ r \in Int
      BY <1>1, <2>2, <3>1, <3>2, EventTyped DEF IsDone
    <3>5. QED
      BY <3>3, <3>4
  <2>3. Ends(q, r) /\ ~IsDone(Head(q), r) => Ends(p, r)
    BY <1>1 DEF Ends
  <2>4. QED
    BY <2>1, <2>2, <2>3 DEF Ends
<1>3. Ordered(p)
  <2> SUFFICES ASSUME NEW i \in 1..Len(p), NEW j \in 1..Len(p), i < j, OfResponse(p[i]),
                      OfResponse(p[j])
               PROVE  p[i].resp <= p[j].resp /\ (p[i].type = "done" => p[i].resp < p[j].resp)
    BY DEF Ordered
  <2>1. i + 1 \in 1..Len(q) /\ j + 1 \in 1..Len(q) /\ i + 1 < j + 1
        /\ p[i] = q[i + 1] /\ p[j] = q[j + 1]
    BY <1>1
  <2>2. QED
    BY <2>1 DEF InOrder, Ordered
<1>4. \A i \in 1..Len(p) : OfResponse(p[i]) => p[i].resp <= c
  BY <1>1 DEF InOrder
<1>5. s # 0 => s = c /\ ~Ends(p, s)
  BY <1>2 DEF InOrder
<1>6. QED
  BY <1>2, <1>3, <1>4, <1>5 DEF InOrder, p

\* What is told of a response before an event is told before it in the rest, unless
\* the event taken was what told it.
LEMMA ToldBehind ==
  ASSUME NEW q \in Seq(Events), q # <<>>, NEW n \in Int, NEW r, NEW a \in Nat, NEW b \in Nat,
         Told(q, n, r, a), ~IsDelta(Head(q), r), n > 1,
         Head(q).type = "done" \/ b >= a
  PROVE  Told(Tail(q), n - 1, r, b)
<1> DEFINE p == Tail(q)
<1>1. /\ Len(p) = Len(q) - 1 /\ Len(q) \in Nat /\ 1 \in 1..Len(q) /\ Head(q) = q[1]
      /\ \A i \in 1..Len(p) : i + 1 \in 1..Len(q) /\ p[i] = q[i + 1]
      /\ \A i \in 1..Len(q) : i # 1 => i - 1 \in 1..Len(p) /\ p[i - 1] = q[i]
  BY Behind
<1> HIDE DEF p
<1>2. CASE \E j \in 1..Len(q) : j < n /\ IsDelta(q[j], r)
  <2>1. PICK j \in 1..Len(q) : j < n /\ IsDelta(q[j], r)
    BY <1>2
  <2>2. j - 1 \in 1..Len(p) /\ p[j - 1] = q[j] /\ j - 1 < n - 1
    BY <1>1, <2>1
  <2>3. QED
    BY <2>1, <2>2 DEF Told, p
<1>3. CASE a > 0 /\ \A j \in 1..Len(q) : j < n => q[j].type # "done"
  <2>1. b > 0
    BY <1>1, <1>3
  <2>2. \A j \in 1..Len(p) : j < n - 1 => p[j].type # "done"
    BY <1>1, <1>3
  <2>3. QED
    BY <2>1, <2>2 DEF Told, p
<1>4. QED
  BY <1>2, <1>3 DEF Told

\* The first event is neither audio nor an end: nothing changes for the others.
LEMMA HeardAfterOther ==
  ASSUME NEW q \in Seq(Events), q # <<>>, NEW s \in Nat, NEW st, NEW a \in Nat,
         Heard(q, s, st, a), Head(q).type \notin {"delta", "done"}
  PROVE  Heard(Tail(q), s, st, a)
<1> DEFINE p == Tail(q)
<1>1. /\ Len(p) = Len(q) - 1 /\ Len(q) \in Nat
      /\ \A i \in 1..Len(p) : i + 1 \in 1..Len(q) /\ p[i] = q[i + 1]
  BY Behind
<1>2. \A r : ~IsDelta(Head(q), r)
  BY DEF IsDelta
<1> HIDE DEF p
<1>3. \A n \in Int : \A r : Told(q, n, r, a) /\ n > 1 => Told(p, n - 1, r, a)
  BY <1>2, ToldBehind DEF p
<1>4. ASSUME NEW i \in 1..Len(p), p[i].type = "done", st[p[i].resp] > 0
      PROVE  Told(p, i, p[i].resp, a)
  <2>1. i + 1 \in Int /\ i + 1 > 1 /\ (i + 1) - 1 = i
    BY <1>1
  <2>2. Told(q, i + 1, p[i].resp, a)
    BY <1>1, <1>4 DEF Heard
  <2>3. Told(p, (i + 1) - 1, p[i].resp, a)
    BY <1>3, <2>1, <2>2
  <2>4. QED
    BY <2>1, <2>3
<1>5. ASSUME s # 0, st[s] > 0 PROVE Told(p, Len(p) + 1, s, a)
  <2>1. Len(q) + 1 \in Int /\ Len(q) + 1 > 1 /\ (Len(q) + 1) - 1 = Len(p) + 1
    <3>1. Len(q) > 0
      BY Behind
    <3>2. QED
      BY <1>1, <3>1
  <2>2. Told(q, Len(q) + 1, s, a)
    BY <1>5 DEF Heard
  <2>3. Told(p, (Len(q) + 1) - 1, s, a)
    BY <1>3, <2>1, <2>2
  <2>4. QED
    BY <2>1, <2>3
<1>6. QED
  BY <1>4, <1>5 DEF Heard, p

\* A delta is counted: no end comes between it and the end of its own response.
LEMMA HeardAfterDelta ==
  ASSUME NEW q \in Seq(Events), q # <<>>, NEW c \in Nat, NEW s \in Nat, NEW st,
         NEW a \in Nat, InOrder(q, c, s), Heard(q, s, st, a), Head(q).type = "delta"
  PROVE  Heard(Tail(q), s, st, a + 1)
<1> DEFINE p == Tail(q)
<1>1. /\ p \in Seq(Events) /\ Len(p) = Len(q) - 1 /\ Len(q) \in Nat /\ Len(q) > 0
      /\ 1 \in 1..Len(q) /\ Head(q) = q[1] /\ Head(q) \in Events
      /\ \A i \in 1..Len(p) : i + 1 \in 1..Len(q) /\ p[i] = q[i + 1] /\ p[i] \in Events
  BY Behind
<1> HIDE DEF p
<1>2. a + 1 \in Nat /\ a + 1 >= a /\ a + 1 > 0
  OBVIOUS
<1>3. \A n \in Int : \A r : Told(q, n, r, a) /\ n > 1 /\ Head(q).resp # r => Told(p, n - 1, r, a + 1)
  BY <1>2, ToldBehind DEF p, IsDelta
<1>4. OfResponse(q[1]) /\ q[1].resp \in Int
  BY <1>1, EventTyped DEF OfResponse
<1>5. ASSUME NEW j \in 1..Len(p), p[j].type = "done"
      PROVE  /\ OfResponse(q[j + 1]) /\ q[1].resp <= p[j].resp /\ p[j].resp \in Int
             /\ \A i \in 1..Len(p) : j < i /\ p[i].type = "done" => p[j].resp < p[i].resp
             /\ p[j].resp <= c
  <2>1. OfResponse(q[j + 1]) /\ j + 1 \in 1..Len(q) /\ 1 < j + 1 /\ p[j] = q[j + 1]
    BY <1>1, <1>5 DEF OfResponse
  <2>2. q[1].resp <= p[j].resp /\ p[j].resp <= c
    BY <1>1, <1>4, <2>1 DEF InOrder, Ordered
  <2>3. p[j].resp \in Int
    BY <1>1, <2>1, EventTyped
  <2>4. ASSUME NEW i \in 1..Len(p), j < i, p[i].type = "done" PROVE p[j].resp < p[i].resp
    <3>1. OfResponse(q[i + 1]) /\ i + 1 \in 1..Len(q) /\ j + 1 < i + 1 /\ p[i] = q[i + 1]
      BY <1>1, <2>4 DEF OfResponse
    <3>2. QED
      BY <1>5, <2>1, <3>1 DEF InOrder, Ordered
  <2>5. QED
    BY <2>1, <2>2, <2>3, <2>4
<1>6. ASSUME NEW i \in 1..Len(p), p[i].type = "done", st[p[i].resp] > 0
      PROVE  Told(p, i, p[i].resp, a + 1)
  <2>1. i + 1 \in Int /\ i + 1 > 1 /\ (i + 1) - 1 = i
    BY <1>1
  <2>2. CASE Head(q).resp # p[i].resp
    <3>1. Told(q, i + 1, p[i].resp, a)
      BY <1>1, <1>6 DEF Heard
    <3>2. Told(p, (i + 1) - 1, p[i].resp, a + 1)
      BY <1>3, <2>1, <2>2, <3>1
    <3>3. QED
      BY <2>1, <3>2
  <2>3. CASE Head(q).resp = p[i].resp
    <3>1. ASSUME NEW j \in 1..Len(p), j < i, p[j].type = "done" PROVE FALSE
      <4>1. q[1].resp <= p[j].resp /\ p[j].resp < p[i].resp /\ p[j].resp \in Int
        BY <1>5, <1>6, <3>1
      <4>2. q[1].resp = p[i].resp
        BY <1>1, <2>3
      <4>3. QED
        BY <1>4, <4>1, <4>2
    <3>2. QED
      BY <1>2, <3>1 DEF Told
  <2>4. QED
    BY <2>2, <2>3
<1>7. ASSUME s # 0, st[s] > 0 PROVE Told(p, Len(p) + 1, s, a + 1)
  <2>1. Len(q) + 1 \in Int /\ Len(q) + 1 > 1 /\ (Len(q) + 1) - 1 = Len(p) + 1
    BY <1>1
  <2>2. CASE Head(q).resp # s
    <3>1. Told(q, Len(q) + 1, s, a)
      BY <1>7 DEF Heard
    <3>2. Told(p, (Len(q) + 1) - 1, s, a + 1)
      BY <1>3, <2>1, <2>2, <3>1
    <3>3. QED
      BY <2>1, <3>2
  <2>3. CASE Head(q).resp = s
    <3>1. ASSUME NEW j \in 1..Len(p), p[j].type = "done" PROVE FALSE
      <4>1. s = c /\ ~Ends(q, s)
        BY <1>7 DEF InOrder
      <4>2. p[j].resp = s
        BY <1>1, <1>5, <2>3, <3>1, <4>1
      <4>3. QED
        BY <1>1, <3>1, <4>1, <4>2 DEF Ends, IsDone
    <3>2. QED
      BY <1>2, <3>1 DEF Told
  <2>4. QED
    BY <2>2, <2>3
<1>8. QED
  BY <1>6, <1>7 DEF Heard, p

\* An end is read: what is due after it was announced after it, so the count may
\* start again; and if its response brought audio, some was counted.
LEMMA HeardAfterDone ==
  ASSUME NEW q \in Seq(Events), q # <<>>, NEW s \in Nat, NEW st, NEW a \in Nat,
         NEW b \in Nat, Heard(q, s, st, a), Head(q).type = "done"
  PROVE  /\ Heard(Tail(q), s, st, b)
         /\ st[Head(q).resp] > 0 => a > 0
<1> DEFINE p == Tail(q)
<1>1. /\ Len(p) = Len(q) - 1 /\ Len(q) \in Nat /\ Len(q) > 0
      /\ 1 \in 1..Len(q) /\ Head(q) = q[1]
      /\ \A i \in 1..Len(p) : i + 1 \in 1..Len(q) /\ p[i] = q[i + 1]
  BY Behind
<1>2. \A r : ~IsDelta(Head(q), r)
  BY DEF IsDelta
<1> HIDE DEF p
<1>3. \A n \in Int : \A r : Told(q, n, r, a) /\ n > 1 => Told(p, n - 1, r, b)
  BY <1>2, ToldBehind DEF p
<1>4. ASSUME NEW i \in 1..Len(p), p[i].type = "done", st[p[i].resp] > 0
      PROVE  Told(p, i, p[i].resp, b)
  <2>1. i + 1 \in Int /\ i + 1 > 1 /\ (i + 1) - 1 = i
    BY <1>1
  <2>2. Told(q, i + 1, p[i].resp, a)
    BY <1>1, <1>4 DEF Heard
  <2>3. Told(p, (i + 1) - 1, p[i].resp, b)
    BY <1>3, <2>1, <2>2
  <2>4. QED
    BY <2>1, <2>3
<1>5. ASSUME s # 0, st[s] > 0 PROVE Told(p, Len(p) + 1, s, b)
  <2>1. Len(q) + 1 \in Int /\ Len(q) + 1 > 1 /\ (Len(q) + 1) - 1 = Len(p) + 1
    BY <1>1
  <2>2. Told(q, Len(q) + 1, s, a)
    BY <1>5 DEF Heard
  <2>3. Told(p, (Len(q) + 1) - 1, s, b)
    BY <1>3, <2>1, <2>2
  <2>4. QED
    BY <2>1, <2>3
<1>6. st[q[1].resp] > 0 => Told(q, 1, q[1].resp, a)
  BY <1>1 DEF Heard
<1>7. st[q[1].resp] > 0 => a > 0
  BY <1>1, <1>6 DEF Told
<1>8. QED
  BY <1>1, <1>4, <1>5, <1>7 DEF Heard, p

\* What start() lets through of the old socket's events is a first part of them.
LEMMA CutShort ==
  ASSUME NEW q \in Seq(Events), NEW n \in 0..Len(q), NEW c \in Nat, NEW s \in Nat, NEW st,
         NEW a \in Nat, InOrder(q, c, s), Heard(q, s, st, a)
  PROVE  /\ InOrder(SubSeq(q, 1, n), c, 0)
         /\ Heard(SubSeq(q, 1, n), 0, st, a)
         /\ \A r : Ends(SubSeq(q, 1, n), r) => Ends(q, r)
<1> DEFINE p == SubSeq(q, 1, n)
<1>1. /\ Len(p) = n /\ n \in Nat /\ Len(q) \in Nat
      /\ \A i \in 1..Len(p) : i \in 1..Len(q) /\ p[i] = q[i]
  OBVIOUS
<1> HIDE DEF p
<1>2. InOrder(p, c, 0)
  BY <1>1 DEF InOrder, Ordered
<1>3. ASSUME NEW i \in 1..Len(p), NEW r, Told(q, i, r, a) PROVE Told(p, i, r, a)
  <2>1. \A j \in 1..Len(q) : j < i => j \in 1..Len(p)
    BY <1>1
  <2>2. QED
    BY <1>1, <1>3, <2>1 DEF Told
<1>4. Heard(p, 0, st, a)
  BY <1>1, <1>3 DEF Heard
<1>5. \A r : Ends(p, r) => Ends(q, r)
  BY <1>1 DEF Ends
<1>6. QED
  BY <1>2, <1>4, <1>5 DEF p

LEMMA NothingOnItsWay ==
  ASSUME NEW c \in Nat, NEW st, NEW a \in Nat
  PROVE  InOrder(<<>>, c, 0) /\ Heard(<<>>, 0, st, a) /\ \A r : ~Ends(<<>>, r)
BY DEF InOrder, Ordered, Heard, Ends

LEMMA AtTheEnd ==
  ASSUME NEW q \in Seq(Events), NEW e \in Events
  PROVE  /\ Append(q, e) \in Seq(Events) /\ Len(Append(q, e)) = Len(q) + 1 /\ Len(q) \in Nat
         /\ Append(q, e)[Len(q) + 1] = e /\ Len(q) + 1 \in 1..Len(Append(q, e))
         /\ \A i \in 1..Len(q) : i \in 1..Len(Append(q, e)) /\ Append(q, e)[i] = q[i]
         /\ \A i \in 1..Len(Append(q, e)) : i \in 1..Len(q) \/ i = Len(q) + 1
OBVIOUS

\* An event is sent that comes after all the others: it is of no response, of the
\* one that is being generated, or announces the next.
LEMMA SentInOrder ==
  ASSUME NEW q \in Seq(Events), NEW e \in Events, NEW c \in Nat, NEW s \in Nat,
         NEW c2 \in Nat, NEW s2 \in Nat, InOrder(q, c, s),
         OfResponse(e) => ((s # 0 /\ e.resp = s) \/ e.resp = c + 1) /\ e.resp <= c2,
         c <= c2, s2 # 0 => s2 = c2 /\ (s2 = s \/ s2 > c) /\ ~IsDone(e, s2)
  PROVE  /\ InOrder(Append(q, e), c2, s2)
         /\ \A r : Ends(Append(q, e), r) <=> Ends(q, r) \/ IsDone(e, r)
<1> DEFINE p == Append(q, e)
           n == Len(q)
<1>1. /\ p \in Seq(Events) /\ Len(p) = n + 1 /\ n \in Nat /\ p[n + 1] = e
      /\ n + 1 \in 1..Len(p)
      /\ \A i \in 1..n : i \in 1..Len(p) /\ p[i] = q[i] /\ q[i] \in Events
      /\ \A i \in 1..Len(p) : i \in 1..n \/ i = n + 1
  BY AtTheEnd
<1> HIDE DEF p, n
<1>2. \A r : Ends(p, r) <=> Ends(q, r) \/ IsDone(e, r)
  <2> SUFFICES ASSUME NEW r PROVE Ends(p, r) <=> Ends(q, r) \/ IsDone(e, r)
    OBVIOUS
  <2>1. Ends(q, r) => Ends(p, r)
    BY <1>1 DEF Ends, n
  <2>2. IsDone(e, r) => Ends(p, r)
    BY <1>1 DEF Ends
  <2>3. Ends(p, r) => Ends(q, r) \/ IsDone(e, r)
    BY <1>1 DEF Ends, n
  <2>4. QED
    BY <2>1, <2>2, <2>3
<1>3. ASSUME NEW i \in 1..n, OfResponse(q[i]), OfResponse(e)
      PROVE  q[i].resp <= e.resp /\ (q[i].type = "done" => q[i].resp < e.resp)
  <2>1. q[i].resp \in Int /\ e.resp \in Int /\ q[i].resp <= c
    BY <1>1, <1>3, EventTyped DEF InOrder, n
  <2>2. CASE e.resp = c + 1
    BY <2>1, <2>2
  <2>3. CASE s # 0 /\ e.resp = s
    <3>1. s = c /\ ~Ends(q, s)
      BY <2>3 DEF InOrder
    <3>2. q[i].type = "done" => q[i].resp # s
      BY <3>1 DEF Ends, IsDone, n
    <3>3. QED
      BY <2>1, <2>3, <3>1, <3>2
  <2>4. QED
    BY <1>3, <2>2, <2>3
<1>4. Ordered(p)
  <2> SUFFICES ASSUME NEW i \in 1..Len(p), NEW j \in 1..Len(p), i < j, OfResponse(p[i]),
                      OfResponse(p[j])
               PROVE  p[i].resp <= p[j].resp /\ (p[i].type = "done" => p[i].resp < p[j].resp)
    BY DEF Ordered
  <2>1. i \in 1..n /\ p[i] = q[i]
    BY <1>1
  <2>2. CASE j \in 1..n
    BY <1>1, <2>1, <2>2 DEF InOrder, Ordered, n
  <2>3. CASE j = n + 1
    BY <1>1, <1>3, <2>1, <2>3
  <2>4. QED
    BY <1>1, <2>2, <2>3
<1>5. \A i \in 1..Len(p) : OfResponse(p[i]) => p[i].resp <= c2
  <2> SUFFICES ASSUME NEW i \in 1..Len(p), OfResponse(p[i]) PROVE p[i].resp <= c2
    OBVIOUS
  <2>1. CASE i \in 1..n
    <3>1. OfResponse(q[i]) /\ p[i] = q[i] /\ q[i].resp <= c /\ q[i].resp \in Int
      BY <1>1, <2>1, EventTyped DEF InOrder, n
    <3>2. QED
      BY <3>1
  <2>2. CASE i = n + 1
    BY <1>1, <2>2
  <2>3. QED
    BY <1>1, <2>1, <2>2
<1>6. s2 # 0 => s2 = c2 /\ ~Ends(p, s2)
  <2> SUFFICES ASSUME s2 # 0 PROVE ~Ends(q, s2)
    BY <1>2
  <2>1. CASE s2 = s
    BY <2>1 DEF InOrder
  <2>2. CASE s2 > c
    <3>1. ASSUME NEW i \in 1..n, IsDone(q[i], s2) PROVE FALSE
      <4>1. OfResponse(q[i]) /\ q[i].resp = s2
        BY <3>1 DEF OfResponse, IsDone
      <4>2. QED
        BY <2>2, <4>1 DEF InOrder, n
    <3>2. QED
      BY <3>1 DEF Ends, n
  <2>3. QED
    BY <2>1, <2>2
<1>7. QED
  BY <1>2, <1>4, <1>5, <1>6 DEF InOrder, p

\* An event is sent: what was told before the others still is.
LEMMA SentHeard ==
  ASSUME NEW q \in Seq(Events), NEW e \in Events, NEW s \in Nat, NEW st, NEW s2 \in Nat,
         NEW st2, NEW a \in Nat, Heard(q, s, st, a),
         \A r : Ends(q, r) => st2[r] = st[r],
         e.type = "done" => s # 0 /\ e.resp = s /\ st2[s] = st[s] /\ s2 = 0,
         s2 # 0 /\ st2[s2] > 0 =>
           \/ IsDelta(e, s2)
           \/ e.type # "done" /\ s2 = s /\ st2[s] = st[s]
  PROVE  Heard(Append(q, e), s2, st2, a)
<1> DEFINE p == Append(q, e)
           n == Len(q)
<1>1. /\ p \in Seq(Events) /\ Len(p) = n + 1 /\ n \in Nat /\ p[n + 1] = e
      /\ n + 1 \in 1..Len(p)
      /\ \A i \in 1..n : i \in 1..Len(p) /\ p[i] = q[i] /\ q[i] \in Events
      /\ \A i \in 1..Len(p) : i \in 1..n \/ i = n + 1
  BY AtTheEnd
<1> HIDE DEF p, n
<1>2. ASSUME NEW m \in 1..(n + 1), NEW r, Told(q, m, r, a) PROVE Told(p, m, r, a)
  <2>1. \A j \in 1..Len(p) : j < m => j \in 1..n /\ p[j] = q[j]
    BY <1>1
  <2>2. CASE \E j \in 1..Len(q) : j < m /\ IsDelta(q[j], r)
    BY <1>1, <2>2 DEF Told, n
  <2>3. CASE a > 0 /\ \A j \in 1..Len(q) : j < m => q[j].type # "done"
    BY <2>1, <2>3 DEF Told, n
  <2>4. QED
    BY <1>2, <2>2, <2>3 DEF Told
<1>3. ASSUME NEW i \in 1..Len(p), p[i].type = "done", st2[p[i].resp] > 0
      PROVE  Told(p, i, p[i].resp, a)
  <2>1. CASE i \in 1..n
    <3>1. p[i] = q[i] /\ Ends(q, q[i].resp)
      BY <1>1, <1>3, <2>1 DEF Ends, IsDone, n
    <3>2. Told(q, i, q[i].resp, a)
      BY <1>3, <2>1, <3>1 DEF Heard, n
    <3>3. QED
      BY <1>1, <1>2, <2>1, <3>1, <3>2
  <2>2. CASE i = n + 1
    <3>1. p[i] = e /\ s # 0 /\ e.resp = s /\ st[s] > 0
      BY <1>1, <1>3, <2>2
    <3>2. Told(q, n + 1, s, a)
      BY <3>1 DEF Heard, n
    <3>3. QED
      BY <1>1, <1>2, <2>2, <3>1, <3>2
  <2>3. QED
    BY <1>1, <2>1, <2>2
<1>4. ASSUME s2 # 0, st2[s2] > 0 PROVE Told(p, Len(p) + 1, s2, a)
  <2>1. CASE IsDelta(e, s2)
    BY <1>1, <2>1 DEF Told
  <2>2. CASE e.type # "done" /\ s2 = s /\ st2[s] = st[s]
    <3>1. Told(q, n + 1, s, a)
      BY <1>4, <2>2 DEF Heard, n
    <3>2. CASE \E j \in 1..Len(q) : j < n + 1 /\ IsDelta(q[j], s)
      BY <1>1, <2>2, <3>2 DEF Told, n
    <3>3. CASE a > 0 /\ \A j \in 1..Len(q) : j < n + 1 => q[j].type # "done"
      <4>1. \A j \in 1..Len(p) : p[j].type # "done"
        BY <1>1, <2>2, <3>3 DEF n
      <4>2. QED
        BY <3>3, <4>1 DEF Told
    <3>4. QED
      BY <3>1, <3>2, <3>3 DEF Told
  <2>3. QED
    BY <1>4, <2>1, <2>2
<1>5. QED
  BY <1>3, <1>4 DEF Heard, p

\* Responses whose end is not read yet, and the last whose end is.
Undone(q, s, r) == r = s \/ Ends(q, r)
LastDone(q, c, s, r) == ~Undone(q, s, r) /\ \A n \in (r + 1)..c : Undone(q, s, n)
EndsInTurn(q, c, s) == \A r \in 1..c : \A n \in r..c : Undone(q, s, r) => Undone(q, s, n)
LastSilent(q, c, s, st) == \A r \in 1..c : LastDone(q, c, s, r) => st[r] = 0

\* With a deltas counted, b responses without audio counted and m links lost.
CountsRightly(q, c, s, st, a, b, m) ==
  /\ InOrder(q, c, s) /\ Heard(q, s, st, a)
  /\ \A r \in Responses : r > c => st[r] = 0
  /\ m = 0 => EndsInTurn(q, c, s)
  /\ b > 0 => c >= 1 /\ ~Undone(q, s, 1) /\ (m = 0 => LastSilent(q, c, s, st))

LEMMA SameEnds ==
  ASSUME NEW q, NEW q2, NEW s, NEW s2, NEW st, NEW st2, NEW c \in Nat, NEW a, NEW a2, NEW b,
         NEW m, CountsRightly(q, c, s, st, a, b, m), InOrder(q2, c, s2), Heard(q2, s2, st2, a2),
         \A r \in 1..c : Undone(q2, s2, r) <=> Undone(q, s, r),
         \A r \in Responses : Undone(q, s, r) \/ st2[r] = st[r],
         \A r \in Responses : r > c => st2[r] = 0, c <= MaxResponses
  PROVE  CountsRightly(q2, c, s2, st2, a2, b, m)
<1>1. \A r \in 1..c : \A n \in r..c : n \in 1..c
  OBVIOUS
<1>2. \A r \in 1..c : \A n \in (r + 1)..c : n \in 1..c
  OBVIOUS
<1>3. m = 0 => EndsInTurn(q2, c, s2)
  BY <1>1 DEF EndsInTurn, CountsRightly
<1>4. \A r \in 1..c : LastDone(q2, c, s2, r) => LastDone(q, c, s, r)
  BY <1>2 DEF LastDone
<1>5. \A r \in 1..c : LastDone(q, c, s, r) => st2[r] = st[r]
  BY DEF LastDone, Responses
<1>6. LastSilent(q, c, s, st) => LastSilent(q2, c, s2, st2)
  BY <1>4, <1>5 DEF LastSilent
<1>7. b > 0 => c >= 1 /\ ~Undone(q2, s2, 1)
  BY DEF CountsRightly
<1>8. QED
  BY <1>3, <1>6, <1>7 DEF CountsRightly

LEMMA SameEndsBehind ==
  ASSUME NEW q \in Seq(Events), q # <<>>, NEW c \in Nat, NEW s \in Nat, InOrder(q, c, s),
         Head(q).type # "done", NEW r
  PROVE  Undone(Tail(q), s, r) <=> Undone(q, s, r)
<1>1. Ends(Tail(q), r) <=> Ends(q, r) /\ ~IsDone(Head(q), r)
  BY TakenInOrder
<1>2. QED
  BY <1>1 DEF Undone, IsDone

LEMMA CountsAfterOther ==
  ASSUME NEW q \in Seq(Events), q # <<>>, NEW c \in Nat, c <= MaxResponses, NEW s \in Nat,
         NEW st, NEW a \in Nat, NEW b, NEW m, CountsRightly(q, c, s, st, a, b, m),
         Head(q).type \notin {"delta", "done"}
  PROVE  CountsRightly(Tail(q), c, s, st, a, b, m)
<1>1. InOrder(q, c, s) /\ Heard(q, s, st, a) /\ \A r \in Responses : r > c => st[r] = 0
  BY DEF CountsRightly
<1>2. InOrder(Tail(q), c, s) /\ Heard(Tail(q), s, st, a)
  BY <1>1, TakenInOrder, HeardAfterOther
<1>3. \A r \in 1..c : Undone(Tail(q), s, r) <=> Undone(q, s, r)
  BY <1>1, SameEndsBehind
<1>4. QED
  BY <1>1, <1>2, <1>3, SameEnds

LEMMA CountsAfterDelta ==
  ASSUME NEW q \in Seq(Events), q # <<>>, NEW c \in Nat, c <= MaxResponses, NEW s \in Nat,
         NEW st, NEW a \in Nat, NEW b, NEW m, CountsRightly(q, c, s, st, a, b, m),
         Head(q).type = "delta"
  PROVE  CountsRightly(Tail(q), c, s, st, a + 1, b, m)
<1>1. InOrder(q, c, s) /\ Heard(q, s, st, a) /\ \A r \in Responses : r > c => st[r] = 0
  BY DEF CountsRightly
<1>2. InOrder(Tail(q), c, s) /\ Heard(Tail(q), s, st, a + 1)
  BY <1>1, TakenInOrder, HeardAfterDelta
<1>3. \A r \in 1..c : Undone(Tail(q), s, r) <=> Undone(q, s, r)
  BY <1>1, SameEndsBehind
<1>4. QED
  BY <1>1, <1>2, <1>3, SameEnds

\* The end that is read next is that of the first response not read to its end.
LEMMA FirstUndone ==
  ASSUME NEW q \in Seq(Events), q # <<>>, NEW c \in Nat, NEW s \in Nat, InOrder(q, c, s),
         Head(q).type = "done", NEW r \in Nat, r # 0, Undone(q, s, r)
  PROVE  /\ Head(q).resp \in 1..c /\ Head(q).resp # s /\ Undone(q, s, Head(q).resp)
         /\ Head(q).resp <= r
<1>1. /\ 1 \in 1..Len(q) /\ Head(q) = q[1] /\ Head(q) \in Events /\ Len(q) \in Nat
  BY Behind
<1>2. OfResponse(q[1]) /\ q[1].resp \in Responses /\ q[1].resp \in Int /\ q[1].resp <= c
  BY <1>1, EventTyped DEF InOrder, OfResponse
<1>3. Head(q).resp \in 1..c
  BY <1>1, <1>2 DEF Responses
<1>4. Ends(q, Head(q).resp)
  BY <1>1 DEF Ends, IsDone
<1>5. Head(q).resp # s
  BY <1>3, <1>4 DEF InOrder
<1>6. Head(q).resp <= r
  <2>1. CASE r = s
    BY <1>3, <2>1 DEF InOrder
  <2>2. CASE Ends(q, r)
    <3>1. PICK i \in 1..Len(q) : IsDone(q[i], r)
      BY <2>2 DEF Ends
    <3>2. CASE i = 1
      BY <1>1, <1>2, <3>1, <3>2 DEF IsDone
    <3>3. CASE i # 1
      <4>1. 1 < i /\ OfResponse(q[i]) /\ q[i].resp = r
        BY <1>1, <3>1, <3>3 DEF IsDone, OfResponse
      <4>2. QED
        BY <1>1, <1>2, <4>1 DEF InOrder, Ordered
    <3>4. QED
      BY <3>2, <3>3
  <2>3. QED
    BY <2>1, <2>2 DEF Undone
<1>7. QED
  BY <1>3, <1>4, <1>5, <1>6 DEF Undone

\* The end of a response is read: it is the last one done now, and counts as silent
\* only if it was.
LEMMA CountsAfterDone ==
  ASSUME NEW q \in Seq(Events), q # <<>>, NEW c \in Nat, c <= MaxResponses, NEW s \in Nat,
         NEW st \in [Responses -> Nat], NEW a \in Nat, NEW a2 \in Nat, NEW b, NEW b2, NEW m,
         CountsRightly(q, c, s, st, a, b, m), Head(q).type = "done", b2 > 0 => a = 0
  PROVE  CountsRightly(Tail(q), c, s, st, a2, b2, m)
<1> DEFINE p == Tail(q)
           r0 == Head(q).resp
<1>1. InOrder(q, c, s) /\ Heard(q, s, st, a)
  BY DEF CountsRightly
<1>2. InOrder(p, c, s) /\ Heard(p, s, st, a2) /\ (st[r0] > 0 => a > 0)
  BY <1>1, TakenInOrder, HeardAfterDone
<1>3. /\ r0 \in 1..c /\ r0 # s /\ Undone(q, s, r0)
      /\ \A r \in 1..c : Undone(q, s, r) => r0 <= r
  <2>1. 1 \in 1..Len(q) /\ Head(q) = q[1] /\ Head(q) \in Events
    BY Behind
  <2>2. Undone(q, s, r0) /\ r0 \in Nat /\ r0 # 0
    BY <2>1, EventTyped DEF Undone, Ends, IsDone, OfResponse, Responses
  <2>3. QED
    BY <1>1, <2>2, FirstUndone
<1>4. \A r \in 1..c : Undone(p, s, r) <=> Undone(q, s, r) /\ r # r0
  <2>1. \A r : Ends(p, r) <=> Ends(q, r) /\ ~IsDone(Head(q), r)
    BY <1>1, TakenInOrder
  <2>2. QED
    BY <1>3, <2>1 DEF Undone, IsDone
<1> HIDE DEF p, r0
<1>5. ASSUME m = 0 PROVE EndsInTurn(p, c, s)
  <2> SUFFICES ASSUME NEW r \in 1..c, NEW n \in r..c, Undone(p, s, r) PROVE Undone(p, s, n)
    BY DEF EndsInTurn
  <2>1. Undone(q, s, r) /\ r # r0 /\ n \in 1..c
    BY <1>4
  <2>2. Undone(q, s, n)
    BY <1>5, <2>1 DEF CountsRightly, EndsInTurn
  <2>3. n # r0
    BY <1>3, <2>1
  <2>4. QED
    BY <1>4, <2>1, <2>2, <2>3
<1>6. ASSUME b2 > 0 PROVE c >= 1 /\ ~Undone(p, s, 1)
  BY <1>3, <1>4
<1>7. ASSUME b2 > 0, m = 0 PROVE LastSilent(p, c, s, st)
  <2> SUFFICES ASSUME NEW r \in 1..c, LastDone(p, c, s, r) PROVE st[r] = 0
    BY DEF LastSilent
  <2>1. CASE r = r0
    <3>1. st[r0] \in Nat
      BY <1>3 DEF Responses
    <3>2. QED
      BY <1>2, <1>7, <2>1, <3>1
  <2>2. CASE r < r0
    <3>1. r0 \in (r + 1)..c
      BY <1>3, <2>2
    <3>2. QED
      BY <1>3, <1>4, <3>1 DEF LastDone
  <2>3. CASE r > r0
    <3>1. r \in r0..c
      BY <1>3, <2>3
    <3>2. Undone(q, s, r)
      BY <1>3, <1>7, <3>1 DEF CountsRightly, EndsInTurn
    <3>3. QED
      BY <1>3, <1>4, <2>3, <3>2 DEF LastDone
  <2>4. QED
    BY <1>3, <2>1, <2>2, <2>3
<1>8. QED
  BY <1>2, <1>5, <1>6, <1>7 DEF CountsRightly, p

\* A link is lost, or a conversation starts: nothing is generated any more, and
\* what is still on its way is a first part of what was.
LEMMA CountsWhenCut ==
  ASSUME NEW q \in Seq(Events), NEW n \in 0..Len(q), NEW c \in Nat, NEW s \in Nat, NEW st,
         NEW a \in Nat, NEW b \in Nat, NEW b2 \in Nat, NEW m \in Nat, NEW m2 \in Nat,
         CountsRightly(q, c, s, st, a, b, m), b2 > 0 => b > 0, m2 > 0
  PROVE  CountsRightly(SubSeq(q, 1, n), c, 0, st, a, b2, m2)
<1> DEFINE p == SubSeq(q, 1, n)
<1>1. /\ InOrder(p, c, 0) /\ Heard(p, 0, st, a) /\ \A r : Ends(p, r) => Ends(q, r)
  BY CutShort DEF CountsRightly
<1> HIDE DEF p
<1>2. ~Undone(q, s, 1) => ~Undone(p, 0, 1)
  BY <1>1 DEF Undone
<1>3. QED
  BY <1>1, <1>2 DEF CountsRightly, p

LEMMA CountsWhenLost ==
  ASSUME NEW q, NEW c \in Nat, NEW s, NEW st, NEW a \in Nat, NEW b \in Nat,
         NEW m, NEW m2 \in Nat, CountsRightly(q, c, s, st, a, b, m), m2 > 0
  PROVE  CountsRightly(<<>>, c, 0, st, a, b, m2)
<1>1. InOrder(<<>>, c, 0) /\ Heard(<<>>, 0, st, a) /\ \A r : ~Ends(<<>>, r)
  BY NothingOnItsWay
<1>2. ~Undone(<<>>, 0, 1)
  BY <1>1 DEF Undone
<1>3. QED
  BY <1>1, <1>2 DEF CountsRightly

\* An event of no response is sent, or a tool call.
LEMMA CountsWhenOtherSent ==
  ASSUME NEW q \in Seq(Events), NEW e \in Events, NEW c \in Nat, c <= MaxResponses,
         NEW s \in Nat, NEW st, NEW a \in Nat, NEW b, NEW m, CountsRightly(q, c, s, st, a, b, m),
         e.type \notin {"created", "delta", "done"},
         e.type = "call" => s # 0 /\ e.resp = s
  PROVE  CountsRightly(Append(q, e), c, s, st, a, b, m)
<1>1. InOrder(q, c, s) /\ Heard(q, s, st, a) /\ \A r \in Responses : r > c => st[r] = 0
  BY DEF CountsRightly
<1>2. OfResponse(e) => s # 0 /\ e.resp = s /\ e.resp <= c
  BY <1>1 DEF OfResponse, InOrder
<1>3. \A r : ~IsDone(e, r)
  BY DEF IsDone
<1>4. /\ InOrder(Append(q, e), c, s)
      /\ \A r : Ends(Append(q, e), r) <=> Ends(q, r) \/ IsDone(e, r)
  <2>1. s # 0 => s = c
    BY <1>1 DEF InOrder
  <2>2. QED
    BY <1>1, <1>2, <1>3, <2>1, SentInOrder
<1>5. Heard(Append(q, e), s, st, a)
  BY <1>1, SentHeard
<1>6. \A r \in 1..c : Undone(Append(q, e), s, r) <=> Undone(q, s, r)
  BY <1>3, <1>4 DEF Undone
<1>7. QED
  BY <1>1, <1>4, <1>5, <1>6, SameEnds

LEMMA CountsWhenDeltaSent ==
  ASSUME NEW q \in Seq(Events), NEW e \in Events, NEW c \in Nat, c <= MaxResponses,
         NEW s \in Nat, NEW st \in [Responses -> Nat], NEW a \in Nat, NEW b, NEW m,
         CountsRightly(q, c, s, st, a, b, m), e.type = "delta", s # 0, e.resp = s
  PROVE  CountsRightly(Append(q, e), c, s, [st EXCEPT ![s] = @ + 1], a, b, m)
<1> DEFINE st2 == [st EXCEPT ![s] = @ + 1]
<1>1. InOrder(q, c, s) /\ Heard(q, s, st, a) /\ \A r \in Responses : r > c => st[r] = 0
  BY DEF CountsRightly
<1>2. s = c /\ ~Ends(q, s) /\ s \in Responses
  BY <1>1 DEF InOrder, Responses
<1>3. \A r \in Responses : r # s => st2[r] = st[r]
  OBVIOUS
<1>4. \A r : ~IsDone(e, r)
  BY DEF IsDone
<1>5. IsDelta(e, s)
  BY DEF IsDelta
<1>6. \A r : Ends(q, r) => st2[r] = st[r]
  <2> SUFFICES ASSUME NEW r, Ends(q, r) PROVE st2[r] = st[r]
    OBVIOUS
  <2>1. PICK i \in 1..Len(q) : IsDone(q[i], r)
    BY DEF Ends
  <2>2. q[i] \in Events
    OBVIOUS
  <2>3. r \in Responses
    BY <2>1, <2>2, EventTyped DEF IsDone, OfResponse
  <2>4. QED
    BY <1>2, <1>3, <2>3
<1> HIDE DEF st2
<1>7. /\ InOrder(Append(q, e), c, s)
      /\ \A r : Ends(Append(q, e), r) <=> Ends(q, r) \/ IsDone(e, r)
  BY <1>1, <1>2, <1>4, SentInOrder
<1>8. Heard(Append(q, e), s, st2, a)
  BY <1>1, <1>5, <1>6, SentHeard
<1>9. \A r \in 1..c : Undone(Append(q, e), s, r) <=> Undone(q, s, r)
  BY <1>4, <1>7 DEF Undone
<1>10. \A r \in Responses : Undone(q, s, r) \/ st2[r] = st[r]
  BY <1>3 DEF Undone
<1>11. \A r \in Responses : r > c => st2[r] = 0
  BY <1>1, <1>2, <1>3
<1>12. CountsRightly(Append(q, e), c, s, st2, a, b, m)
  BY <1>7, <1>8, <1>9, <1>10, <1>11, SameEnds
<1>13. QED
  BY <1>12 DEF st2

LEMMA CountsWhenDoneSent ==
  ASSUME NEW q \in Seq(Events), NEW e \in Events, NEW c \in Nat, c <= MaxResponses,
         NEW s \in Nat, NEW st, NEW a \in Nat, NEW b, NEW m,
         CountsRightly(q, c, s, st, a, b, m), e.type = "done", s # 0, e.resp = s
  PROVE  CountsRightly(Append(q, e), c, 0, st, a, b, m)
<1>1. InOrder(q, c, s) /\ Heard(q, s, st, a) /\ \A r \in Responses : r > c => st[r] = 0
  BY DEF CountsRightly
<1>2. s = c
  BY <1>1 DEF InOrder
<1>3. /\ InOrder(Append(q, e), c, 0)
      /\ \A r : Ends(Append(q, e), r) <=> Ends(q, r) \/ IsDone(e, r)
  <2>1. 0 \in Nat /\ c >= s
    BY <1>2
  <2>2. QED
    BY <1>1, <1>2, <2>1, SentInOrder
<1>4. Heard(Append(q, e), 0, st, a)
  BY <1>1, SentHeard
<1>5. \A r \in 1..c : Undone(Append(q, e), 0, r) <=> Undone(q, s, r)
  BY <1>3 DEF Undone, IsDone
<1>6. QED
  BY <1>1, <1>3, <1>4, <1>5, SameEnds

\* The next response is begun, and announced.
LEMMA CountsWhenCreatedSent ==
  ASSUME NEW q \in Seq(Events), NEW e \in Events, NEW c \in Nat, c < MaxResponses,
         NEW st \in [Responses -> Nat], NEW a \in Nat, NEW b, NEW m,
         CountsRightly(q, c, 0, st, a, b, m), e.type = "created", e.resp = c + 1
  PROVE  CountsRightly(Append(q, e), c + 1, c + 1, st, a, b, m)
<1> DEFINE d == c + 1
           p == Append(q, e)
<1>1. InOrder(q, c, 0) /\ Heard(q, 0, st, a) /\ \A r \in Responses : r > c => st[r] = 0
  BY DEF CountsRightly
<1>2. d \in Nat /\ d # 0 /\ d > c /\ d \in Responses /\ st[d] = 0
  BY <1>1 DEF Responses
<1>3. \A r : ~IsDone(e, r)
  BY DEF IsDone
<1>4. e.resp = d /\ c <= d
  OBVIOUS
<1>5. /\ InOrder(p, d, d) /\ \A r : Ends(p, r) <=> Ends(q, r) \/ IsDone(e, r)
  BY <1>1, <1>2, <1>3, <1>4, SentInOrder
<1>6. Heard(p, d, st, a)
  BY <1>1, <1>2, SentHeard
<1>7. \A r : Undone(p, d, r) <=> (r = d \/ Ends(q, r))
  BY <1>3, <1>5 DEF Undone
<1>8. \A r \in 1..d : r \in 1..c \/ r = d
  OBVIOUS
<1> HIDE DEF p, d
<1>9. \A r \in 1..c : Undone(p, d, r) <=> Undone(q, 0, r)
  BY <1>2, <1>7 DEF Undone
<1>10. ASSUME m = 0 PROVE EndsInTurn(p, d, d)
  <2> SUFFICES ASSUME NEW r \in 1..d, NEW n \in r..d, Undone(p, d, r) PROVE Undone(p, d, n)
    BY DEF EndsInTurn
  <2>1. CASE n = d
    BY <1>7, <2>1
  <2>2. CASE n # d
    <3>1. r \in 1..c /\ n \in r..c /\ n \in 1..c
      BY <2>2 DEF d
    <3>2. QED
      BY <1>9, <1>10, <3>1 DEF CountsRightly, EndsInTurn
  <2>3. QED
    BY <2>1, <2>2
<1>11. ASSUME b > 0 PROVE d >= 1 /\ ~Undone(p, d, 1)
  <2>1. c >= 1 /\ ~Undone(q, 0, 1) /\ 1 \in 1..c
    BY <1>11 DEF CountsRightly
  <2>2. QED
    BY <1>2, <1>9, <2>1
<1>12. ASSUME b > 0, m = 0 PROVE LastSilent(p, d, d, st)
  <2> SUFFICES ASSUME NEW r \in 1..d, LastDone(p, d, d, r) PROVE st[r] = 0
    BY DEF LastSilent
  <2>1. r # d /\ r \in 1..c
    BY <1>7, <1>8 DEF LastDone
  <2>2. \A n \in (r + 1)..c : n \in (r + 1)..d /\ n \in 1..c
    BY DEF d
  <2>3. LastDone(q, c, 0, r)
    BY <1>9, <2>1, <2>2 DEF LastDone
  <2>4. QED
    BY <1>12, <2>1, <2>3 DEF CountsRightly, LastSilent
<1>13. \A r \in Responses : r > d => st[r] = 0
  BY <1>1 DEF d, Responses
<1>14. CountsRightly(p, d, d, st, a, b, m)
  BY <1>5, <1>6, <1>10, <1>11, <1>12, <1>13 DEF CountsRightly
<1>15. QED
  BY <1>14 DEF p, d

EscapeInv ==
  /\ CountsRightly(inbox, created, serving, sent, audioChunks, stillborns, relinks)
  /\ ~linked => relinks > 0 /\ serving = 0

LEMMA CountedTyped ==
  ASSUME TypeOK
  PROVE  /\ inbox \in Seq(Events) /\ created \in Nat /\ created <= MaxResponses /\ serving \in Nat
         /\ sent \in [Responses -> Nat] /\ audioChunks \in Nat /\ stillborns \in Nat
         /\ relinks \in Nat /\ relinks + 1 > 0
BY DEF TypeOK, QueuesTyped, ServerTyped, StateTyped

LEMMA CountsAtInit == Init => EscapeInv
<1> SUFFICES ASSUME Init PROVE EscapeInv
  OBVIOUS
<1>1. /\ inbox = <<>> /\ created = 0 /\ serving = 0 /\ audioChunks = 0 /\ stillborns = 0
      /\ sent = [r \in Responses |-> 0] /\ linked
  BY DEF Init
<1>2. InOrder(<<>>, 0, 0) /\ Heard(<<>>, 0, sent, 0)
  BY NothingOnItsWay
<1>3. \A r \in Responses : sent[r] = 0
  BY <1>1
<1>4. EndsInTurn(<<>>, 0, 0)
  BY DEF EndsInTurn
<1>5. QED
  BY <1>1, <1>2, <1>3, <1>4 DEF EscapeInv, CountsRightly

LEMMA CountsOnRead ==
  ASSUME TypeOK, EscapeInv, HandleEvent
  PROVE  EscapeInv'
<1>1. /\ inbox # <<>> /\ inbox' = Tail(inbox)
      /\ UNCHANGED <<created, serving, sent, linked, relinks>>
  BY DEF HandleEvent, HandleCreated, HandleSpeechStarted, HandleSpeechStopped,
         HandleCommitted, HandleTranscript, HandleAudioDelta, HandleToolCall,
         HandleDoneChatter, HandleDone, Receive, serverVars, roomVars, linkVars
<1>2. CASE Head(inbox).type \notin {"delta", "done"}
  <2>1. audioChunks' = audioChunks /\ stillborns' = stillborns
    BY <1>2 DEF HandleEvent, HandleCreated, HandleSpeechStarted, HandleSpeechStopped,
         HandleCommitted, HandleTranscript, HandleAudioDelta, HandleToolCall,
         HandleDoneChatter, HandleDone, Receive, respVars
  <2>2. CountsRightly(Tail(inbox), created, serving, sent, audioChunks, stillborns, relinks)
    BY <1>1, <1>2, CountedTyped, CountsAfterOther DEF EscapeInv
  <2>3. QED
    BY <1>1, <2>1, <2>2 DEF EscapeInv
<1>3. CASE Head(inbox).type = "delta"
  <2>1. audioChunks' = audioChunks + 1 /\ stillborns' = stillborns
    BY <1>3 DEF HandleEvent, HandleCreated, HandleSpeechStarted, HandleSpeechStopped,
         HandleCommitted, HandleTranscript, HandleAudioDelta, HandleToolCall,
         HandleDoneChatter, HandleDone, Receive
  <2>2. CountsRightly(Tail(inbox), created, serving, sent, audioChunks + 1, stillborns, relinks)
    BY <1>1, <1>3, CountedTyped, CountsAfterDelta DEF EscapeInv
  <2>3. QED
    BY <1>1, <2>1, <2>2 DEF EscapeInv
<1>4. CASE Head(inbox).type = "done"
  <2>1. /\ audioChunks' \in Nat
        /\ stillborns' > 0 => audioChunks = 0
    <3>1. HandleDoneChatter \/ HandleDone
      BY <1>4 DEF HandleEvent, HandleCreated, HandleSpeechStarted, HandleSpeechStopped,
           HandleCommitted, HandleTranscript, HandleAudioDelta, HandleToolCall, Receive
    <3>2. QED
      BY <3>1, CountedTyped DEF HandleDoneChatter, HandleDone, StillbornsAfterDone
  <2>2. PICK a2 \in Nat : a2 = audioChunks'
    BY <2>1
  <2>3. PICK b2 : b2 = stillborns'
    OBVIOUS
  <2>4. CountsRightly(Tail(inbox), created, serving, sent, a2, b2, relinks)
    BY <1>1, <1>4, <2>1, <2>2, <2>3, CountedTyped, CountsAfterDone DEF EscapeInv
  <2>5. QED
    BY <1>1, <2>2, <2>3, <2>4 DEF EscapeInv
<1>5. QED
  BY <1>2, <1>3, <1>4

LEMMA CountsOverLinks ==
  ASSUME TypeOK, EscapeInv, LinkFails \/ Start \/ Opens
  PROVE  EscapeInv'
<1>1. CASE LinkFails
  <2>1. /\ relinks' = relinks + 1 /\ serving' = 0 /\ inbox' = <<>>
        /\ UNCHANGED <<created, sent, audioChunks, stillborns>>
    BY <1>1 DEF LinkFails, LeavesServer, respVars
  <2>2. relinks + 1 \in Nat
    BY CountedTyped
  <2>3. CountsRightly(<<>>, created, 0, sent, audioChunks, stillborns, relinks + 1)
    BY <2>2, CountedTyped, CountsWhenLost DEF EscapeInv
  <2>4. QED
    BY <2>1, <2>3, CountedTyped DEF EscapeInv
<1>2. CASE Start
  <2>1. /\ relinks' = relinks + 1 /\ serving' = 0 /\ stillborns' = 0
        /\ UNCHANGED <<created, sent, audioChunks>>
    BY <1>2 DEF Start, LeavesServer
  <2>2. PICK n \in 0..Len(inbox) : inbox' = SubSeq(inbox, 1, n)
    BY <1>2 DEF Start
  <2>3. relinks + 1 \in Nat /\ ~(0 > 0)
    BY CountedTyped
  <2>4. CountsRightly(SubSeq(inbox, 1, n), created, 0, sent, audioChunks, 0, relinks + 1)
    BY <2>3, CountedTyped, CountsWhenCut DEF EscapeInv
  <2>5. QED
    BY <2>1, <2>2, <2>4, CountedTyped DEF EscapeInv
<1>3. CASE Opens
  <2>1. /\ ~linked /\ linked' = TRUE /\ inbox' = <<>>
        /\ UNCHANGED <<created, serving, sent, audioChunks, stillborns, relinks>>
    BY <1>3 DEF Opens, serverVars, respVars
  <2>2. relinks > 0 /\ serving = 0
    BY <2>1 DEF EscapeInv
  <2>3. CountsRightly(<<>>, created, 0, sent, audioChunks, stillborns, relinks)
    BY <2>2, CountedTyped, CountsWhenLost DEF EscapeInv
  <2>4. QED
    BY <2>1, <2>2, <2>3 DEF EscapeInv
<1>4. QED
  BY <1>1, <1>2, <1>3

\* What the app counts is its own; the server and the room only send.
LEMMA SentByOthers ==
  ASSUME Environment
  PROVE  UNCHANGED <<audioChunks, stillborns, linked, relinks>> /\ linked
BY DEF Environment, ServerTakesCreate, ServerTakesCancel, ServerSendsDelta, ServerCallsTool,
       ServerFinishes, SomeoneSpeaks, SomeonePauses, ServerTranscribes, appVars, respVars,
       roomVars, linkVars

LEMMA CountsWhileGenerating ==
  ASSUME TypeOK, EscapeInv,
         ServerTakesCreate \/ ServerTakesCancel \/ ServerSendsDelta \/ ServerFinishes
  PROVE  EscapeInv'
<1>0. UNCHANGED <<audioChunks, stillborns, linked, relinks>> /\ linked
  BY SentByOthers DEF Environment
<1>1. CASE ServerTakesCreate
  <2>1. CASE serving = 0 /\ created < MaxResponses
    <3> DEFINE e == [type |-> "created", resp |-> created + 1]
    <3>1. /\ inbox' = inbox \o <<e>> /\ serving' = created + 1 /\ created' = created + 1
          /\ sent' = sent
      BY <1>1, <2>1 DEF ServerTakesCreate, Deliver
    <3>2. e \in Events /\ e.type = "created" /\ e.resp = created + 1
      BY <2>1, CountedTyped DEF Events, Responses
    <3> HIDE DEF e
    <3>3. inbox' = Append(inbox, e)
      BY <3>1, <3>2, CountedTyped
    <3>4. CountsRightly(Append(inbox, e), created + 1, created + 1, sent, audioChunks,
                        stillborns, relinks)
      BY <2>1, <3>2, CountedTyped, CountsWhenCreatedSent DEF EscapeInv
    <3>5. QED
      BY <1>0, <3>1, <3>3, <3>4 DEF EscapeInv
  <2>2. CASE ~(serving = 0 /\ created < MaxResponses)
    <3>1. UNCHANGED <<inbox, serving, created, sent>>
      BY <1>1, <2>2 DEF ServerTakesCreate
    <3>2. QED
      BY <1>0, <3>1 DEF EscapeInv
  <2>3. QED
    BY <2>1, <2>2
<1>2. CASE (ServerTakesCancel /\ serving # 0) \/ ServerFinishes
  <2> DEFINE e == [type |-> "done", resp |-> serving]
  <2>1. /\ inbox' = inbox \o <<e>> /\ serving # 0 /\ serving' = 0
        /\ UNCHANGED <<created, sent>>
    BY <1>2 DEF ServerTakesCancel, ServerFinishes, Deliver
  <2>2. e \in Events /\ e.type = "done" /\ e.resp = serving
    <3>1. serving \in Responses
      BY <2>1, CountedTyped DEF EscapeInv, CountsRightly, InOrder, Responses
    <3>2. QED
      BY <3>1 DEF Events
  <2> HIDE DEF e
  <2>3. inbox' = Append(inbox, e)
    BY <2>1, <2>2, CountedTyped
  <2>4. CountsRightly(Append(inbox, e), created, 0, sent, audioChunks, stillborns, relinks)
    BY <2>1, <2>2, CountedTyped, CountsWhenDoneSent DEF EscapeInv
  <2>5. QED
    BY <1>0, <2>1, <2>3, <2>4 DEF EscapeInv
<1>3. CASE ServerTakesCancel /\ serving = 0
  <2>1. UNCHANGED <<inbox, serving, created, sent>>
    BY <1>3 DEF ServerTakesCancel
  <2>2. QED
    BY <1>0, <2>1 DEF EscapeInv
<1>4. CASE ServerSendsDelta
  <2> DEFINE e == [type |-> "delta", resp |-> serving]
  <2>1. /\ inbox' = inbox \o <<e>> /\ serving # 0 /\ sent' = [sent EXCEPT ![serving] = @ + 1]
        /\ UNCHANGED <<created, serving>>
    BY <1>4 DEF ServerSendsDelta, Deliver
  <2>2. e \in Events /\ e.type = "delta" /\ e.resp = serving
    <3>1. serving \in Responses
      BY <2>1, CountedTyped DEF EscapeInv, CountsRightly, InOrder, Responses
    <3>2. QED
      BY <3>1 DEF Events
  <2> HIDE DEF e
  <2>3. inbox' = Append(inbox, e)
    BY <2>1, <2>2, CountedTyped
  <2>4. CountsRightly(Append(inbox, e), created, serving, [sent EXCEPT ![serving] = @ + 1],
                      audioChunks, stillborns, relinks)
    BY <2>1, <2>2, CountedTyped, CountsWhenDeltaSent DEF EscapeInv
  <2>5. QED
    BY <1>0, <2>1, <2>3, <2>4 DEF EscapeInv
<1>5. QED
  BY <1>1, <1>2, <1>3, <1>4

LEMMA CountsWhileTalking ==
  ASSUME TypeOK, EscapeInv,
         ServerCallsTool \/ SomeoneSpeaks \/ SomeonePauses \/ ServerTranscribes
  PROVE  EscapeInv'
<1>0. UNCHANGED <<audioChunks, stillborns, linked, relinks>> /\ linked
  BY SentByOthers DEF Environment
<1>1. UNCHANGED <<serving, created, sent>>
  BY DEF ServerCallsTool, SomeoneSpeaks, SomeonePauses, ServerTranscribes, serverVars
<1>2. ASSUME NEW e \in Events, e.type \notin {"created", "delta", "done"},
             e.type = "call" => serving # 0 /\ e.resp = serving, inbox' = inbox \o <<e>>
      PROVE  EscapeInv'
  <2>1. inbox' = Append(inbox, e)
    BY <1>2, CountedTyped
  <2>2. CountsRightly(Append(inbox, e), created, serving, sent, audioChunks, stillborns, relinks)
    BY <1>2, CountedTyped, CountsWhenOtherSent DEF EscapeInv
  <2>3. QED
    BY <1>0, <1>1, <2>1, <2>2 DEF EscapeInv
<1>3. CASE ServerCallsTool
  <2>1. PICK tool \in Tools : inbox' = inbox \o <<[type |-> "call", resp |-> serving, tool |-> tool]>>
    BY <1>3 DEF ServerCallsTool, Deliver
  <2>2. serving # 0
    BY <1>3 DEF ServerCallsTool
  <2>3. serving \in Responses
    BY <2>2, CountedTyped DEF EscapeInv, CountsRightly, InOrder, Responses
  <2>4. [type |-> "call", resp |-> serving, tool |-> tool] \in Events
    BY <2>3 DEF Events
  <2>5. QED
    BY <1>2, <2>1, <2>2, <2>4
<1>4. CASE SomeoneSpeaks
  <2>1. inbox' = inbox \o <<[type |-> "started", turn |-> spoken + 1]>>
    BY <1>4 DEF SomeoneSpeaks, Deliver
  <2>2. [type |-> "started", turn |-> spoken + 1] \in Events
    BY <1>4 DEF SomeoneSpeaks, Events, Turns, TypeOK, ServerTyped
  <2>3. QED
    BY <1>2, <2>1, <2>2
<1>5. CASE SomeonePauses
  <2> DEFINE e1 == [type |-> "stopped", turn |-> spoken]
             e2 == [type |-> "committed", turn |-> spoken]
  <2>1. inbox' = inbox \o <<e1, e2>>
    BY <1>5 DEF SomeonePauses, Deliver
  <2>2. spoken \in Turns
    BY <1>5 DEF SomeonePauses, TypeOK, ServerTyped, Turns
  <2>3. e1 \in Events /\ e2 \in Events /\ e1.type = "stopped" /\ e2.type = "committed"
    BY <2>2 DEF Events
  <2> HIDE DEF e1, e2
  <2>4. inbox' = Append(Append(inbox, e1), e2) /\ Append(inbox, e1) \in Seq(Events)
    BY <2>1, <2>3, CountedTyped
  <2>5. CountsRightly(Append(inbox, e1), created, serving, sent, audioChunks, stillborns, relinks)
    BY <2>3, CountedTyped, CountsWhenOtherSent DEF EscapeInv
  <2>6. CountsRightly(Append(Append(inbox, e1), e2), created, serving, sent, audioChunks,
                      stillborns, relinks)
    BY <2>3, <2>4, <2>5, CountedTyped, CountsWhenOtherSent
  <2>7. QED
    BY <1>0, <1>1, <2>4, <2>6 DEF EscapeInv
<1>6. CASE ServerTranscribes
  <2>1. PICK t \in untold : \E text \in Texts :
          inbox' = inbox \o <<[type |-> "transcript", turn |-> t, text |-> text]>>
    BY <1>6 DEF ServerTranscribes, Deliver
  <2>2. PICK text \in Texts :
          inbox' = inbox \o <<[type |-> "transcript", turn |-> t, text |-> text]>>
    BY <2>1
  <2>3. t \in Turns
    BY DEF TypeOK, ServerTyped
  <2>4. [type |-> "transcript", turn |-> t, text |-> text] \in Events
    BY <2>3 DEF Events
  <2>5. QED
    BY <1>2, <2>2, <2>4
<1>7. QED
  BY <1>3, <1>4, <1>5, <1>6

LEMMA CountsMeanwhile ==
  ASSUME EscapeInv,
         \/ MainTask \/ EndSession \/ Interrupt \/ TimerDue \/ PlayChunk \/ SpeakerStarves
         \/ Watcher \/ SlowToolReturns \/ UNCHANGED vars
  PROVE  EscapeInv'
<1>1. UNCHANGED <<inbox, serving, created, sent, audioChunks, stillborns, linked, relinks>>
  <2>1. CASE MainTask
    BY <2>1 DEF MainTask, RunBareStop, RunHush, RunFragment, RunFragmentEval, SkipRemovedEval,
         RunDelayedCreate, RunUngate, RunStop, serverVars, roomVars, linkVars, respVars
  <2>2. CASE EndSession \/ Interrupt \/ TimerDue \/ PlayChunk \/ SpeakerStarves
    BY <2>2 DEF EndSession, Interrupt, TimerDue, PlayChunk, SpeakerStarves, serverVars, roomVars,
         linkVars, respVars
  <2>3. CASE Watcher \/ SlowToolReturns
    BY <2>3 DEF Watcher, WatcherPosts, WatcherLeaves, SlowToolReturns, serverVars, roomVars,
         linkVars, respVars
  <2>4. CASE UNCHANGED vars
    BY <2>4 DEF vars, appVars, serverVars, roomVars, linkVars, respVars
  <2>5. QED
    BY <2>1, <2>2, <2>3, <2>4
<1>2. QED
  BY <1>1 DEF EscapeInv

LEMMA EscapeStep == TypeOK /\ EscapeInv /\ [Next]_vars => EscapeInv'
BY CountsOnRead, CountsOverLinks, CountsWhileGenerating, CountsWhileTalking, CountsMeanwhile
   DEF Next, Environment

\* Nothing but the second silent response.done in a row posts the chatter stop.
LEMMA OnlyDoneArms == [Next]_vars /\ EscapeArmed => HandleDoneChatter
<1> SUFFICES ASSUME [Next]_vars, EscapeArmed, ~HandleDoneChatter PROVE FALSE
  OBVIOUS
<1>1. ChatterStop.op = "stop" /\ ChatterStop.why = "chatter"
      /\ ChatterStop \notin timers /\ ChatterStop \in timers'
  BY DEF EscapeArmed, ChatterStop
<1>2. CASE HandleEvent
  <2>1. timers' = timers \/ timers' = timers \cup {[op |-> "stop", why |-> "tool"]}
    BY <1>2 DEF HandleEvent, HandleCreated, HandleSpeechStarted, HandleSpeechStopped,
         HandleCommitted, HandleTranscript, HandleAudioDelta, HandleToolCall, HandleDone
  <2>2. QED
    BY <1>1, <2>1 DEF ChatterStop
<1>3. CASE MainTask
  <2>1. CASE RunFragmentEval
    BY <1>1, <2>1 DEF RunFragmentEval, JudgeTalkover, AnswerTalkover
  <2>2. CASE RunFragment
    BY <1>1, <2>2 DEF RunFragment, WithoutEval, EvalTask
  <2>3. CASE RunHush
    BY <1>1, <2>3 DEF RunHush, WithoutEval
  <2>4. CASE RunBareStop \/ SkipRemovedEval \/ RunDelayedCreate \/ RunUngate \/ RunStop
    BY <1>1, <2>4 DEF RunBareStop, SkipRemovedEval, RunDelayedCreate, RunUngate, RunStop
  <2>5. QED
    BY <1>3, <2>1, <2>2, <2>3, <2>4 DEF MainTask
<1>4. CASE TimerDue
  BY <1>1, <1>4 DEF TimerDue
<1>5. CASE \/ LinkFails \/ Start \/ Opens \/ EndSession \/ Interrupt \/ PlayChunk
           \/ SpeakerStarves \/ Watcher \/ SlowToolReturns
  BY <1>1, <1>5 DEF LinkFails, Start, Opens, EndSession, Interrupt, PlayChunk, SpeakerStarves,
       Watcher, WatcherPosts, WatcherLeaves, SlowToolReturns
<1>6. CASE Environment \/ UNCHANGED vars
  BY <1>1, <1>6 DEF Environment, ServerTakesCreate, ServerTakesCancel, ServerSendsDelta,
       ServerCallsTool, ServerFinishes, SomeoneSpeaks, SomeonePauses, ServerTranscribes,
       vars, appVars
<1>7. QED
  BY <1>2, <1>3, <1>4, <1>5, <1>6 DEF Next

LEMMA ArmedAfterTwoSilent ==
  ASSUME TypeOK, EscapeInv, HandleDoneChatter, NEW r, r = Head(inbox).resp
  PROVE  r > 1 /\ sent[r] = 0 /\ (sent[r - 1] = 0 \/ relinks > 0)
<1>1. /\ inbox # <<>> /\ Head(inbox).type = "done" /\ audioChunks = 0 /\ stillborns > 0
  BY CountedTyped DEF HandleDoneChatter, Receive
<1>2. InOrder(inbox, created, serving) /\ Heard(inbox, serving, sent, audioChunks)
  BY DEF EscapeInv, CountsRightly
<1>3. /\ r \in 1..created /\ r # serving /\ Undone(inbox, serving, r)
      /\ \A n \in Nat : n # 0 /\ Undone(inbox, serving, n) => r <= n
  <2>1. 1 \in 1..Len(inbox) /\ Head(inbox) = inbox[1] /\ Head(inbox) \in Events
    BY <1>1, CountedTyped, Behind
  <2>2. Undone(inbox, serving, r) /\ r \in Nat /\ r # 0
    BY <1>1, <2>1, EventTyped DEF Undone, Ends, IsDone, OfResponse, Responses
  <2>3. QED
    BY <1>1, <1>2, <2>2, CountedTyped, FirstUndone
<1>4. created \in Nat /\ created <= MaxResponses /\ r \in Responses /\ sent[r] \in Nat
  BY <1>3, CountedTyped DEF Responses
<1>5. sent[r] = 0
  BY <1>1, <1>2, <1>4, CountedTyped, HeardAfterDone
<1>6. r > 1
  <2>1. ~Undone(inbox, serving, 1)
    BY <1>1 DEF EscapeInv, CountsRightly
  <2>2. QED
    BY <1>3, <1>4, <2>1
<1>7. ASSUME relinks = 0 PROVE sent[r - 1] = 0
  <2>1. EndsInTurn(inbox, created, serving) /\ LastSilent(inbox, created, serving, sent)
    BY <1>1, <1>7 DEF EscapeInv, CountsRightly
  <2>2. r - 1 \in 1..created /\ r - 1 \in Nat /\ r - 1 # 0 /\ (r - 1) + 1 = r /\ ~(r <= r - 1)
    BY <1>3, <1>4, <1>6
  <2>3. ~Undone(inbox, serving, r - 1)
    BY <1>3, <2>2
  <2>4. \A n \in r..created : Undone(inbox, serving, n)
    BY <1>3, <2>1 DEF EndsInTurn
  <2>5. LastDone(inbox, created, serving, r - 1)
    BY <2>2, <2>3, <2>4 DEF LastDone
  <2>6. QED
    BY <2>1, <2>2, <2>5 DEF LastSilent
<1>8. relinks = 0 \/ relinks > 0
  BY CountedTyped
<1>9. QED
  BY <1>5, <1>6, <1>7, <1>8

\* The session is ended for chatter only after two responses in a row without any
\* audio: audio of an earlier or a later response never stands for, or hides, that
\* of the one that ends, whatever is cancelled, lost or left over from a
\* conversation before.
THEOREM ChatterCountsTwoSilent == Spec => ChatterEscapeAfterTwoSilent
<1>1. Init => EscapeInv
  BY CountsAtInit
<1>2. TypeOK /\ EscapeInv /\ [Next]_vars => EscapeInv'
  BY EscapeStep
<1>3. TypeOK /\ EscapeInv /\ [Next]_vars =>
        [EscapeArmed => LET r == Head(inbox).resp
                        IN /\ r > 1 /\ sent[r] = 0
                           /\ sent[r - 1] = 0 \/ relinks > 0]_vars
  BY OnlyDoneArms, ArmedAfterTwoSilent
<1>4. QED
  BY <1>1, <1>2, <1>3, TypeCorrect, PTL DEF Spec, ChatterEscapeAfterTwoSilent

=============================================================================
