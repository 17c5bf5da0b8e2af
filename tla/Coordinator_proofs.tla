------------------------- MODULE Coordinator_proofs --------------------------
(***************************************************************************)
(* Theorems about Coordinator, for every number of inputs and chimes: its  *)
(* types, that a timer rings only if it is set, and, until a start() falls *)
(* into a mic thread's stop(), that the detector has one loop and closes   *)
(* no models under it.                                                     *)
(*                                                                         *)
(* The main thread's queue is what the proofs are about. Each step takes   *)
(* its head or appends to it; the lemmas below say so once.                *)
(***************************************************************************)
EXTENDS Coordinator, FiniteSetTheorems, TLAPS

USE InputsAssumption DEF InputsAssumption

-----------------------------------------------------------------------------
(* What may be in the queue. *)

LEMMA TaskForms ==
  /\ Cancel \in Tasks /\ Fire \in Tasks /\ Removed \in Tasks
  /\ \A op \in {"wake", "closed", "set", "dismiss"} : [op |-> op] \in Tasks
  /\ \A on \in BOOLEAN : [op |-> "shows", on |-> on] \in Tasks
  /\ \A r \in Nat, n \in 1..ChimeLimit : [op |-> "chime", ring |-> r, n |-> n] \in Tasks
BY DEF Tasks, Cancel, Fire, Removed

LEMMA FireAlone ==
  /\ Cancel # Fire /\ Removed # Fire
  /\ \A op \in {"wake", "closed", "set", "dismiss"} : [op |-> op] # Fire
  /\ \A on \in BOOLEAN : [op |-> "shows", on |-> on] # Fire
  /\ \A r \in Nat, n \in 1..ChimeLimit : [op |-> "chime", ring |-> r, n |-> n] # Fire
BY DEF Cancel, Fire, Removed

LEMMA DismissRingTyped == DismissRing \in Seq(Tasks)
BY TaskForms DEF DismissRing

LEMMA WithoutFireTyped ==
  ASSUME NEW q \in Seq(Tasks)
  PROVE  WithoutFire(q) \in Seq(Tasks)
BY TaskForms DEF WithoutFire

LEMMA TaskFields ==
  ASSUME mainQ \in Seq(Tasks), NEW op, TakeTask(op)
  PROVE  /\ Tail(mainQ) \in Seq(Tasks) /\ Head(mainQ) \in Tasks
         /\ op = "shows" => Head(mainQ).on \in BOOLEAN
         /\ op = "chime" => /\ Head(mainQ).ring \in Nat /\ Head(mainQ).n \in 1..ChimeLimit
                            /\ Head(mainQ) = [op |-> "chime", ring |-> Head(mainQ).ring,
                                              n |-> Head(mainQ).n]
<1>1. Head(mainQ) \in Tasks /\ Head(mainQ).op = op /\ Tail(mainQ) \in Seq(Tasks)
  BY DEF TakeTask
<1>2. QED
  BY <1>1 DEF Tasks

-----------------------------------------------------------------------------
(* What the shared steps do to the queue and to the detector. *)

LEMMA StartConversationTyped ==
  ASSUME NEW q \in Seq(Tasks), QueuesTyped, StartConversation(q)
  PROVE  mainQ' \in Seq(Tasks) /\ sessions' \in Nat
<1> DEFINE shows == [op |-> "shows", on |-> TRUE]
<1>1. shows \in Tasks
  BY TaskForms
<1>2. q \o DismissRing \in Seq(Tasks) /\ q \o DismissRing \o <<shows>> \in Seq(Tasks)
  BY <1>1, DismissRingTyped
<1>3. mainQ' = q \o DismissRing \/ mainQ' = q \o DismissRing \o <<shows>>
  BY DEF StartConversation
<1>4. sessions' \in Nat
  BY DEF StartConversation, QueuesTyped
<1>5. QED
  BY <1>2, <1>3, <1>4

LEMMA StopSessionTyped ==
  ASSUME NEW q \in Seq(Tasks), QueuesTyped, StopSession(q)
  PROVE  mainQ' \in Seq(Tasks) /\ sessions' \in Nat
<1> DEFINE shows == [op |-> "shows", on |-> FALSE]
           closed == IF running THEN <<[op |-> "closed"]>> ELSE <<>>
<1>1. shows \in Tasks /\ [op |-> "closed"] \in Tasks
  BY TaskForms
<1>2. closed \in Seq(Tasks)
  BY <1>1
<1>3. q \o <<shows>> \o closed \in Seq(Tasks)
  BY <1>1, <1>2
<1>4. QED
  BY <1>3 DEF StopSession, QueuesTyped

LEMMA CancelInternalTyped ==
  ASSUME NEW q \in Seq(Tasks), CancelInternal(q)
  PROVE  mainQ' \in Seq(Tasks)
BY WithoutFireTyped DEF CancelInternal

\* The detector's fields as start() or a stop() begun leaves them.
StartedOrLeft ==
  \/ UNCHANGED <<call, starts, models>>
  \/ /\ \E c : call' = [call EXCEPT ![c] = "unsub"]
     /\ UNCHANGED <<starts, models>>
  \/ /\ call' = [call EXCEPT ![Main] = "run"]
     /\ starts' = starts + 1 /\ models' = starts + 1

LEMMA StartedOrLeftTyped ==
  ASSUME LoopsTyped, StartedOrLeft, UNCHANGED <<thread, loopVars, joins>>
  PROVE  LoopsTyped'
<1>1. starts' \in Nat \ {0} /\ models' \in 0..starts' /\ starts <= starts'
  BY DEF LoopsTyped, StartedOrLeft
<1>2. call' \in [Callers -> Where]
  BY DEF LoopsTyped, StartedOrLeft, Where
<1>3. /\ thread \in 0..starts' /\ polling \subseteq 1..starts'
      /\ dead \subseteq 1..starts'
      /\ joins \in [Callers -> 0..starts']
  BY <1>1 DEF LoopsTyped
<1>4. inferring \subseteq [loop : 1..starts', on : 1..starts']
  BY <1>1 DEF LoopsTyped
<1>5. QED
  BY <1>1, <1>2, <1>3, <1>4 DEF LoopsTyped, loopVars

LEMMA DetectorSteps ==
  /\ WakeStart => StartedOrLeft
  /\ \A c : WakeStop(c) /\ UNCHANGED <<starts, models>> => StartedOrLeft
  /\ \A q : StartConversation(q) /\ UNCHANGED <<starts, models>> => StartedOrLeft
  /\ \A q : StopSession(q) /\ UNCHANGED <<starts, models>> => StartedOrLeft
  /\ \A q : CancelInternal(q) => StartedOrLeft
BY DEF WakeStart, NoWakeStart, WakeStop, StartConversation, StopSession, CancelInternal,
   StartedOrLeft

-----------------------------------------------------------------------------
(* The three parts of TypeOK, step by step. *)

LEMMA FlagsStep == FlagsTyped /\ QueuesTyped /\ [Next]_vars => FlagsTyped'
<1> SUFFICES ASSUME FlagsTyped, QueuesTyped, [Next]_vars PROVE FlagsTyped'
  OBVIOUS
<1> USE DEF FlagsTyped, sessionVars, timerVars, handVars, fieldVars, callVars
<1>1. CASE StartRuns \/ \E c \in Callers : InCall(c)
  <2>1. CASE StartRuns
    BY <2>1, Zenon DEF StartRuns
  <2>2. ASSUME NEW c \in Callers, StopUnsubscribes(c) PROVE FlagsTyped'
    BY <2>2, Zenon DEF StopUnsubscribes
  <2>3. ASSUME NEW c \in Callers, StopJoins(c) PROVE FlagsTyped'
    BY <2>3, Zenon DEF StopJoins
  <2>4. ASSUME NEW c \in Callers, StopCloses(c) PROVE FlagsTyped'
    BY <2>4, Zenon DEF StopCloses
  <2>5. QED
    BY <1>1, <2>1, <2>2, <2>3, <2>4 DEF InCall
<1>2. CASE \E l \in polling \cup {r.loop : r \in inferring} : Loop(l)
  BY <1>2, Zenon DEF Loop, LoopTakes, LoopHearsNothing, LoopFails, LoopFires, LoopLeaves,
     LoopGivesUp
<1>3. CASE RunShows
  <2>1. active' \in BOOLEAN
    BY <1>3, TaskFields DEF RunShows, QueuesTyped
  <2>2. QED
    BY <1>3, <2>1, Zenon DEF RunShows
<1>4. CASE MainTask /\ ~RunShows
  BY <1>4, Zenon DEF MainTask, RunWake, RunClosed, RunCancel, RunSet, RunFire, RunChime,
     RunDismiss, SkipRemovedFire, StartConversation, WakeStart, NoWakeStart, CancelInternal,
     CaptureOnlyAfresh
<1>5. CASE TimerDue \/ SessionEnds
  <2>1. CASE TimerDue
    BY <2>1, Zenon DEF TimerDue
  <2>2. CASE SessionEnds
    <3>1. running' = FALSE
      BY <2>2 DEF SessionEnds, StopSession
    <3>2. QED
      BY <2>2, <3>1, Zenon DEF SessionEnds
  <2>3. QED
    BY <1>5, <2>1, <2>2
<1>6. CASE People
  <2>1. CASE TapDismisses \/ VoiceDismisses
    BY <2>1, Zenon DEF TapDismisses, VoiceDismisses
  <2>2. CASE TapToggles \/ AskArrives
    BY <2>2, Zenon DEF TapToggles, AskArrives, StartConversation, StopSession
  <2>3. CASE SlideMute
    BY <2>3, Zenon DEF SlideMute
  <2>4. CASE SlideUnmute
    BY <2>4, Zenon DEF SlideUnmute, WakeStart, NoWakeStart, CaptureOnlyAfresh
  <2>5. CASE ToolSetsTimer \/ ToolCancelsTimer \/ SpeechOverRing
    BY <2>5, Zenon DEF ToolPosts, ToolSetsTimer, ToolCancelsTimer, SpeechOverRing
  <2>6. QED
    BY <1>6, <2>1, <2>2, <2>3, <2>4, <2>5 DEF People
<1>7. CASE UNCHANGED vars
  BY <1>7, Zenon DEF vars
<1>8. QED
  BY <1>1, <1>2, <1>3, <1>4, <1>5, <1>6, <1>7 DEF Next

LEMMA LoopsStep == LoopsTyped /\ [Next]_vars => LoopsTyped'
<1> SUFFICES ASSUME LoopsTyped, [Next]_vars PROVE LoopsTyped'
  OBVIOUS
<1>1. CASE StartRuns
  <2>1. call' \in [Callers -> Where]
    BY <1>1 DEF StartRuns, LoopsTyped, Where
  <2>2. thread' = starts /\ polling' = polling \cup {starts}
        /\ UNCHANGED <<starts, models, inferring, dead, joins>>
    BY <1>1 DEF StartRuns
  <2>3. starts \in 1..starts
    BY DEF LoopsTyped
  <2>4. QED
    BY <2>1, <2>2, <2>3 DEF LoopsTyped
<1>2. CASE \E c \in Callers : InCall(c)
  <2>1. PICK c \in Callers : InCall(c)
    BY <1>2
  <2>2. /\ \E w \in Where : call' = [call EXCEPT ![c] = w]
        /\ joins' \in {joins, [joins EXCEPT ![c] = thread], [joins EXCEPT ![c] = 0]}
        /\ thread' \in {0, thread} /\ models' \in {0, models}
        /\ UNCHANGED <<starts, polling, inferring, dead>>
    BY <2>1 DEF InCall, StopUnsubscribes, StopJoins, StopCloses, loopVars, Where
  <2>3. call' \in [Callers -> Where]
    BY <2>2 DEF LoopsTyped
  <2>4. 0 \in 0..starts /\ thread \in 0..starts
    BY DEF LoopsTyped
  <2>5. joins' \in [Callers -> 0..starts]
    BY <2>2, <2>4 DEF LoopsTyped
  <2>6. QED
    BY <2>2, <2>3, <2>5 DEF LoopsTyped
<1>3. CASE \E l \in polling \cup {r.loop : r \in inferring} : Loop(l)
  <2>1. PICK l \in polling \cup {r.loop : r \in inferring} : Loop(l)
    BY <1>3
  <2>2. l \in 1..starts
    BY DEF LoopsTyped
  <2>3. UNCHANGED <<starts, models, thread, call, joins>>
    BY <2>1 DEF Loop, LoopTakes, LoopHearsNothing, LoopFails, LoopFires, LoopLeaves,
       LoopGivesUp, fieldVars, callVars
  <2>4. polling' \subseteq polling \cup {l}
    BY <2>1 DEF Loop, LoopTakes, LoopHearsNothing, LoopFails, LoopFires, LoopLeaves,
       LoopGivesUp
  <2>5. \/ inferring' \subseteq inferring
        \/ models # 0 /\ inferring' = inferring \cup {[loop |-> l, on |-> models]}
    BY <2>1 DEF Loop, LoopTakes, LoopHearsNothing, LoopFails, LoopFires, LoopLeaves,
       LoopGivesUp
  <2>6. dead' \subseteq dead \cup {l}
    BY <2>1 DEF Loop, LoopTakes, LoopHearsNothing, LoopFails, LoopFires, LoopLeaves,
       LoopGivesUp
  <2>7. polling' \subseteq 1..starts /\ dead' \subseteq 1..starts
    BY <2>2, <2>4, <2>6 DEF LoopsTyped
  <2>8. models # 0 => [loop |-> l, on |-> models] \in [loop : 1..starts, on : 1..starts]
    BY <2>2 DEF LoopsTyped
  <2>9. inferring' \subseteq [loop : 1..starts, on : 1..starts]
    BY <2>5, <2>8, Zenon DEF LoopsTyped
  <2>10. QED
    BY <2>3, <2>7, <2>9, Zenon DEF LoopsTyped
<1>4. CASE StartedOrLeft /\ UNCHANGED <<thread, loopVars, joins>>
  BY <1>4, StartedOrLeftTyped
<1>5. MainTask \/ TimerDue \/ SessionEnds \/ People \/ UNCHANGED vars
        => StartedOrLeft /\ UNCHANGED <<thread, loopVars, joins>>
  <2>1. CASE MainTask
    BY <2>1, DetectorSteps DEF MainTask, RunWake, RunShows, RunClosed, RunCancel, RunSet,
       RunFire, RunChime, RunDismiss, SkipRemovedFire, StartedOrLeft, fieldVars,
       callVars
  <2>2. CASE People
    BY <2>2, DetectorSteps DEF People, TapDismisses, TapToggles, AskArrives,
       SlideMute, SlideUnmute, ToolPosts, ToolSetsTimer, ToolCancelsTimer,
       SpeechOverRing, VoiceDismisses, NoWakeStart, StartedOrLeft, fieldVars, callVars
  <2>3. CASE TimerDue \/ SessionEnds \/ UNCHANGED vars
    BY <2>3, DetectorSteps DEF TimerDue, SessionEnds, vars, StartedOrLeft, fieldVars, callVars
  <2>4. QED
    BY <2>1, <2>2, <2>3
<1>6. QED
  BY <1>1, <1>2, <1>3, <1>4, <1>5 DEF Next

LEMMA QueuesStep == FlagsTyped /\ QueuesTyped /\ [Next]_vars => QueuesTyped'
<1> SUFFICES ASSUME FlagsTyped, QueuesTyped, [Next]_vars PROVE QueuesTyped'
  OBVIOUS
<1> USE DEF QueuesTyped
<1>1. CASE StartRuns \/ (\E c \in Callers : InCall(c)) \/ UNCHANGED vars
  BY <1>1 DEF StartRuns, InCall, StopUnsubscribes, StopJoins, StopCloses, vars,
     sessionVars, timerVars, handVars
<1>2. CASE \E l \in polling \cup {r.loop : r \in inferring} : Loop(l)
  <2>1. PICK l : Loop(l)
    BY <1>2
  <2>2. UNCHANGED <<sessions, delayed, rings>> /\ inputs' \in Nat
    BY <2>1 DEF Loop, LoopTakes, LoopHearsNothing, LoopFails, LoopFires, LoopLeaves,
       LoopGivesUp, sessionVars, timerVars, handVars, Input
  <2>3. mainQ' = mainQ \/ mainQ' = Append(mainQ, [op |-> "wake"])
    BY <2>1 DEF Loop, LoopTakes, LoopHearsNothing, LoopFails, LoopFires, LoopLeaves,
       LoopGivesUp
  <2>4. [op |-> "wake"] \in Tasks
    BY TaskForms
  <2>5. mainQ' \in Seq(Tasks)
    BY <2>3, <2>4
  <2>6. QED
    BY <2>2, <2>5
<1>3. CASE MainTask
  <2>1. CASE RunWake
    BY <2>1, TaskFields, StartConversationTyped DEF RunWake, timerVars, handVars
  <2>2. CASE RunShows \/ RunClosed \/ SkipRemovedFire
    BY <2>2, TaskFields DEF RunShows, RunClosed, SkipRemovedFire, sessionVars,
       timerVars, handVars
  <2>3. CASE RunCancel
    BY <2>3, TaskFields, CancelInternalTyped DEF RunCancel, sessionVars, handVars
  <2>4. CASE RunSet
    BY <2>4, TaskFields, CancelInternalTyped, TaskForms DEF RunSet, sessionVars, handVars
  <2>5. CASE RunFire
    <3>1. [op |-> "chime", ring |-> rings + 1, n |-> 1] \in Tasks
      BY TaskForms
    <3>2. QED
      BY <2>5, <3>1, TaskFields DEF RunFire, sessionVars, handVars
  <2>6. CASE RunChime
    <3>1. Tail(mainQ) \in Seq(Tasks) /\ <<Cancel>> \in Seq(Tasks) /\ <<>> \in Seq(Tasks)
      BY <2>6, TaskFields, TaskForms DEF RunChime
    <3>2. ASSUME ~Tired(Head(mainQ).n)
          PROVE  [Head(mainQ) EXCEPT !.n = NextChime(Head(mainQ).n)] \in Tasks
      <4> DEFINE r == Head(mainQ).ring
                 n == Head(mainQ).n
      <4>1. Head(mainQ) = [op |-> "chime", ring |-> r, n |-> n]
            /\ r \in Nat /\ n \in 1..ChimeLimit
        BY <2>6, TaskFields DEF RunChime
      <4>2. n + 1 \in 1..ChimeLimit
        BY <3>2, <4>1 DEF Tired
      <4>3. [op |-> "chime", ring |-> r, n |-> n + 1] \in Tasks
        BY <4>1, <4>2, TaskForms
      <4>4. [Head(mainQ) EXCEPT !.n = n + 1] = [op |-> "chime", ring |-> r, n |-> n + 1]
        BY <4>1
      <4>5. QED
        BY <4>3, <4>4 DEF NextChime
    <3>3. mainQ' \in Seq(Tasks) /\ delayed' \subseteq Tasks
      <4>1. mainQ' = Tail(mainQ) \o <<Cancel>> \/ mainQ' = Tail(mainQ) \o <<>>
        BY <2>6 DEF RunChime
      <4>2. mainQ' \in Seq(Tasks)
        <5>1. Tail(mainQ) \o <<Cancel>> \in Seq(Tasks) /\ Tail(mainQ) \o <<>> \in Seq(Tasks)
          BY ONLY <3>1
        <5>2. QED
          BY <4>1, <5>1
      <4>3. delayed' \subseteq Tasks
        BY <2>6, <3>2 DEF RunChime
      <4>4. QED
        BY <4>2, <4>3
    <3>4. UNCHANGED <<rings, sessions, inputs>>
      BY <2>6 DEF RunChime, sessionVars, handVars
    <3>5. QED
      BY <3>3, <3>4
  <2>7. CASE RunDismiss
    BY <2>7, TaskFields, DismissRingTyped DEF RunDismiss, sessionVars, timerVars, handVars
  <2>8. QED
    BY <1>3, <2>1, <2>2, <2>3, <2>4, <2>5, <2>6, <2>7 DEF MainTask
<1>4. CASE TimerDue
  BY <1>4 DEF TimerDue, sessionVars, handVars
<1>5. CASE SessionEnds
  BY <1>5, StopSessionTyped DEF SessionEnds, timerVars, handVars
<1>6. CASE People
  <2>1. inputs' \in Nat /\ UNCHANGED <<delayed, rings>>
    BY <1>6 DEF People, TapDismisses, TapToggles, AskArrives, SlideMute,
       SlideUnmute, ToolPosts, ToolSetsTimer, ToolCancelsTimer, SpeechOverRing,
       VoiceDismisses, timerVars, handVars, Input
  <2>2. CASE TapDismisses
    BY <2>1, <2>2, DismissRingTyped DEF TapDismisses, sessionVars
  <2>3. CASE TapToggles \/ AskArrives
    <3>1. StopSession(mainQ) \/ StartConversation(mainQ)
      BY <2>3 DEF TapToggles, AskArrives
    <3>2. QED
      BY <2>1, <3>1, StartConversationTyped, StopSessionTyped
  <2>4. CASE SlideMute \/ SlideUnmute
    BY <2>1, <2>4 DEF SlideMute, SlideUnmute, sessionVars
  <2>5. CASE ToolSetsTimer \/ ToolCancelsTimer \/ SpeechOverRing
    <3>1. /\ UNCHANGED sessions
          /\ \E task \in {[op |-> "set"], Cancel, [op |-> "dismiss"]} :
               mainQ' = Append(mainQ, task)
      BY <2>5 DEF ToolSetsTimer, ToolCancelsTimer, SpeechOverRing, ToolPosts, sessionVars
    <3>2. QED
      BY <2>1, <3>1, TaskForms
  <2>6. CASE VoiceDismisses
    <3>1. mainQ' = Append(mainQ, [op |-> "dismiss"]) /\ UNCHANGED sessions
      BY <2>6 DEF VoiceDismisses, sessionVars
    <3>2. [op |-> "dismiss"] \in Tasks
      BY TaskForms
    <3>3. QED
      BY <2>1, <3>1, <3>2
  <2>7. QED
    BY <1>6, <2>2, <2>3, <2>4, <2>5, <2>6 DEF People
<1>7. QED
  BY <1>1, <1>2, <1>3, <1>4, <1>5, <1>6 DEF Next

\* Every variable of the owner, the detector and the timer keeps its type, for
\* any number of inputs and chimes: in particular no chime of a ring is ever due
\* beyond the cap of chimeLoop, whoever cancelled and restarted the timer.
THEOREM CoordinatorTypeCorrect == Spec => []TypeOK
<1>1. Init => TypeOK
  <2>1. Init => FlagsTyped
    BY Zenon DEF Init, FlagsTyped
  <2>2. Init => LoopsTyped
    BY DEF Init, LoopsTyped, Where
  <2>3. Init => QueuesTyped
    BY DEF Init, QueuesTyped
  <2>4. QED
    BY <2>1, <2>2, <2>3 DEF TypeOK
<1>2. TypeOK /\ [Next]_vars => TypeOK'
  BY FlagsStep, LoopsStep, QueuesStep DEF TypeOK
<1>3. QED
  BY <1>1, <1>2, PTL DEF Spec

-----------------------------------------------------------------------------
(***************************************************************************)
(* A timer rings only if it is set. What makes it so is that the block     *)
(* that fires it waits, in the delays or in the queue, only while endsAt   *)
(* says so: removeCallbacks takes it out of both, and TimerDue merely      *)
(* moves it from one to the other.                                         *)
(***************************************************************************)
NoFire(q) == \A i \in 1..Len(q) : q[i] # Fire
FireOnlyIfSet == ~timerSet => Fire \notin delayed /\ NoFire(mainQ)

LEMMA NoFireTail ==
  ASSUME NEW q \in Seq(Tasks), q # <<>>, NoFire(q)
  PROVE  NoFire(Tail(q))
BY DEF NoFire

LEMMA NoFireAppend ==
  ASSUME NEW q \in Seq(Tasks), NoFire(q), NEW task \in Tasks, task # Fire
  PROVE  NoFire(Append(q, task))
BY DEF NoFire

LEMMA NoFireConcat ==
  ASSUME NEW q \in Seq(Tasks), NoFire(q), NEW r \in Seq(Tasks), NoFire(r)
  PROVE  NoFire(q \o r)
BY DEF NoFire

LEMMA NoFireSingle ==
  ASSUME NEW task \in Tasks, task # Fire
  PROVE  NoFire(<<task>>) /\ <<task>> \in Seq(Tasks)
BY DEF NoFire

LEMMA NoFireEmpty == NoFire(<<>>) /\ <<>> \in Seq(Tasks)
BY DEF NoFire

LEMMA WithoutFireNoFire ==
  ASSUME NEW q \in Seq(Tasks)
  PROVE  NoFire(WithoutFire(q))
BY FireAlone DEF NoFire, WithoutFire

LEMMA DismissRingNoFire == NoFire(DismissRing)
BY NoFireSingle, NoFireEmpty, FireAlone, TaskForms DEF DismissRing

LEMMA TakenNoFire ==
  ASSUME mainQ \in Seq(Tasks), NoFire(mainQ), NEW op, TakeTask(op)
  PROVE  NoFire(Tail(mainQ)) /\ Tail(mainQ) \in Seq(Tasks) /\ Head(mainQ) # Fire
BY NoFireTail DEF TakeTask, NoFire

LEMMA StartConversationNoFire ==
  ASSUME NEW q \in Seq(Tasks), NoFire(q), StartConversation(q)
  PROVE  NoFire(mainQ')
<1> DEFINE shows == [op |-> "shows", on |-> TRUE]
<1>1. shows \in Tasks /\ shows # Fire
  BY TaskForms, FireAlone
<1>2. NoFire(<<shows>>) /\ <<shows>> \in Seq(Tasks)
  BY <1>1, NoFireSingle
<1>3. NoFire(q \o DismissRing) /\ q \o DismissRing \in Seq(Tasks)
  BY NoFireConcat, DismissRingNoFire, DismissRingTyped
<1>4. NoFire(q \o DismissRing \o <<shows>>)
  BY <1>2, <1>3, NoFireConcat
<1>5. mainQ' = q \o DismissRing \/ mainQ' = q \o DismissRing \o <<shows>>
  BY DEF StartConversation
<1>6. QED
  BY <1>3, <1>4, <1>5

LEMMA StopSessionNoFire ==
  ASSUME NEW q \in Seq(Tasks), NoFire(q), StopSession(q)
  PROVE  NoFire(mainQ')
<1> DEFINE shows == [op |-> "shows", on |-> FALSE]
           closed == IF running THEN <<[op |-> "closed"]>> ELSE <<>>
<1>1. /\ shows \in Tasks /\ [op |-> "closed"] \in Tasks
      /\ shows # Fire /\ [op |-> "closed"] # Fire
  BY TaskForms, FireAlone
<1>2. NoFire(<<shows>>) /\ <<shows>> \in Seq(Tasks)
  BY <1>1, NoFireSingle
<1>3. NoFire(closed) /\ closed \in Seq(Tasks)
  BY <1>1, NoFireSingle, NoFireEmpty
<1> HIDE DEF shows, closed
<1>4. NoFire(q \o <<shows>>)
  BY <1>2, NoFireConcat
<1>5. q \o <<shows>> \in Seq(Tasks)
  BY <1>2
<1>6. NoFire(q \o <<shows>> \o closed)
  BY <1>3, <1>4, <1>5, NoFireConcat
<1>7. QED
  BY <1>6 DEF StopSession, shows, closed

\* A step that leaves endsAt alone does not bring the fire about.
LEMMA MainTaskNoFire ==
  ASSUME QueuesTyped, Fire \notin delayed, NoFire(mainQ), MainTask, ~RunCancel, ~RunSet
  PROVE  Fire \notin delayed' /\ NoFire(mainQ')
<1> USE DEF QueuesTyped
<1>1. CASE RunWake
  BY <1>1, TakenNoFire, StartConversationNoFire DEF RunWake, timerVars
<1>2. CASE RunShows \/ RunClosed \/ SkipRemovedFire
  BY <1>2, TakenNoFire DEF RunShows, RunClosed, SkipRemovedFire, timerVars
<1>3. CASE RunFire
  <2>1. Head(mainQ) \in Tasks /\ Head(mainQ).op = "fire" /\ Head(mainQ) # Fire
    BY <1>3, TakenNoFire, TaskFields DEF RunFire, TakeTask
  <2>2. QED
    BY <2>1 DEF Tasks, Fire
<1>4. CASE RunChime
  <2>1. NoFire(Tail(mainQ)) /\ Tail(mainQ) \in Seq(Tasks)
    BY <1>4, TakenNoFire DEF RunChime
  <2>2. NoFire(<<Cancel>>) /\ <<Cancel>> \in Seq(Tasks)
    BY NoFireSingle, TaskForms, FireAlone
  <2>3. mainQ' = Tail(mainQ) \o <<Cancel>> \/ mainQ' = Tail(mainQ) \o <<>>
    BY <1>4 DEF RunChime
  <2>4. [Head(mainQ) EXCEPT !.n = NextChime(Head(mainQ).n)].op = "chime"
    BY <1>4, TaskFields DEF RunChime
  <2>5. Fire \notin delayed'
    BY <1>4, <2>4 DEF RunChime, Fire
  <2>6. QED
    BY <2>1, <2>2, <2>3, <2>5, NoFireConcat, NoFireEmpty
<1>5. CASE RunDismiss
  BY <1>5, TakenNoFire, DismissRingNoFire, DismissRingTyped, NoFireConcat
  DEF RunDismiss, timerVars
<1>6. QED
  BY <1>1, <1>2, <1>3, <1>4, <1>5 DEF MainTask

LEMMA PeopleNoFire ==
  ASSUME QueuesTyped, Fire \notin delayed, NoFire(mainQ), People
  PROVE  Fire \notin delayed' /\ NoFire(mainQ')
<1> USE DEF QueuesTyped
<1>1. UNCHANGED delayed
  BY DEF People, TapDismisses, TapToggles, AskArrives, SlideMute,
     SlideUnmute, ToolPosts, ToolSetsTimer, ToolCancelsTimer, SpeechOverRing,
     VoiceDismisses, timerVars
<1>2. CASE TapDismisses
  BY <1>1, <1>2, DismissRingNoFire, DismissRingTyped, NoFireConcat DEF TapDismisses
<1>3. CASE TapToggles \/ AskArrives
  <2>1. StopSession(mainQ) \/ StartConversation(mainQ)
    BY <1>3 DEF TapToggles, AskArrives
  <2>2. QED
    BY <1>1, <2>1, StartConversationNoFire, StopSessionNoFire
<1>4. CASE SlideMute \/ SlideUnmute
  BY <1>1, <1>4 DEF SlideMute, SlideUnmute
<1>5. CASE ToolSetsTimer \/ ToolCancelsTimer \/ SpeechOverRing \/ VoiceDismisses
  <2>1. PICK task \in {[op |-> "set"], Cancel, [op |-> "dismiss"]} :
          mainQ' = Append(mainQ, task)
    BY <1>5 DEF ToolSetsTimer, ToolCancelsTimer, SpeechOverRing, VoiceDismisses, ToolPosts
  <2>2. task \in Tasks /\ task # Fire
    BY TaskForms, FireAlone
  <2>3. QED
    BY <1>1, <2>1, <2>2, NoFireAppend
<1>6. QED
  BY <1>2, <1>3, <1>4, <1>5 DEF People

LEMMA FireStep == QueuesTyped /\ FireOnlyIfSet /\ [Next]_vars => FireOnlyIfSet'
<1> SUFFICES ASSUME QueuesTyped, FireOnlyIfSet, [Next]_vars, ~timerSet'
             PROVE  Fire \notin delayed' /\ NoFire(mainQ')
  BY DEF FireOnlyIfSet, NoFire
<1> USE DEF QueuesTyped
<1>1. CASE RunSet
  BY <1>1 DEF RunSet
<1>2. CASE RunCancel
  BY <1>2, TaskFields, WithoutFireNoFire DEF RunCancel, CancelInternal
<1>3. CASE ~RunSet /\ ~RunCancel
  <2>1. UNCHANGED timerSet
    BY <1>3 DEF Next, StartRuns, InCall, StopUnsubscribes, StopJoins, StopCloses, Loop,
       LoopTakes, LoopHearsNothing, LoopFails, LoopFires, LoopLeaves, LoopGivesUp,
       MainTask, RunWake, RunShows, RunClosed, RunFire, RunChime, RunDismiss, SkipRemovedFire, TimerDue,
       SessionEnds, People, TapDismisses, TapToggles, AskArrives, SlideMute,
       SlideUnmute, ToolPosts, ToolSetsTimer, ToolCancelsTimer, SpeechOverRing,
       VoiceDismisses, timerVars, vars
  <2>2. Fire \notin delayed /\ NoFire(mainQ)
    BY <2>1 DEF FireOnlyIfSet
  <2>3. CASE StartRuns \/ (\E c \in Callers : InCall(c)) \/ UNCHANGED vars
    BY <2>2, <2>3 DEF StartRuns, InCall, StopUnsubscribes, StopJoins, StopCloses,
       timerVars, vars
  <2>4. CASE \E l \in polling \cup {r.loop : r \in inferring} : Loop(l)
    <3>1. UNCHANGED delayed
          /\ (mainQ' = mainQ \/ mainQ' = Append(mainQ, [op |-> "wake"]))
      BY <2>4 DEF Loop, LoopTakes, LoopHearsNothing, LoopFails, LoopFires, LoopLeaves,
         LoopGivesUp, timerVars
    <3>2. QED
      BY <2>2, <3>1, NoFireAppend, TaskForms, FireAlone
  <2>5. CASE TimerDue
    BY <2>2, <2>5, NoFireAppend DEF TimerDue
  <2>6. CASE SessionEnds
    BY <2>2, <2>6, StopSessionNoFire DEF SessionEnds, timerVars
  <2>7. QED
    BY <1>3, <2>2, <2>3, <2>4, <2>5, <2>6, MainTaskNoFire, PeopleNoFire DEF Next
<1>4. QED
  BY <1>1, <1>2, <1>3

\* Only the block that fires makes the timer ring, and it waits only while the
\* timer is set.
LEMMA RingStep ==
  QueuesTyped /\ FireOnlyIfSet /\ [Next]_vars => [~ringing /\ ringing' => timerSet]_vars
<1> SUFFICES ASSUME QueuesTyped, FireOnlyIfSet, [Next]_vars, ~ringing, ringing'
             PROVE  timerSet
  OBVIOUS
<1>1. RunFire
  BY DEF Next, StartRuns, InCall, StopUnsubscribes, StopJoins, StopCloses, Loop,
     LoopTakes, LoopHearsNothing, LoopFails, LoopFires, LoopLeaves, LoopGivesUp,
     MainTask, RunWake, RunShows, RunClosed, RunCancel, RunSet, CancelInternal, RunChime, RunDismiss,
     SkipRemovedFire, TimerDue, SessionEnds, People, TapDismisses, TapToggles,
     AskArrives, SlideMute, SlideUnmute, ToolPosts, ToolSetsTimer,
     ToolCancelsTimer, SpeechOverRing, VoiceDismisses, timerVars, vars
<1>2. mainQ # <<>> /\ Head(mainQ) \in Tasks /\ Head(mainQ).op = "fire"
  BY <1>1, TaskFields DEF RunFire, TakeTask, QueuesTyped
<1>3. Head(mainQ) = Fire
  BY <1>2 DEF Tasks, Fire
<1>4. ~NoFire(mainQ)
  BY <1>2, <1>3 DEF NoFire, QueuesTyped
<1>5. QED
  BY <1>4 DEF FireOnlyIfSet

\* Whatever order set, cancel, dismissal and a fire that is due reach the main
\* thread in, a cancelled timer never rings. FireOnlyIfSet is the invariant: the
\* property itself says nothing of a fire that waits.
THEOREM RingsOnlySetTimers == Spec => RingsOnlyIfSet
<1>1. Init => FireOnlyIfSet
  BY DEF Init, FireOnlyIfSet, NoFire
<1>2. TypeOK /\ FireOnlyIfSet /\ [Next]_vars => FireOnlyIfSet'
  BY FireStep DEF TypeOK
<1>3. TypeOK /\ FireOnlyIfSet /\ [Next]_vars => [~ringing /\ ringing' => timerSet]_vars
  BY RingStep DEF TypeOK
<1>4. QED
  BY <1>1, <1>2, <1>3, CoordinatorTypeCorrect, PTL DEF Spec, RingsOnlyIfSet

-----------------------------------------------------------------------------
(***************************************************************************)
(* One loop, and no models closed under it, until a start() is called      *)
(* inside a mic thread's stop(). start() runs on the main thread, which    *)
(* makes one call at a time and begins the conversations whose mic threads *)
(* call stop(); so a start() that crosses no mic thread's stop() is alone  *)
(* with the detector from its first line to its last. Stops may overlap:   *)
(* whoever gets past join() has seen the only loop leave.                  *)
(***************************************************************************)
NoLoops == polling = {} /\ inferring = {}

\* start() finds nobody alive, and nobody stops the detector beside it.
StartAlone ==
  call[Main] = "run" => ~armed /\ NoLoops /\ \A c \in MicThreads : call[c] = "out"

\* The loop that is alive is the field's.
OneThread ==
  /\ polling \subseteq {thread}
  /\ \A r \in inferring : r.loop = thread /\ polling = {} /\ inferring = {r}

\* A detector that is not armed has no loop, or one that a stop() waits for.
Waited ==
  /\ ~armed => NoLoops \/ \E c \in Callers : call[c] = "join"
  /\ \A c \in Callers :
       /\ call[c] \in {"join", "close"} => ~armed
       /\ call[c] = "join" => NoLoops \/ joins[c] = thread
       /\ call[c] = "close" => NoLoops

\* The mic threads of conversations to come have not begun.
NotBegun == \A c \in Callers : c > sessions => call[c] = "out"

AloneInv == NotBegun /\ (crossed \/ (StartAlone /\ OneThread /\ Waited))

\* A step that leaves the calls and the loops alone.
LEMMA AloneQuiet ==
  ASSUME AloneInv, UNCHANGED <<armed, thread, polling, inferring, call, joins, sessions>>,
         crossed => crossed'
  PROVE  AloneInv'
BY DEF AloneInv, StartAlone, OneThread, Waited, NotBegun, NoLoops

\* stop() is called, by a thread that was in no call.
LEMMA AloneParks ==
  ASSUME AloneInv, TypeOK, NEW c \in Nat, call[Main] = "out",
         (c = Main /\ sessions' = sessions) \/ (c = sessions + 1 /\ sessions' = c),
         WakeStop(c), UNCHANGED <<armed, thread, polling, inferring, joins, crossed>>
  PROVE  AloneInv'
<1>1. call \in [Callers -> Where] /\ sessions \in Nat /\ Main \in Callers /\ Callers \subseteq Nat
  BY DEF TypeOK, LoopsTyped, QueuesTyped, Main, Callers
<1>2. /\ \A d \in Callers : d # c => call'[d] = call[d]
      /\ c \in Callers => call[c] = "out" /\ call'[c] = "unsub"
  BY <1>1 DEF WakeStop, AloneInv, NotBegun
<1>3. NotBegun'
  BY <1>1, <1>2 DEF AloneInv, NotBegun, Main
<1>4. call'[Main] # "run"
  BY <1>1, <1>2
<1>5. ASSUME ~crossed PROVE Waited'
  BY <1>2, <1>5 DEF AloneInv, Waited, NoLoops
<1>6. QED
  BY <1>3, <1>4, <1>5 DEF AloneInv, StartAlone, OneThread

\* start() is called, by a main thread that was in no call.
LEMMA AloneArms ==
  ASSUME AloneInv, TypeOK, call[Main] = "out", WakeStart,
         UNCHANGED <<armed, thread, polling, inferring, joins, sessions>>
  PROVE  AloneInv'
<1>1. call \in [Callers -> Where] /\ Main \in Callers /\ Callers \subseteq Nat /\ sessions \in Nat
  BY DEF TypeOK, LoopsTyped, QueuesTyped, Main, Callers
<1>2. CASE armed
  BY <1>2, AloneQuiet DEF WakeStart, MayStart
<1>3. CASE ~armed
  <2>1. /\ \A c \in Callers : c # Main => call'[c] = call[c]
        /\ call'[Main] = "run"
    BY <1>1, <1>3 DEF WakeStart, MayStart
  <2>2. NotBegun'
    BY <1>1, <2>1 DEF AloneInv, NotBegun, Main
  <2>3. ASSUME ~crossed' PROVE (StartAlone /\ OneThread /\ Waited)'
    <3>1. ~crossed /\ HandoffsDone
      BY <2>3 DEF WakeStart
    <3>2. \A c \in Callers : call[c] = "out"
      BY <3>1 DEF HandoffsDone, MicThreads
    <3>3. NoLoops
      BY <1>3, <3>1, <3>2 DEF AloneInv, Waited
    <3>4. \A c \in MicThreads : call'[c] = "out"
      BY <2>1, <3>2 DEF MicThreads
    <3>5. \A c \in Callers : call'[c] \in {"out", "run"}
      BY <2>1, <3>2
    <3>6. QED
      BY <1>3, <3>1, <3>3, <3>4, <3>5 DEF AloneInv, StartAlone, OneThread, Waited, NoLoops
  <2>4. QED
    BY <2>2, <2>3 DEF AloneInv
<1>4. QED
  BY <1>2, <1>3

\* start() ends: its loop is the only one.
LEMMA AloneRuns ==
  ASSUME AloneInv, TypeOK, StartRuns
  PROVE  AloneInv'
<1>1. /\ call \in [Callers -> Where] /\ Main \in Callers /\ Callers \subseteq Nat
      /\ call[Main] = "run" /\ call' = [call EXCEPT ![Main] = "out"]
      /\ armed' = TRUE /\ thread' = starts /\ polling' = polling \cup {starts}
      /\ UNCHANGED <<inferring, joins, crossed, sessions>>
  BY DEF TypeOK, LoopsTyped, StartRuns, sessionVars, Main, Callers
<1>2. NotBegun'
  BY <1>1 DEF AloneInv, NotBegun
<1>3. ASSUME ~crossed PROVE (StartAlone /\ OneThread /\ Waited)'
  <2>1. NoLoops /\ \A c \in Callers : call'[c] = "out"
    BY <1>1, <1>3 DEF AloneInv, StartAlone, MicThreads
  <2>2. polling' = {thread'} /\ inferring' = {}
    BY <1>1, <2>1 DEF NoLoops
  <2>3. QED
    BY <1>1, <2>1, <2>2 DEF StartAlone, OneThread, Waited
<1>4. QED
  BY <1>1, <1>2, <1>3 DEF AloneInv

\* stop() goes on: past join() no loop is alive.
LEMMA AloneInCall ==
  ASSUME AloneInv, TypeOK, NEW c \in Callers, InCall(c)
  PROVE  AloneInv'
<1>1. /\ call \in [Callers -> Where] /\ joins \in [Callers -> 0..starts]
      /\ UNCHANGED <<polling, inferring, crossed, sessions>>
      /\ \A d \in Callers : d # c => call'[d] = call[d] /\ joins'[d] = joins[d]
      /\ call[c] \in {"unsub", "join", "close"}
  BY DEF TypeOK, LoopsTyped, InCall, StopUnsubscribes, StopJoins, StopCloses, loopVars, sessionVars
<1>2. call'[c] \in {"join", "close", "out"} /\ (call[c] = "out" => call'[c] = "out")
  BY <1>1 DEF InCall, StopUnsubscribes, StopJoins, StopCloses
<1>3. NotBegun'
  BY <1>1 DEF AloneInv, NotBegun
<1>4. ASSUME ~crossed PROVE (StartAlone /\ OneThread /\ Waited)'
  <2>1. StartAlone /\ OneThread /\ Waited
    BY <1>4 DEF AloneInv
  <2>2. call'[Main] # "run" \/ (call[Main] = "run" /\ c \notin MicThreads /\ c # Main)
    BY <1>1, <1>2, <2>1 DEF StartAlone, Main, Callers
  <2>3. StartAlone'
    BY <2>2 DEF StartAlone, MicThreads
  <2>4. CASE StopUnsubscribes(c)
    <3>1. call'[c] = "join" /\ armed' = FALSE /\ joins'[c] = thread /\ thread' = thread
      BY <1>1, <2>4 DEF StopUnsubscribes
    <3>2. OneThread' /\ Waited'
      BY <1>1, <2>1, <3>1 DEF OneThread, Waited, NoLoops
    <3>3. QED
      BY <2>3, <3>2
  <2>5. CASE StopJoins(c)
    <3>1. /\ call[c] = "join" /\ call'[c] = "close" /\ armed' = armed /\ thread' = 0
          /\ ~armed /\ ~Alive(joins[c])
      BY <1>1, <2>1, <2>5 DEF StopJoins, LoopIsGone, Waited
    <3>2. NoLoops
      BY <2>1, <3>1 DEF OneThread, Waited, Alive, NoLoops
    <3>3. OneThread' /\ Waited'
      BY <1>1, <2>1, <3>1, <3>2 DEF OneThread, Waited, NoLoops
    <3>4. QED
      BY <2>3, <3>3
  <2>6. CASE StopCloses(c)
    <3>1. call[c] = "close" /\ call'[c] = "out" /\ armed' = armed /\ thread' = thread /\ joins' = joins
      BY <1>1, <2>6 DEF StopCloses
    <3>2. NoLoops
      BY <2>1, <3>1 DEF Waited
    <3>3. OneThread' /\ Waited'
      BY <1>1, <2>1, <3>1, <3>2 DEF OneThread, Waited, NoLoops
    <3>4. QED
      BY <2>3, <3>3
  <2>7. QED
    BY <2>4, <2>5, <2>6 DEF InCall
<1>5. QED
  BY <1>1, <1>3, <1>4 DEF AloneInv

\* The loop that is alive takes audio, hears, or ends; it brings no other about.
LEMMA AloneLoop ==
  ASSUME AloneInv, TypeOK, NEW l \in polling \cup {r.loop : r \in inferring}, Loop(l)
  PROVE  AloneInv'
<1>1. /\ UNCHANGED <<armed, thread, call, joins, sessions, crossed>>
      /\ inferring \subseteq [loop : 1..starts, on : 1..starts]
  BY DEF TypeOK, LoopsTyped, Loop, LoopTakes, LoopHearsNothing, LoopFails, LoopFires, LoopLeaves,
     LoopGivesUp, fieldVars, callVars, sessionVars
<1>2. NotBegun'
  BY <1>1 DEF AloneInv, NotBegun
<1>3. ASSUME ~crossed PROVE (StartAlone /\ OneThread /\ Waited)'
  <2>1. StartAlone /\ OneThread /\ Waited
    BY <1>3 DEF AloneInv
  <2>2. l = thread /\ ~NoLoops
    BY <2>1 DEF OneThread, NoLoops
  <2>3. call[Main] # "run" /\ (armed \/ \E c \in Callers : call[c] = "join")
        /\ \A c \in Callers : call[c] # "close" /\ (call[c] = "join" => joins[c] = thread)
    BY <2>1, <2>2 DEF StartAlone, Waited
  <2>4. StartAlone' /\ Waited'
    BY <1>1, <2>1, <2>3 DEF StartAlone, Waited
  <2>5. CASE LoopTakes(l)
    BY <1>1, <2>1, <2>2, <2>4, <2>5 DEF OneThread, LoopTakes
  <2>6. CASE LoopHearsNothing(l) \/ LoopFires(l)
    BY <1>1, <2>1, <2>2, <2>4, <2>6 DEF OneThread, LoopHearsNothing, LoopFires
  <2>7. CASE LoopFails(l)
    BY <1>1, <2>1, <2>2, <2>4, <2>7 DEF OneThread, LoopFails
  <2>8. CASE LoopLeaves(l) \/ LoopGivesUp(l)
    BY <1>1, <2>1, <2>2, <2>4, <2>8 DEF OneThread, LoopLeaves, LoopGivesUp
  <2>9. QED
    BY <2>4, <2>5, <2>6, <2>7, <2>8 DEF Loop, OneThread
<1>4. QED
  BY <1>1, <1>2, <1>3 DEF AloneInv

\* What a conversation's beginning, its end, a cancel or a cancelled ring does to the
\* calls, for a main thread that is in none.
LEMMA AloneOwners ==
  ASSUME AloneInv, TypeOK, UNCHANGED <<armed, thread, polling, inferring, joins>>
  PROVE  /\ \A q : /\ call[Main] = "out" /\ StartConversation(q) /\ UNCHANGED crossed
                   => AloneInv'
         /\ \A q : StopSession(q) /\ UNCHANGED crossed => AloneInv'
         /\ \A q : call[Main] = "out" /\ CancelInternal(q) /\ UNCHANGED sessions => AloneInv'
<1>0. sessions \in Nat /\ sessions + 1 \in Nat
  BY DEF TypeOK, QueuesTyped
<1>1. ASSUME NEW q, call[Main] = "out", StartConversation(q), UNCHANGED crossed PROVE AloneInv'
  <2>1. CASE UNCHANGED <<sessions, call>>
    BY <1>1, <2>1, AloneQuiet
  <2>2. CASE sessions' = sessions + 1 /\ WakeStop(sessions + 1)
    BY <1>0, <1>1, <2>2, AloneParks
  <2>3. QED
    BY <1>1, <2>1, <2>2 DEF StartConversation
<1>2. ASSUME NEW q, StopSession(q), UNCHANGED crossed PROVE AloneInv'
  BY <1>2, AloneQuiet DEF StopSession
<1>3. ASSUME NEW q, call[Main] = "out", CancelInternal(q), UNCHANGED sessions PROVE AloneInv'
  <2>1. CASE WakeStart
    BY <1>3, <2>1, AloneArms
  <2>2. CASE NoWakeStart
    BY <1>3, <2>2, AloneQuiet DEF NoWakeStart
  <2>3. QED
    BY <1>3, <2>1, <2>2 DEF CancelInternal
<1>4. QED
  BY <1>1, <1>2, <1>3

LEMMA AloneStep == TypeOK /\ AloneInv /\ [Next]_vars => AloneInv'
<1> SUFFICES ASSUME TypeOK, AloneInv, [Next]_vars PROVE AloneInv'
  OBVIOUS
<1> USE DEF fieldVars, loopVars, callVars, sessionVars
<1>0. Main \in Nat
  BY DEF Main
<1>1. CASE StartRuns
  BY <1>1, AloneRuns
<1>2. CASE \E c \in Callers : InCall(c)
  BY <1>2, AloneInCall
<1>3. CASE \E l \in polling \cup {r.loop : r \in inferring} : Loop(l)
  BY <1>3, AloneLoop
<1>4. CASE RunWake
  BY <1>4, AloneOwners DEF RunWake, TakeTask, MainFree
<1>5. CASE RunClosed
  BY <1>5, AloneArms DEF RunClosed, TakeTask, MainFree
<1>6. CASE RunCancel \/ RunSet
  BY <1>6, AloneOwners DEF RunCancel, RunSet, TakeTask, MainFree
<1>7. CASE RunFire
  BY <1>0, <1>7, AloneParks DEF RunFire, TakeTask, MainFree
<1>8. CASE RunShows \/ RunChime \/ RunDismiss \/ SkipRemovedFire \/ TimerDue
  <2>1. /\ UNCHANGED <<armed, thread, polling, inferring, call, joins, sessions>>
        /\ UNCHANGED crossed
    BY <1>8 DEF RunShows, RunChime, RunDismiss, SkipRemovedFire, TimerDue
  <2>2. QED
    BY <2>1, AloneQuiet
<1>9. CASE SessionEnds
  BY <1>9, AloneOwners DEF SessionEnds
<1>10. CASE TapToggles \/ AskArrives
  BY <1>10, AloneOwners DEF TapToggles, AskArrives, MainFree
<1>11. CASE SlideMute
  BY <1>0, <1>11, AloneParks DEF SlideMute, MainFree
<1>12. CASE SlideUnmute
  <2>1. CASE WakeStart
    BY <1>12, <2>1, AloneArms DEF SlideUnmute, MainFree
  <2>2. CASE NoWakeStart
    BY <1>12, <2>2, AloneQuiet DEF SlideUnmute, NoWakeStart
  <2>3. QED
    BY <1>12, <2>1, <2>2 DEF SlideUnmute
<1>13. CASE TapDismisses \/ ToolSetsTimer \/ ToolCancelsTimer \/ SpeechOverRing \/ VoiceDismisses
  BY <1>13, AloneQuiet DEF TapDismisses, ToolPosts, ToolSetsTimer, ToolCancelsTimer,
     SpeechOverRing, VoiceDismisses
<1>14. CASE UNCHANGED vars
  BY <1>14, AloneQuiet DEF vars
<1>15. QED
  BY <1>1, <1>2, <1>3, <1>4, <1>5, <1>6, <1>7, <1>8, <1>9, <1>10, <1>11, <1>12, <1>13, <1>14
  DEF Next, MainTask, People

LEMMA AloneAlways == Spec => []AloneInv
<1>1. Init => AloneInv
  <2>1. Init => \A c \in Callers : call[c] = "out"
    BY DEF Init
  <2>2. Main \in Callers
    BY DEF Main, Callers
  <2>3. QED
    BY <2>1, <2>2 DEF Init, AloneInv, NotBegun, StartAlone, OneThread, Waited
<1>2. TypeOK /\ AloneInv /\ [Next]_vars => AloneInv'
  BY AloneStep
<1>3. QED
  BY <1>1, <1>2, CoordinatorTypeCorrect, PTL DEF Spec

\* Whatever taps, timers, rings, conversations and the slider ask of it, and on
\* whichever threads, the detector never has two loops alive unless a start() was
\* called inside a mic thread's stop(). That is the only order that breaks it.
THEOREM OneLoopUnlessCrossed == Spec => []OneLoop
<1>1. AloneInv => OneLoop
  <2> SUFFICES ASSUME AloneInv, ~crossed PROVE Cardinality(polling) + Cardinality(inferring) <= 1
    BY DEF OneLoop
  <2>1. polling = {} \/ polling = {thread}
    BY DEF AloneInv, OneThread
  <2>2. inferring = {} \/ (polling = {} /\ \E r : inferring = {r})
    BY DEF AloneInv, OneThread
  <2>3. Cardinality({}) = 0 /\ \A x : Cardinality({x}) = 1
    <3>1. Cardinality({}) = 0
      BY FS_EmptySet
    <3>2. \A x : Cardinality({x}) = 1
      BY FS_Singleton
    <3>3. QED
      BY <3>1, <3>2
  <2>4. \/ Cardinality(polling) = 0 /\ Cardinality(inferring) \in 0..1
        \/ Cardinality(polling) = 1 /\ Cardinality(inferring) = 0
    <3>1. 0 \in 0..1 /\ 1 \in 0..1
      OBVIOUS
    <3>2. QED
      BY <2>1, <2>2, <2>3, <3>1, Zenon
  <2>5. QED
    BY <2>4
<1>2. QED
  BY <1>1, AloneAlways, PTL

\* With the same one exception, stop() never closes models that a loop infers on,
\* however many threads stop the detector at once: whoever gets that far has seen,
\* in its join() or since another's, the only loop leave.
THEOREM StopWaitsUnlessCrossed == Spec => ModelsIdleWhenClosed
<1>1. AloneInv /\ [Next]_vars =>
        [~crossed =>
           \A c \in Callers : StopCloses(c) => \A r \in inferring : r.on # models]_vars
  <2> SUFFICES ASSUME AloneInv, ~crossed, NEW c \in Callers, StopCloses(c) PROVE inferring = {}
    OBVIOUS
  <2>1. call[c] = "close"
    BY DEF StopCloses
  <2>2. QED
    BY <2>1 DEF AloneInv, Waited, NoLoops
<1>2. QED
  BY <1>1, AloneAlways, PTL DEF Spec, ModelsIdleWhenClosed

=============================================================================
