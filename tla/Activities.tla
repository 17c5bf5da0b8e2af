------------------------------ MODULE Activities ------------------------------
(***************************************************************************)
(* The activity destroyed and created again in one process, as Android     *)
(* does for a change of configuration the manifest does not name, or to    *)
(* save memory. Each activity has a detector, a session and a panel of its *)
(* own; the timer is the process's, and its callbacks are those of the     *)
(* activity created last.                                                  *)
(*                                                                         *)
(* The detector's start() and stop() are a step each; what comes between   *)
(* their own steps is in Coordinator. Blocks posted to the main thread run *)
(* whether or not their activity is alive.                                 *)
(***************************************************************************)
EXTENDS Integers, Sequences

CONSTANTS
  MaxActivities,  \* activities in a process, a bound
  MaxInputs       \* wake words, taps, questions, slides and tool calls, a bound

ASSUME ActivitiesAssumption == MaxActivities \in Nat \ {0} /\ MaxInputs \in Nat

Nobody == 0
Activities == 1..MaxActivities

VARIABLES
  newest,     \* the activity created last; the timer's callbacks are its
  alive,      \* it is not destroyed
  detector,   \* off, on, or fired: capture-only until it is stopped
  running,    \* sessions that are on
  active,     \* ... as the activity sees them
  parking,    \* sessions whose mic thread has yet to park the detector
  micMuted,   \* panels that show the mute
  slider,     \* the mute switch: it cuts the microphone off
  timerSet,
  ringing,
  mainQ,      \* blocks posted to the main thread
  unlucky,    \* history: destroyed with something under way, or rung out by the dead
  early,      \* history: re-armed at a ring's end in a conversation not shown yet
  inputs

sessionVars == <<running, active, parking>>
ownerVars == <<newest, alive, unlucky, early>>
timerVars == <<timerSet, ringing>>
muteVars == <<micMuted, slider>>
vars == <<ownerVars, detector, sessionVars, muteVars, timerVars, mainQ, inputs>>

Block(op, a) == [op |-> op, of |-> a]
Blocks == [op : {"wake", "shows", "hides", "closed"}, of : Activities]
            \cup [op : {"set", "cancel"}, of : {Nobody}]

\* Before the first onCreate.
Init ==
  /\ newest = Nobody /\ alive = FALSE /\ unlucky = FALSE
  /\ early = FALSE
  /\ detector = [a \in Activities |-> "off"]
  /\ running = {} /\ active = {} /\ parking = {}
  /\ micMuted = {} /\ slider = FALSE
  /\ timerSet = FALSE /\ ringing = FALSE
  /\ mainQ = <<>> /\ inputs = 0

Input == inputs < MaxInputs /\ inputs' = inputs + 1

\* A hand is slower than the main thread and a handoff (see Coordinator).
PostsDone == \A i \in 1..Len(mainQ) : mainQ[i].op \in {"set", "cancel"}
HandMoves == alive /\ PostsDone /\ parking = {}

WakeStart(a) ==
  detector' = IF detector[a] = "off" THEN [detector EXCEPT ![a] = "on"] ELSE detector
WakeStop(a) == detector' = [detector EXCEPT ![a] = "off"]

-----------------------------------------------------------------------------
(* The activity's life. *)

\* onCreate: the detector starts, the timer's callbacks become this activity's.
Create ==
  /\ ~alive /\ newest < MaxActivities
  /\ alive' = TRUE /\ newest' = newest + 1
  /\ WakeStart(newest + 1)
  /\ UNCHANGED <<sessionVars, muteVars, timerVars, mainQ, unlucky, early, inputs>>

StopSession(a) ==
  /\ running' = running \ {a}
  /\ mainQ' = mainQ \o <<Block("hides", a)>>
                \o (IF a \in running THEN <<Block("closed", a)>> ELSE <<>>)

\* Nothing of a is under way that would touch its detector later.
NothingOf(a, q) == \A i \in 1..Len(q) : q[i].of # a \/ q[i].op = "hides"
AtRest(a) == a \notin running /\ a \notin parking /\ NothingOf(a, mainQ)

DetectorLeft(a) == UNCHANGED detector   \* mutant: onDestroy leaves the detector
DetectorStopped(a) == WakeStop(a)

\* onDestroy.
Destroy ==
  /\ alive /\ alive' = FALSE
  /\ DetectorStopped(newest)
  /\ StopSession(newest)
  /\ unlucky' = (unlucky \/ ~AtRest(newest))
  /\ UNCHANGED <<newest, early, active, parking, muteVars, timerVars, inputs>>

-----------------------------------------------------------------------------
(* Detectors and conversations. *)

Fires(a) ==
  /\ Input /\ detector[a] = "on" /\ ~slider
  /\ detector' = [detector EXCEPT ![a] = "fired"]
  /\ mainQ' = Append(mainQ, Block("wake", a))
  /\ UNCHANGED <<ownerVars, sessionVars, muteVars, timerVars>>

Dismissal == IF ringing THEN <<Block("cancel", Nobody)>> ELSE <<>>

StartConversation(a, q) ==
  IF a \in running \cup micMuted
  THEN mainQ' = q \o Dismissal /\ UNCHANGED <<running, parking>>
  ELSE /\ running' = running \cup {a} /\ parking' = parking \cup {a}
       /\ mainQ' = q \o Dismissal \o <<Block("shows", a)>>

\* The mic thread, once its sink is attached.
Parks(a) ==
  /\ a \in parking /\ parking' = parking \ {a}
  /\ WakeStop(a)
  /\ UNCHANGED <<ownerVars, running, active, muteVars, timerVars, mainQ, inputs>>

\* Idle timer, cap, tool or link, seconds after the start.
Ends(a) ==
  /\ a \in running /\ parking = {} /\ PostsDone
  /\ StopSession(a)
  /\ UNCHANGED <<ownerVars, detector, active, parking, muteVars, timerVars, inputs>>

TapOrAsk ==
  /\ Input /\ HandMoves
  /\ \/ newest \in active /\ StopSession(newest) /\ UNCHANGED parking
     \/ newest \notin active /\ StartConversation(newest, mainQ)
  /\ UNCHANGED <<ownerVars, detector, active, muteVars, timerVars>>

ToolSetsTimer ==
  /\ Input /\ running # {}
  /\ mainQ' = Append(mainQ, Block("set", Nobody))
  /\ UNCHANGED <<ownerVars, detector, sessionVars, muteVars, timerVars>>

\* setMuted. The key of a position that the panel has already is dropped.
Slides ==
  /\ Input /\ HandMoves /\ slider' = ~slider
  /\ IF slider' = (newest \in micMuted) THEN UNCHANGED <<micMuted, detector>>
     ELSE \/ /\ slider' /\ micMuted' = micMuted \cup {newest}
             /\ WakeStop(newest)
          \/ /\ ~slider' /\ micMuted' = micMuted \ {newest}
             /\ IF newest \in active THEN UNCHANGED detector ELSE WakeStart(newest)
  /\ UNCHANGED <<ownerVars, sessionVars, timerVars, mainQ>>

-----------------------------------------------------------------------------
(* The main thread's blocks and the timer. *)

Takes(op, a) == mainQ # <<>> /\ Head(mainQ) = Block(op, a)

RunWake(a) ==
  /\ Takes("wake", a)
  /\ StartConversation(a, Tail(mainQ))
  /\ UNCHANGED <<ownerVars, detector, active, muteVars, timerVars, inputs>>

RunShows(a) ==
  /\ \/ Takes("shows", a) /\ active' = active \cup {a}
     \/ Takes("hides", a) /\ active' = active \ {a}
  /\ mainQ' = Tail(mainQ)
  /\ UNCHANGED <<ownerVars, detector, running, parking, muteVars, timerVars, inputs>>

\* onClosed re-arms the detector, of whatever activity.
RunClosed(a) ==
  /\ Takes("closed", a) /\ mainQ' = Tail(mainQ)
  /\ WakeStart(a)
  /\ UNCHANGED <<ownerVars, sessionVars, muteVars, timerVars, inputs>>

AnyConversation == active # {}   \* mutant: one session for the process
OwnConversation == newest \in active

\* cancelInternal, and onRingChange(false) of the newest activity.
CancelInternal ==
  /\ mainQ' = Tail(mainQ) /\ ringing' = FALSE
  /\ IF ringing /\ ~OwnConversation /\ newest \notin micMuted
     THEN /\ WakeStart(newest)
          /\ unlucky' = (unlucky \/ ~alive) /\ early' = (early \/ newest \in running)
     ELSE UNCHANGED <<detector, unlucky, early>>
  /\ UNCHANGED <<newest, alive, sessionVars, muteVars, inputs>>

RunSet == Takes("set", Nobody) /\ CancelInternal /\ timerSet' = TRUE
RunCancel == Takes("cancel", Nobody) /\ CancelInternal /\ timerSet' = FALSE

\* fire, and onRingChange(true).
TimerFires ==
  /\ timerSet /\ ~ringing /\ ringing' = TRUE
  /\ WakeStop(newest)
  /\ UNCHANGED <<ownerVars, sessionVars, muteVars, timerSet, mainQ, inputs>>

\* A tap, a raised voice or the last chime.
RingStops ==
  /\ ringing /\ ~\E i \in 1..Len(mainQ) : mainQ[i].op = "cancel"
  /\ mainQ' = Append(mainQ, Block("cancel", Nobody))
  /\ UNCHANGED <<ownerVars, detector, sessionVars, muteVars, timerVars, inputs>>

-----------------------------------------------------------------------------
Of(a) == Fires(a) \/ Parks(a) \/ Ends(a) \/ RunWake(a) \/ RunShows(a) \/ RunClosed(a)

Next ==
  \/ Create \/ Destroy \/ \E a \in Activities : Of(a)
  \/ TapOrAsk \/ ToolSetsTimer \/ Slides
  \/ RunSet \/ RunCancel \/ TimerFires \/ RingStops

Spec == Init /\ [][Next]_vars

-----------------------------------------------------------------------------
(* Properties. *)

\* Every variable keeps its type, and only what was created is alive.
TypeOK ==
  /\ newest \in 0..MaxActivities /\ (alive => newest # Nobody)
  /\ alive \in BOOLEAN /\ unlucky \in BOOLEAN /\ early \in BOOLEAN /\ slider \in BOOLEAN
  /\ detector \in [Activities -> {"off", "on", "fired"}]
  /\ running \subseteq Activities /\ active \subseteq Activities
  /\ parking \subseteq Activities /\ micMuted \subseteq Activities
  /\ timerSet \in BOOLEAN /\ ringing \in BOOLEAN
  /\ mainQ \in Seq(Blocks) /\ inputs \in Nat

Settled == mainQ = <<>> /\ parking = {}

\* The activity on the screen hears its name: unless its own conversation, its mute
\* or a ring holds the microphone, its detector is on once all that was posted has
\* run, whatever the activities before it left behind in the process. (A ring that
\* ends before its conversation is shown is apart: see Coordinator.)
LiveListens ==
  alive /\ Settled /\ ~ringing /\ ~early /\ newest \notin running \cup micMuted
    => detector[newest] = "on"

OnScreen == IF alive THEN {newest} ELSE {}
Hearing == {a \in Activities : detector[a] # "off"}

\* A destroyed activity stays deaf, and one detector hears a wake word, if every
\* activity was destroyed with nothing of it under way, and no ring ended while there
\* was none: no other order of rings, slides, tools and posted blocks re-arms it.
OneDetectorUnlessUnlucky == ~unlucky => Hearing \subseteq OnScreen

=============================================================================
