--------------------------- MODULE Activities_proofs ---------------------------
(***************************************************************************)
(* Theorems about Activities, for any number of activities and inputs.     *)
(*                                                                         *)
(* Until something unlucky happens, every activity but the live one is at  *)
(* rest and parked (OthersRest): it has no session, no mic thread and no   *)
(* posted block from which its detector could be started. And the live one *)
(* is never without a detector, a conversation, a mute, a ring, or a block *)
(* that will start one (Own), whatever the others left in the process.     *)
(***************************************************************************)
EXTENDS Activities, TLAPS

OthersRest ==
  ~unlucky => \A a \in Activities \ OnScreen : detector[a] = "off" /\ AtRest(a)

IInv == TypeOK /\ OthersRest

LEMMA BlockTyped ==
  /\ \A a \in Activities, op \in {"wake", "shows", "hides", "closed"} :
       Block(op, a) \in Blocks
  /\ \A op \in {"set", "cancel"} : Block(op, Nobody) \in Blocks
BY DEF Block, Blocks

\* What a queue holds of a is unchanged by a block of another or a "hides".
LEMMA NothingAppended ==
  ASSUME NEW q \in Seq(Blocks), NEW b \in Blocks, NEW a, NothingOf(a, q),
         b.of # a \/ b.op = "hides"
  PROVE  NothingOf(a, Append(q, b))
BY DEF NothingOf

LEMMA NothingInTail ==
  ASSUME NEW q \in Seq(Blocks), q # <<>>, NEW a, NothingOf(a, q)
  PROVE  NothingOf(a, Tail(q))
<1>1. Tail(q) \in Seq(Blocks) /\ Len(Tail(q)) = Len(q) - 1
  OBVIOUS
<1>2. \A i \in 1..Len(Tail(q)) : Tail(q)[i] = q[i + 1] /\ i + 1 \in 1..Len(q)
  BY <1>1
<1>3. QED
  BY <1>2 DEF NothingOf

LEMMA DismissalTyped ==
  ASSUME NEW q \in Seq(Blocks)
  PROVE  /\ q \o Dismissal \in Seq(Blocks)
         /\ q \o Dismissal = q \/ q \o Dismissal = Append(q, Block("cancel", Nobody))
BY BlockTyped DEF Dismissal

LEMMA NobodyIsNone == Nobody \notin Activities
BY DEF Nobody, Activities

LEMMA NothingDismissed ==
  ASSUME NEW q \in Seq(Blocks), NEW a \in Activities, NothingOf(a, q)
  PROVE  NothingOf(a, q \o Dismissal)
<1>1. Block("cancel", Nobody) \in Blocks /\ Block("cancel", Nobody).of # a
  BY BlockTyped, NobodyIsNone DEF Block
<1>2. QED
  BY <1>1, DismissalTyped, NothingAppended

LEMMA IInvInit == Init => IInv
<1> SUFFICES ASSUME Init PROVE IInv
  OBVIOUS
<1>1. newest = 0 /\ detector \in [Activities -> {"off", "on", "fired"}]
      /\ \A a \in Activities : detector[a] = "off"
  BY DEF Init, Nobody
<1>2. TypeOK
  <2>1. <<>> \in Seq(Blocks) /\ mainQ = <<>> /\ inputs \in Nat
    BY DEF Init
  <2>2. newest \in 0..MaxActivities /\ ~alive
    BY <1>1, ActivitiesAssumption DEF Init, Nobody, ActivitiesAssumption
  <2>3. /\ alive \in BOOLEAN /\ unlucky \in BOOLEAN /\ early \in BOOLEAN
        /\ slider \in BOOLEAN /\ timerSet \in BOOLEAN /\ ringing \in BOOLEAN
    BY DEF Init
  <2>4. running = {} /\ active = {} /\ parking = {} /\ micMuted = {}
    BY DEF Init
  <2>5. QED
    BY <1>1, <2>1, <2>2, <2>3, <2>4 DEF TypeOK
<1>3. \A a \in Activities : AtRest(a)
  BY DEF Init, AtRest, NothingOf
<1>4. QED
  BY <1>1, <1>2, <1>3 DEF IInv, OthersRest

-----------------------------------------------------------------------------
(* What an operation of an activity on the screen, or of nobody, does. *)

LEMMA StartKeeps ==
  ASSUME TypeOK, NEW a \in Activities, NEW q \in Seq(Blocks), StartConversation(a, q)
  PROVE  /\ running' \subseteq running \cup {a} /\ parking' \subseteq parking \cup {a}
         /\ running' \subseteq Activities /\ parking' \subseteq Activities
         /\ mainQ' \in Seq(Blocks)
         /\ \A o \in Activities \ {a} : NothingOf(o, q) => NothingOf(o, mainQ')
<1>2. Block("shows", a) \in Blocks /\ Block("shows", a).of = a
  BY BlockTyped DEF Block
<1>3. q \o Dismissal \in Seq(Blocks)
  BY DismissalTyped
<1>4. \A o \in Activities \ {a} : NothingOf(o, q) => NothingOf(o, q \o Dismissal)
  BY NothingDismissed
<1>5. CASE a \in running \cup micMuted
  BY <1>3, <1>4, <1>5 DEF StartConversation, TypeOK
<1>6. CASE a \notin running \cup micMuted
  <2>1. mainQ' = Append(q \o Dismissal, Block("shows", a))
        /\ running' = running \cup {a} /\ parking' = parking \cup {a}
    BY <1>2, <1>3, <1>6 DEF StartConversation
  <2>2. \A o \in Activities \ {a} : NothingOf(o, q) => NothingOf(o, mainQ')
    BY <1>2, <1>3, <1>4, <2>1, NothingAppended
  <2>3. QED
    BY <1>2, <1>3, <2>1, <2>2 DEF TypeOK
<1>7. QED
  BY <1>5, <1>6

LEMMA StopKeeps ==
  ASSUME TypeOK, NEW a \in Activities, StopSession(a)
  PROVE  /\ running' \subseteq running /\ a \notin running'
         /\ mainQ' \in Seq(Blocks)
         /\ \A o \in Activities : o # a \/ a \notin running =>
              (NothingOf(o, mainQ) => NothingOf(o, mainQ'))
<1> DEFINE h == Block("hides", a)
           c == Block("closed", a)
<1>2. h \in Blocks /\ h.op = "hides" /\ c \in Blocks /\ c.of = a
  BY BlockTyped DEF Block
<1>3. mainQ \in Seq(Blocks) /\ running' = running \ {a}
  BY DEF TypeOK, StopSession
<1>4. mainQ' = (IF a \in running THEN Append(Append(mainQ, h), c) ELSE Append(mainQ, h))
  <2> HIDE DEF h, c
  <2>1. mainQ' = mainQ \o <<h>> \o (IF a \in running THEN <<c>> ELSE <<>>)
    BY DEF StopSession, h, c
  <2>2. mainQ \o <<h>> = Append(mainQ, h) /\ Append(mainQ, h) \in Seq(Blocks)
    BY <1>2, <1>3
  <2>3. /\ Append(mainQ, h) \o <<>> = Append(mainQ, h)
        /\ Append(mainQ, h) \o <<c>> = Append(Append(mainQ, h), c)
    BY <1>2, <2>2
  <2>4. QED
    BY <2>1, <2>2, <2>3
<1> HIDE DEF h, c
<1>5. Append(mainQ, h) \in Seq(Blocks)
      /\ \A o \in Activities : NothingOf(o, mainQ) => NothingOf(o, Append(mainQ, h))
  BY <1>2, <1>3, NothingAppended
<1>6. /\ Append(Append(mainQ, h), c) \in Seq(Blocks)
      /\ \A o \in Activities \ {a} :
           NothingOf(o, mainQ) => NothingOf(o, Append(Append(mainQ, h), c))
  <2>1. Append(Append(mainQ, h), c) \in Seq(Blocks)
    BY <1>2, <1>5
  <2>2. ASSUME NEW o \in Activities \ {a}, NothingOf(o, mainQ)
        PROVE  NothingOf(o, Append(Append(mainQ, h), c))
    <3>1. NothingOf(o, Append(mainQ, h)) /\ c.of # o
      BY <1>2, <1>5, <2>2
    <3>2. QED
      BY <1>2, <1>5, <3>1, NothingAppended
  <2>3. QED
    BY <2>1, <2>2
<1>7. QED
  BY <1>3, <1>4, <1>5, <1>6

LEMMA WakeKeeps ==
  ASSUME TypeOK, NEW a, WakeStart(a) \/ WakeStop(a)
  PROVE  /\ detector' \in [Activities -> {"off", "on", "fired"}]
         /\ \A o \in Activities \ {a} : detector'[o] = detector[o]
         /\ WakeStop(a) /\ a \in Activities => detector'[a] = "off"
BY DEF TypeOK, WakeStart, WakeStop

\* A step that touches only the activities of T, none of which is off the screen.
LEMMA RestsStay ==
  ASSUME OthersRest, UNCHANGED <<newest, alive>>, unlucky => unlucky', NEW T,
         ~unlucky' => T \subseteq OnScreen,
         \A o \in Activities \ T :
           /\ detector'[o] \in {detector[o], "off"}
           /\ o \in running' => o \in running
           /\ o \in parking' => o \in parking
           /\ NothingOf(o, mainQ) => NothingOf(o, mainQ')
  PROVE  OthersRest'
BY DEF OthersRest, OnScreen, AtRest

\* Whoever is heard, talks, parks or has a block is on the screen.
LEMMA TouchedIsOnScreen ==
  ASSUME OthersRest, ~unlucky, NEW a \in Activities,
         detector[a] # "off" \/ a \in running \/ a \in parking \/ ~NothingOf(a, mainQ)
  PROVE  {a} \subseteq OnScreen
BY DEF OthersRest, AtRest

LEMMA HeadIsSomething ==
  ASSUME mainQ \in Seq(Blocks), NEW a, NEW op \in {"wake", "shows", "closed"},
         Takes(op, a)
  PROVE  ~NothingOf(a, mainQ)
<1>1. Head(mainQ) = mainQ[1] /\ 1 \in 1..Len(mainQ)
  BY DEF Takes
<1>2. mainQ[1].of = a /\ mainQ[1].op = op
  BY <1>1 DEF Takes, Block
<1>3. QED
  BY <1>1, <1>2 DEF NothingOf

-----------------------------------------------------------------------------
\* One step per action; a is on the screen whenever nothing unlucky has happened.
LEMMA IInvSteps == IInv /\ [Next]_vars => IInv'
<1> SUFFICES ASSUME IInv, [Next]_vars PROVE IInv'
  OBVIOUS
<1>0. TypeOK /\ OthersRest /\ mainQ \in Seq(Blocks)
      /\ (newest = Nobody \/ newest \in Activities)
  BY ActivitiesAssumption DEF IInv, TypeOK, Activities, ActivitiesAssumption, Nobody
<1> DEFINE Rests(a) == detector[a] = "off" /\ AtRest(a)
<1>1. CASE Create
  <2>1. newest + 1 \in Activities /\ newest' = newest + 1 /\ alive' /\ ~alive
    BY <1>0, <1>1, ActivitiesAssumption
    DEF Create, TypeOK, Activities, ActivitiesAssumption
  <2>2. /\ detector' \in [Activities -> {"off", "on", "fired"}]
        /\ \A o \in Activities \ {newest + 1} : detector'[o] = detector[o]
    BY <1>0, <1>1, <2>1, WakeKeeps DEF Create
  <2>3. UNCHANGED <<sessionVars, mainQ, unlucky>>
    BY <1>1 DEF Create
  <2>4. TypeOK'
    BY <1>0, <1>1, <2>1, <2>2, ActivitiesAssumption
    DEF Create, TypeOK, sessionVars, muteVars, timerVars, ActivitiesAssumption, Nobody
  <2>5. OthersRest'
    BY <1>0, <2>1, <2>2, <2>3 DEF OthersRest, OnScreen, AtRest, NothingOf, sessionVars
  <2>6. QED
    BY <2>4, <2>5 DEF IInv
<1>2. CASE Destroy
  <2>1. newest \in Activities /\ alive /\ alive' = FALSE /\ newest' = newest
    BY <1>0, <1>2 DEF Destroy, TypeOK, Nobody
  <2>2. WakeStop(newest) /\ StopSession(newest)
        /\ unlucky' = (unlucky \/ ~AtRest(newest))
        /\ UNCHANGED <<early, active, parking, muteVars, timerVars, inputs>>
    BY <1>2 DEF Destroy, DetectorStopped
  <2>3. /\ detector' \in [Activities -> {"off", "on", "fired"}]
        /\ \A o \in Activities \ {newest} : detector'[o] = detector[o]
        /\ newest \in Activities => detector'[newest] = "off"
    BY <1>0, <2>2, WakeKeeps
  <2>4. /\ running' \subseteq running /\ newest \notin running'
        /\ mainQ' \in Seq(Blocks)
        /\ \A o \in Activities : o # newest \/ newest \notin running =>
             (NothingOf(o, mainQ) => NothingOf(o, mainQ'))
    BY <1>0, <2>1, <2>2, StopKeeps
  <2>5. TypeOK'
    BY <1>0, <2>1, <2>2, <2>3, <2>4 DEF TypeOK, muteVars, timerVars
  <2>6. OthersRest'
    <3> SUFFICES ASSUME ~unlucky', NEW o \in Activities
                 PROVE  detector'[o] = "off" /\ AtRest(o)'
      BY DEF OthersRest
    <3>1. ~unlucky /\ AtRest(newest)
      BY <1>0, <2>2 DEF TypeOK
    <3>2. o # newest => Rests(o)
      BY <1>0, <2>1, <3>1 DEF OthersRest, OnScreen
    <3>3. AtRest(o) /\ (newest \notin running)
      BY <3>1, <3>2 DEF AtRest
    <3>4. detector'[o] = "off"
      BY <2>3, <3>2
    <3>5. QED
      BY <2>2, <2>4, <3>3, <3>4 DEF AtRest
  <2>7. QED
    BY <2>5, <2>6 DEF IInv
<1>3. ASSUME NEW a \in Activities, Of(a) PROVE IInv'
  <2>1. CASE Fires(a)
    <3>1. /\ detector[a] = "on" /\ detector' = [detector EXCEPT ![a] = "fired"]
          /\ mainQ' = Append(mainQ, Block("wake", a)) /\ inputs' = inputs + 1
          /\ UNCHANGED <<ownerVars, sessionVars, muteVars, timerVars>>
      BY <2>1 DEF Fires, Input
    <3>2. Block("wake", a) \in Blocks /\ Block("wake", a).of = a
      BY BlockTyped DEF Block
    <3>3. TypeOK'
      BY <1>0, <3>1, <3>2 DEF TypeOK, ownerVars, sessionVars, muteVars, timerVars
    <3>4. OthersRest'
      <4>1. ~unlucky => {a} \subseteq OnScreen
        BY <1>0, <3>1, TouchedIsOnScreen
      <4>2. \A o \in Activities \ {a} : NothingOf(o, mainQ) => NothingOf(o, mainQ')
        BY <1>0, <3>1, <3>2, NothingAppended
      <4>3. \A o \in Activities \ {a} : detector'[o] = detector[o]
        BY <1>0, <3>1 DEF TypeOK
      <4>4. QED
        BY <1>0, <3>1, <4>1, <4>2, <4>3, RestsStay DEF ownerVars, sessionVars
    <3>5. QED
      BY <3>3, <3>4 DEF IInv
  <2>2. CASE Parks(a)
    <3>1. /\ a \in parking /\ parking' = parking \ {a} /\ WakeStop(a)
          /\ UNCHANGED <<ownerVars, running, active, muteVars, timerVars, mainQ, inputs>>
      BY <2>2 DEF Parks
    <3>2. /\ detector' \in [Activities -> {"off", "on", "fired"}]
          /\ \A o \in Activities : detector'[o] \in {detector[o], "off"}
      BY <1>0, <3>1, WakeKeeps
    <3>3. TypeOK'
      BY <1>0, <3>1, <3>2 DEF TypeOK, ownerVars, muteVars, timerVars
    <3>4. \A o \in Activities \ {} : NothingOf(o, mainQ) => NothingOf(o, mainQ')
      BY <3>1
    <3>5. OthersRest'
      BY <1>0, <3>1, <3>2, <3>4, RestsStay DEF ownerVars
    <3>6. QED
      BY <3>3, <3>5 DEF IInv
  <2>3. CASE Ends(a)
    <3>1. /\ a \in running /\ StopSession(a)
          /\ UNCHANGED <<ownerVars, detector, active, parking, muteVars, timerVars,
                         inputs>>
      BY <2>3 DEF Ends
    <3>3. /\ running' \subseteq running /\ mainQ' \in Seq(Blocks)
          /\ \A o \in Activities \ {a} : NothingOf(o, mainQ) => NothingOf(o, mainQ')
      BY <1>0, <3>1, StopKeeps
    <3>4. TypeOK'
      BY <1>0, <3>1, <3>3 DEF TypeOK, ownerVars, muteVars, timerVars
    <3>5. ~unlucky => {a} \subseteq OnScreen
      BY <1>0, <3>1, TouchedIsOnScreen
    <3>6. OthersRest'
      BY <1>0, <3>1, <3>3, <3>5, RestsStay DEF ownerVars
    <3>7. QED
      BY <3>4, <3>6 DEF IInv
  <2>4. CASE RunWake(a)
    <3>1. Takes("wake", a) /\ StartConversation(a, Tail(mainQ))
          /\ UNCHANGED <<ownerVars, detector, active, muteVars, timerVars, inputs>>
      BY <2>4 DEF RunWake
    <3>2. mainQ # <<>> /\ Tail(mainQ) \in Seq(Blocks)
          /\ \A o \in Activities : NothingOf(o, mainQ) => NothingOf(o, Tail(mainQ))
      BY <1>0, <3>1, NothingInTail DEF Takes
    <3>3. /\ running' \subseteq running \cup {a} /\ parking' \subseteq parking \cup {a}
          /\ running' \subseteq Activities /\ parking' \subseteq Activities
          /\ mainQ' \in Seq(Blocks)
          /\ \A o \in Activities \ {a} : NothingOf(o, Tail(mainQ)) => NothingOf(o, mainQ')
      BY <1>0, <3>1, <3>2, StartKeeps
    <3>4. TypeOK'
      BY <1>0, <3>1, <3>3 DEF TypeOK, ownerVars, muteVars, timerVars
    <3>5. ~unlucky => {a} \subseteq OnScreen
      BY <1>0, <3>1, HeadIsSomething, TouchedIsOnScreen
    <3>6. OthersRest'
      BY <1>0, <3>1, <3>2, <3>3, <3>5, RestsStay DEF ownerVars
    <3>7. QED
      BY <3>4, <3>6 DEF IInv
  <2>5. CASE RunShows(a)
    <3>1. /\ mainQ # <<>> /\ mainQ' = Tail(mainQ) /\ active' \subseteq active \cup {a}
          /\ UNCHANGED <<ownerVars, detector, running, parking, muteVars, timerVars, inputs>>
      BY <2>5 DEF RunShows, Takes
    <3>2. Tail(mainQ) \in Seq(Blocks)
          /\ \A o \in Activities : NothingOf(o, mainQ) => NothingOf(o, Tail(mainQ))
      BY <1>0, <3>1, NothingInTail
    <3>3. TypeOK'
      BY <1>0, <3>1, <3>2 DEF TypeOK, ownerVars, muteVars, timerVars
    <3>4. \A o \in Activities \ {} : NothingOf(o, mainQ) => NothingOf(o, mainQ')
      BY <3>1, <3>2
    <3>5. OthersRest'
      BY <1>0, <3>1, <3>4, RestsStay DEF ownerVars
    <3>6. QED
      BY <3>3, <3>5 DEF IInv
  <2>6. CASE RunClosed(a)
    <3>1. /\ Takes("closed", a) /\ mainQ # <<>> /\ mainQ' = Tail(mainQ) /\ WakeStart(a)
          /\ UNCHANGED <<ownerVars, sessionVars, muteVars, timerVars, inputs>>
      BY <2>6 DEF RunClosed, Takes
    <3>2. Tail(mainQ) \in Seq(Blocks)
          /\ \A o \in Activities : NothingOf(o, mainQ) => NothingOf(o, Tail(mainQ))
      BY <1>0, <3>1, NothingInTail
    <3>3. /\ detector' \in [Activities -> {"off", "on", "fired"}]
          /\ \A o \in Activities \ {a} : detector'[o] = detector[o]
      BY <1>0, <3>1, WakeKeeps
    <3>4. TypeOK'
      BY <1>0, <3>1, <3>2, <3>3 DEF TypeOK, ownerVars, sessionVars, muteVars, timerVars
    <3>5. ~unlucky => {a} \subseteq OnScreen
      BY <1>0, <3>1, HeadIsSomething, TouchedIsOnScreen
    <3>6. OthersRest'
      BY <1>0, <3>1, <3>2, <3>3, <3>5, RestsStay DEF ownerVars, sessionVars
    <3>7. QED
      BY <3>4, <3>6 DEF IInv
  <2>7. QED
    BY <1>3, <2>1, <2>2, <2>3, <2>4, <2>5, <2>6 DEF Of
<1>4. CASE TapOrAsk
  <2>1. /\ alive /\ newest \in Activities /\ inputs' = inputs + 1
        /\ UNCHANGED <<ownerVars, detector, active, muteVars, timerVars>>
    BY <1>0, <1>4 DEF TapOrAsk, HandMoves, Input, TypeOK
  <2>2. /\ running' \subseteq running \cup {newest}
        /\ parking' \subseteq parking \cup {newest}
        /\ running' \subseteq Activities /\ parking' \subseteq Activities
        /\ mainQ' \in Seq(Blocks)
        /\ \A o \in Activities \ {newest} : NothingOf(o, mainQ) => NothingOf(o, mainQ')
    <3>1. CASE StopSession(newest) /\ UNCHANGED parking
      BY <1>0, <2>1, <3>1, StopKeeps DEF TypeOK
    <3>2. CASE StartConversation(newest, mainQ)
      BY <1>0, <2>1, <3>2, StartKeeps
    <3>3. QED
      BY <1>4, <3>1, <3>2 DEF TapOrAsk
  <2>3. TypeOK'
    BY <1>0, <2>1, <2>2 DEF TypeOK, ownerVars, muteVars, timerVars
  <2>4. OthersRest'
    <3>1. {newest} \subseteq OnScreen
      BY <2>1 DEF OnScreen
    <3>2. QED
      BY <1>0, <2>1, <2>2, <3>1, RestsStay DEF ownerVars
  <2>5. QED
    BY <2>3, <2>4 DEF IInv
<1>5. CASE Slides
  <2>1. /\ alive /\ newest \in Activities /\ inputs' = inputs + 1 /\ slider' \in BOOLEAN
        /\ UNCHANGED <<ownerVars, sessionVars, timerVars, mainQ>>
    BY <1>0, <1>5 DEF Slides, HandMoves, Input, TypeOK
  <2>2. micMuted' \subseteq Activities
        /\ (UNCHANGED detector \/ WakeStart(newest) \/ WakeStop(newest))
    BY <1>0, <1>5, <2>1 DEF Slides, TypeOK
  <2>3. /\ detector' \in [Activities -> {"off", "on", "fired"}]
        /\ \A o \in Activities \ {newest} : detector'[o] = detector[o]
    BY <1>0, <2>2, WakeKeeps DEF TypeOK
  <2>4. TypeOK'
    BY <1>0, <2>1, <2>2, <2>3 DEF TypeOK, ownerVars, sessionVars, timerVars
  <2>5. OthersRest'
    <3>1. {newest} \subseteq OnScreen
      BY <2>1 DEF OnScreen
    <3>2. \A o \in Activities \ {newest} : NothingOf(o, mainQ) => NothingOf(o, mainQ')
      BY <2>1
    <3>3. QED
      BY <1>0, <2>1, <2>3, <3>1, <3>2, RestsStay DEF ownerVars, sessionVars
  <2>6. QED
    BY <2>4, <2>5 DEF IInv
<1>6. CASE RunSet \/ RunCancel
  <2>1. /\ mainQ # <<>> /\ mainQ' = Tail(mainQ) /\ timerSet' \in BOOLEAN
        /\ ringing' \in BOOLEAN
        /\ UNCHANGED <<newest, alive, sessionVars, muteVars, inputs>>
    BY <1>6 DEF RunSet, RunCancel, CancelInternal, Takes
  <2>2. \/ UNCHANGED <<detector, unlucky, early>>
        \/ /\ WakeStart(newest)
           /\ unlucky' = (unlucky \/ ~alive) /\ early' = (early \/ newest \in running)
    BY <1>6 DEF RunSet, RunCancel, CancelInternal
  <2>3. Tail(mainQ) \in Seq(Blocks)
        /\ \A o \in Activities : NothingOf(o, mainQ) => NothingOf(o, Tail(mainQ))
    BY <1>0, <2>1, NothingInTail
  <2>4. CASE UNCHANGED <<detector, unlucky, early>>
    <3>1. TypeOK'
      BY <1>0, <2>1, <2>3, <2>4 DEF TypeOK, sessionVars, muteVars
    <3>2. \A o \in Activities \ {} : NothingOf(o, mainQ) => NothingOf(o, mainQ')
      BY <2>1, <2>3
    <3>3. OthersRest'
      BY <1>0, <2>1, <2>4, <3>2, RestsStay DEF sessionVars
    <3>4. QED
      BY <3>1, <3>3 DEF IInv
  <2>5. CASE /\ WakeStart(newest)
             /\ unlucky' = (unlucky \/ ~alive) /\ early' = (early \/ newest \in running)
    <3>1. /\ detector' \in [Activities -> {"off", "on", "fired"}]
          /\ \A o \in Activities \ {newest} : detector'[o] = detector[o]
      BY <1>0, <2>5, WakeKeeps
    <3>0. unlucky' \in BOOLEAN /\ early' \in BOOLEAN
      BY <1>0, <2>5, Zenon DEF TypeOK
    <3>2. TypeOK'
      BY <1>0, <2>1, <2>3, <3>0, <3>1 DEF TypeOK, sessionVars, muteVars
    <3>3. (unlucky => unlucky') /\ (~unlucky' => {newest} \subseteq OnScreen)
      BY <2>5 DEF OnScreen
    <3>4. \A o \in Activities \ {newest} : NothingOf(o, mainQ) => NothingOf(o, mainQ')
      BY <2>1, <2>3
    <3>5. OthersRest'
      BY <1>0, <2>1, <3>1, <3>3, <3>4, RestsStay DEF sessionVars
    <3>6. QED
      BY <3>2, <3>5 DEF IInv
  <2>6. QED
    BY <2>2, <2>4, <2>5
<1>7. CASE TimerFires
  <2>1. /\ ringing' = TRUE /\ WakeStop(newest)
        /\ UNCHANGED <<ownerVars, sessionVars, muteVars, timerSet, mainQ, inputs>>
    BY <1>7 DEF TimerFires
  <2>2. /\ detector' \in [Activities -> {"off", "on", "fired"}]
        /\ \A o \in Activities : detector'[o] \in {detector[o], "off"}
    BY <1>0, <2>1, WakeKeeps
  <2>3. TypeOK'
    BY <1>0, <2>1, <2>2 DEF TypeOK, ownerVars, sessionVars, muteVars
  <2>4. \A o \in Activities \ {} : NothingOf(o, mainQ) => NothingOf(o, mainQ')
    BY <2>1
  <2>5. OthersRest'
    BY <1>0, <2>1, <2>2, <2>4, RestsStay DEF ownerVars, sessionVars
  <2>6. QED
    BY <2>3, <2>5 DEF IInv
\* A block of nobody is posted.
<1>8. CASE ToolSetsTimer \/ RingStops
  <2>1. PICK op \in {"set", "cancel"} : mainQ' = Append(mainQ, Block(op, Nobody))
    BY <1>8 DEF ToolSetsTimer, RingStops
  <2>2. /\ UNCHANGED <<ownerVars, detector, sessionVars, muteVars, timerVars>>
        /\ inputs' \in Nat
    BY <1>0, <1>8 DEF ToolSetsTimer, RingStops, Input, TypeOK
  <2>3. Block(op, Nobody) \in Blocks /\ \A o \in Activities : Block(op, Nobody).of # o
    BY BlockTyped, NobodyIsNone DEF Block
  <2>4. TypeOK'
    BY <1>0, <2>1, <2>2, <2>3 DEF TypeOK, ownerVars, sessionVars, muteVars, timerVars
  <2>5. \A o \in Activities \ {} : NothingOf(o, mainQ) => NothingOf(o, mainQ')
    BY <1>0, <2>1, <2>3, NothingAppended
  <2>6. OthersRest'
    BY <1>0, <2>2, <2>5, RestsStay DEF ownerVars, sessionVars
  <2>7. QED
    BY <2>4, <2>6 DEF IInv
<1>9. CASE UNCHANGED vars
  BY <1>9 DEF vars, ownerVars, sessionVars, muteVars, timerVars, IInv, TypeOK,
              OthersRest, OnScreen, AtRest, NothingOf
<1>10. QED
  BY <1>1, <1>2, <1>3, <1>4, <1>5, <1>6, <1>7, <1>8, <1>9 DEF Next

LEMMA IInvAlways == Spec => []IInv
BY IInvInit, IInvSteps, PTL DEF Spec

\* Every variable keeps its type, for any number of activities.
THEOREM ActivitiesTypeCorrect == Spec => []TypeOK
<1>1. IInv => TypeOK
  BY DEF IInv
<1>2. QED
  BY <1>1, IInvAlways, PTL

\* Nothing but a destruction in the middle of something, or a ring that ends without
\* an activity, ever arms a detector that is not on the screen.
THEOREM DestroyedStaysDeaf == Spec => []OneDetectorUnlessUnlucky
<1>1. IInv => OneDetectorUnlessUnlucky
  BY DEF IInv, OthersRest, OneDetectorUnlessUnlucky, Hearing
<1>2. QED
  BY <1>1, IInvAlways, PTL
-----------------------------------------------------------------------------
(***************************************************************************)
(* The activity on the screen hears its name. LiveListens speaks of states *)
(* in which all that was posted has run; inductive is what the posted      *)
(* blocks still promise (Own): a detector that is off though nothing holds *)
(* the microphone has its "closed" to come, one that fired has its "wake"  *)
(* to come or is being parked, and the "closed" of an activity is the      *)
(* block after its "hides", so that no ring's end comes in between.        *)
(***************************************************************************)
Posted(op, a, q) == \E i \in 1..Len(q) : q[i] = Block(op, a)

Shuts(a) == Block("closed", a)
ClosesInTurn(a, q) ==
  /\ \A i \in 1..Len(q) : q[i] = Shuts(a) => i = 1 \/ q[i - 1] = Block("hides", a)
  /\ \A i \in 1..Len(q) : q[i] = Block("hides", a) => i + 1 \in 1..Len(q) /\ q[i + 1] = Shuts(a)
  /\ \A i, j \in 1..Len(q) : q[i] = Shuts(a) /\ q[j] = Shuts(a) => i = j

First(a, q) == q # <<>> /\ q[1] = Shuts(a)

OpsOf == {"wake", "shows", "hides", "closed"}

\* For a the queue r promises what q promised.
SameFor(a, q, r) ==
  /\ \A op \in OpsOf : Posted(op, a, r) <=> Posted(op, a, q)
  /\ ClosesInTurn(a, q) => ClosesInTurn(a, r) /\ (First(a, r) <=> First(a, q))

LEMMA BlocksDiffer ==
  \A op1, op2, a1, a2 : Block(op1, a1) = Block(op2, a2) <=> op1 = op2 /\ a1 = a2
BY DEF Block

LEMMA SameReflexive == ASSUME NEW a, NEW q PROVE SameFor(a, q, q)
BY DEF SameFor

LEMMA SameTransitive ==
  ASSUME NEW a, NEW p, NEW q, NEW r, SameFor(a, p, q), SameFor(a, q, r)
  PROVE  SameFor(a, p, r)
BY DEF SameFor

\* What an appended block adds.
LEMMA PostedAppended ==
  ASSUME NEW q \in Seq(Blocks), NEW b \in Blocks, NEW a
  PROVE  /\ \A op \in OpsOf : Posted(op, a, Append(q, b)) <=> Posted(op, a, q) \/ b = Block(op, a)
         /\ b # Block("hides", a) /\ b # Shuts(a) =>
              (ClosesInTurn(a, q) => ClosesInTurn(a, Append(q, b)))
         /\ b # Shuts(a) => (First(a, Append(q, b)) <=> First(a, q))
<1>1. PICK n \in Nat : n = Len(q)
  OBVIOUS
<1> DEFINE r == Append(q, b)
<1>2. /\ r \in Seq(Blocks) /\ Len(r) = n + 1 /\ r[n + 1] = b
      /\ \A i \in 1..n : r[i] = q[i]
      /\ \A i \in 1..n + 1 : i \in 1..n \/ i = n + 1
  BY <1>1
<1> HIDE DEF r
<1>3. ASSUME NEW op \in OpsOf
      PROVE  Posted(op, a, r) <=> Posted(op, a, q) \/ b = Block(op, a)
  BY <1>1, <1>2 DEF Posted
<1>4. ASSUME b # Block("hides", a), b # Shuts(a), ClosesInTurn(a, q)
      PROVE  ClosesInTurn(a, r)
  <2>1. ASSUME NEW i \in 1..Len(r), r[i] = Shuts(a)
        PROVE  i = 1 \/ r[i - 1] = Block("hides", a)
    <3>1. i \in 1..n /\ q[i] = Shuts(a)
      BY <1>2, <1>4, <2>1
    <3>2. i = 1 \/ q[i - 1] = Block("hides", a)
      BY <1>1, <1>4, <3>1 DEF ClosesInTurn
    <3>3. i = 1 \/ i - 1 \in 1..n
      BY <3>1
    <3>4. QED
      BY <1>2, <3>2, <3>3
  <2>2. ASSUME NEW i \in 1..Len(r), r[i] = Block("hides", a)
        PROVE  i + 1 \in 1..Len(r) /\ r[i + 1] = Shuts(a)
    <3>1. i \in 1..n /\ q[i] = Block("hides", a)
      BY <1>2, <1>4, <2>2
    <3>2. i + 1 \in 1..n /\ q[i + 1] = Shuts(a)
      BY <1>1, <1>4, <3>1 DEF ClosesInTurn
    <3>3. QED
      BY <1>2, <3>2
  <2>3. ASSUME NEW i \in 1..Len(r), NEW j \in 1..Len(r), r[i] = Shuts(a), r[j] = Shuts(a)
        PROVE  i = j
    <3>1. i \in 1..n /\ j \in 1..n /\ q[i] = Shuts(a) /\ q[j] = Shuts(a)
      BY <1>2, <1>4, <2>3
    <3>2. QED
      BY <1>1, <1>4, <3>1 DEF ClosesInTurn
  <2>4. QED
    BY <2>1, <2>2, <2>3 DEF ClosesInTurn
<1>5. b # Shuts(a) => (First(a, r) <=> First(a, q))
  <2>1. q # <<>> => n # 0 /\ r[1] = q[1]
    BY <1>1, <1>2
  <2>2. q = <<>> => r[1] = b
    BY <1>1, <1>2
  <2>3. r # <<>>
    BY <1>2
  <2>4. QED
    BY <2>1, <2>2, <2>3 DEF First
<1>6. QED
  BY <1>3, <1>4, <1>5 DEF r

LEMMA SameAppended ==
  ASSUME NEW q \in Seq(Blocks), NEW b \in Blocks, NEW a, b.of # a
  PROVE  SameFor(a, q, Append(q, b))
<1>1. \A op : b # Block(op, a)
  BY DEF Block
<1>2. QED
  BY <1>1, PostedAppended DEF SameFor, Shuts

\* What taking the first block leaves.
LEMMA PostedTail ==
  ASSUME NEW q \in Seq(Blocks), q # <<>>, NEW a
  PROVE  /\ \A op \in OpsOf : Posted(op, a, q) <=> Posted(op, a, Tail(q)) \/ Head(q) = Block(op, a)
         /\ ClosesInTurn(a, q) =>
              /\ ClosesInTurn(a, Tail(q))
              /\ Head(q) = Shuts(a) => ~Posted("closed", a, Tail(q))
              /\ Head(q) = Block("hides", a) <=> First(a, Tail(q))
<1> DEFINE r == Tail(q)
<1>1. PICK n \in Nat : Len(q) = n + 1
  OBVIOUS
<1>2. /\ r \in Seq(Blocks) /\ Len(r) = n /\ Head(q) = q[1]
      /\ \A i \in 1..n : r[i] = q[i + 1] /\ i + 1 \in 1..n + 1
      /\ \A i \in 1..n + 1 : i = 1 \/ (i - 1 \in 1..n /\ r[i - 1] = q[i])
      /\ n # 0 => r # <<>>
  <2>1. /\ r \in Seq(Blocks) /\ Len(r) = n /\ Head(q) = q[1]
        /\ \A i \in 1..n : r[i] = q[i + 1] /\ i + 1 \in 1..n + 1
    BY <1>1
  <2>2. \A i \in 1..n + 1 : i = 1 \/ (i - 1 \in 1..n /\ (i - 1) + 1 = i)
    OBVIOUS
  <2>3. n # 0 => r # <<>>
    BY <2>1
  <2> HIDE DEF r
  <2>4. \A i \in 1..n + 1 : i = 1 \/ (i - 1 \in 1..n /\ r[i - 1] = q[i])
    BY <2>1, <2>2
  <2>5. QED
    BY <2>1, <2>3, <2>4
<1> HIDE DEF r
<1>3. ASSUME NEW op \in OpsOf
      PROVE  Posted(op, a, q) <=> Posted(op, a, r) \/ Head(q) = Block(op, a)
  <2>1. ASSUME NEW i \in 1..Len(q), q[i] = Block(op, a)
        PROVE  Posted(op, a, r) \/ Head(q) = Block(op, a)
    BY <1>1, <1>2, <2>1 DEF Posted
  <2>2. ASSUME NEW i \in 1..Len(r), r[i] = Block(op, a)
        PROVE  Posted(op, a, q)
    <3>1. i + 1 \in 1..Len(q) /\ q[i + 1] = Block(op, a)
      BY <1>1, <1>2, <2>2
    <3>2. QED
      BY <3>1 DEF Posted
  <2>3. Head(q) = Block(op, a) => Posted(op, a, q)
    <3>1. 1 \in 1..Len(q)
      BY <1>1
    <3>2. QED
      BY <1>2, <3>1 DEF Posted
  <2>4. QED
    BY <2>1, <2>2, <2>3 DEF Posted
<1>4. ASSUME ClosesInTurn(a, q)
      PROVE  /\ ClosesInTurn(a, r)
             /\ Head(q) = Shuts(a) => ~Posted("closed", a, r)
             /\ Head(q) = Block("hides", a) <=> First(a, r)
  <2>1. ASSUME NEW i \in 1..Len(r), r[i] = Shuts(a)
        PROVE  i = 1 \/ r[i - 1] = Block("hides", a)
    <3>1. i \in 1..n /\ i + 1 \in 1..n + 1 /\ q[i + 1] = Shuts(a)
      BY <1>2, <2>1
    <3>2. q[(i + 1) - 1] = Block("hides", a)
      BY <1>1, <1>4, <3>1 DEF ClosesInTurn
    <3>3. i = 1 \/ r[i - 1] = q[i]
      BY <1>2, <3>1
    <3>4. QED
      BY <3>1, <3>2, <3>3
  <2>2. ASSUME NEW i \in 1..Len(r), r[i] = Block("hides", a)
        PROVE  i + 1 \in 1..Len(r) /\ r[i + 1] = Shuts(a)
    <3>1. i \in 1..n /\ i + 1 \in 1..n + 1 /\ q[i + 1] = Block("hides", a)
      BY <1>2, <2>2
    <3>2. i + 2 \in 1..n + 1 /\ q[i + 2] = Shuts(a)
      BY <1>1, <1>4, <3>1 DEF ClosesInTurn
    <3>3. i + 1 \in 1..n /\ r[i + 1] = q[(i + 1) + 1]
      BY <1>2, <3>1, <3>2
    <3>4. QED
      BY <1>2, <3>1, <3>2, <3>3
  <2>3. ASSUME NEW i \in 1..Len(r), NEW j \in 1..Len(r), r[i] = Shuts(a), r[j] = Shuts(a)
        PROVE  i = j
    <3>1. i \in 1..n /\ j \in 1..n /\ i + 1 \in 1..n + 1 /\ j + 1 \in 1..n + 1
          /\ q[i + 1] = Shuts(a) /\ q[j + 1] = Shuts(a)
      BY <1>2, <2>3
    <3>2. i + 1 = j + 1
      BY <1>1, <1>4, <3>1 DEF ClosesInTurn
    <3>3. QED
      BY <3>1, <3>2
  <2>4. ASSUME Head(q) = Shuts(a), NEW i \in 1..Len(r), r[i] = Shuts(a) PROVE FALSE
    <3>1. i \in 1..n /\ i + 1 \in 1..n + 1 /\ 1 \in 1..n + 1
          /\ q[i + 1] = Shuts(a) /\ q[1] = Shuts(a)
      BY <1>2, <2>4
    <3>2. i + 1 = 1
      BY <1>1, <1>4, <3>1 DEF ClosesInTurn
    <3>3. QED
      BY <3>1, <3>2
  <2>5. ASSUME Head(q) = Block("hides", a) PROVE First(a, r)
    <3>1. 1 \in 1..n + 1 /\ q[1] = Block("hides", a)
      BY <1>2, <2>5
    <3>2. 2 \in 1..n + 1 /\ q[2] = Shuts(a)
      BY <1>1, <1>4, <3>1 DEF ClosesInTurn
    <3>3. QED
      BY <1>2, <3>2 DEF First
  <2>6. ASSUME First(a, r) PROVE Head(q) = Block("hides", a)
    <3>1. 1 \in 1..n /\ r[1] = Shuts(a)
      BY <1>2, <2>6 DEF First
    <3>2. 2 \in 1..n + 1 /\ q[2] = Shuts(a)
      BY <1>2, <3>1
    <3>3. q[2 - 1] = Block("hides", a)
      BY <1>1, <1>4, <3>2 DEF ClosesInTurn
    <3>4. QED
      BY <1>2, <3>3
  <2>7. QED
    BY <2>1, <2>2, <2>3, <2>4, <2>5, <2>6 DEF ClosesInTurn, Posted, Shuts
<1>5. QED
  BY <1>3, <1>4 DEF r

LEMMA SameTail ==
  ASSUME NEW q \in Seq(Blocks), q # <<>>, NEW a, Head(q).of # a
  PROVE  SameFor(a, q, Tail(q))
<1>1. \A op : Head(q) # Block(op, a)
  BY DEF Block
<1>2. ~First(a, q)
  BY <1>1 DEF Shuts, First
<1>3. QED
  BY <1>1, <1>2, PostedTail DEF SameFor

LEMMA SameDismissed ==
  ASSUME NEW q \in Seq(Blocks), NEW a \in Activities
  PROVE  SameFor(a, q, q \o Dismissal)
<1>1. Block("cancel", Nobody) \in Blocks /\ Block("cancel", Nobody).of # a
  BY BlockTyped, NobodyIsNone DEF Block
<1>2. QED
  BY <1>1, DismissalTyped, SameAppended, SameReflexive

\* The two blocks of a stop, when nothing of a is posted.
LEMMA StopPosts ==
  ASSUME NEW q \in Seq(Blocks), NEW a \in Activities, \A op \in OpsOf : ~Posted(op, a, q)
  PROVE  LET r == Append(Append(q, Block("hides", a)), Shuts(a)) IN
         /\ Posted("closed", a, r) /\ ClosesInTurn(a, r)
         /\ ~Posted("wake", a, r) /\ ~Posted("shows", a, r) /\ ~First(a, r)
<1> DEFINE h == Block("hides", a)
           p == Append(q, h)
           r == Append(p, Shuts(a))
<1>0. h \in Blocks /\ Shuts(a) \in Blocks /\ "hides" \in OpsOf /\ "closed" \in OpsOf
      /\ "wake" \in OpsOf /\ "shows" \in OpsOf /\ h # Shuts(a)
  BY BlockTyped, BlocksDiffer DEF Shuts, OpsOf
<1>1. PICK n \in Nat : n = Len(q)
  OBVIOUS
<1> HIDE DEF h
<1>2. /\ p \in Seq(Blocks) /\ r \in Seq(Blocks) /\ Len(p) = n + 1 /\ Len(r) = n + 2
      /\ r[n + 1] = h /\ r[n + 2] = Shuts(a) /\ \A i \in 1..n : r[i] = q[i]
      /\ \A i \in 1..n + 2 : i \in 1..n \/ i = n + 1 \/ i = n + 2
  BY <1>0, <1>1
<1> HIDE DEF p, r
<1>3. \A i \in 1..n : r[i] # h /\ r[i] # Shuts(a)
  BY <1>0, <1>1, <1>2 DEF Posted, h, Shuts
<1>4. /\ \A i \in 1..n + 2 : r[i] = Shuts(a) => i = n + 2
      /\ \A i \in 1..n + 2 : r[i] = h => i = n + 1
  BY <1>0, <1>2, <1>3
<1>5. ClosesInTurn(a, r)
  <2>1. \A i \in 1..Len(r) : r[i] = Shuts(a) => i = 1 \/ r[i - 1] = h
    <3>1. (n + 2) - 1 = n + 1
      OBVIOUS
    <3>2. QED
      BY <1>2, <1>4, <3>1
  <2>2. \A i \in 1..Len(r) : r[i] = h => i + 1 \in 1..Len(r) /\ r[i + 1] = Shuts(a)
    <3>1. (n + 1) + 1 = n + 2 /\ n + 2 \in 1..n + 2
      OBVIOUS
    <3>2. QED
      BY <1>2, <1>4, <3>1
  <2>3. \A i, j \in 1..Len(r) : r[i] = Shuts(a) /\ r[j] = Shuts(a) => i = j
    BY <1>2, <1>4
  <2>4. QED
    BY <2>1, <2>2, <2>3 DEF ClosesInTurn, h
<1>6. Posted("closed", a, r)
  BY <1>2 DEF Posted, Shuts
<1>7. ~Posted("wake", a, r) /\ ~Posted("shows", a, r)
  <2>1. /\ Block("wake", a) # h /\ Block("wake", a) # Shuts(a)
        /\ Block("shows", a) # h /\ Block("shows", a) # Shuts(a)
    BY BlocksDiffer DEF h, Shuts
  <2>2. \A i \in 1..n : r[i] # Block("wake", a) /\ r[i] # Block("shows", a)
    BY <1>0, <1>1, <1>2 DEF Posted
  <2>3. QED
    BY <1>2, <2>1, <2>2 DEF Posted
<1>8. ~First(a, r)
  <2>1. 1 \in 1..n + 2 /\ 1 # n + 2
    OBVIOUS
  <2>2. QED
    BY <1>4, <2>1 DEF First
<1>9. QED
  BY <1>5, <1>6, <1>7, <1>8 DEF r, p, h

-----------------------------------------------------------------------------
(* What a step of one activity does to the others: nothing. *)

SameAs(a) ==
  /\ detector'[a] = detector[a]
  /\ a \in running' <=> a \in running
  /\ a \in active' <=> a \in active
  /\ a \in parking' <=> a \in parking

Unmoved(a) == SameAs(a) /\ SameFor(a, mainQ, mainQ')

\* Starting a conversation posts a dismissal and, if it does start, a "shows".
LEMMA StartPosts ==
  ASSUME TypeOK, NEW a \in Activities, NEW q \in Seq(Blocks), StartConversation(a, q)
  PROVE  /\ \A o \in Activities \ {a} : SameFor(o, q, mainQ')
         /\ mainQ' \in Seq(Blocks)
         /\ \/ /\ a \in running \cup micMuted /\ UNCHANGED <<running, parking>>
               /\ SameFor(a, q, mainQ')
            \/ /\ a \notin running \cup micMuted
               /\ running' = running \cup {a} /\ parking' = parking \cup {a}
               /\ \A op \in OpsOf :
                    Posted(op, a, mainQ') <=> Posted(op, a, q) \/ op = "shows"
               /\ ClosesInTurn(a, q) =>
                    ClosesInTurn(a, mainQ') /\ (First(a, mainQ') <=> First(a, q))
<1> DEFINE d == q \o Dismissal
           b == Block("shows", a)
<1>1. /\ d \in Seq(Blocks) /\ b \in Blocks /\ b.of = a
      /\ b # Block("hides", a) /\ b # Shuts(a)
      /\ \A op \in OpsOf : b = Block(op, a) <=> op = "shows"
  BY DismissalTyped, BlockTyped, BlocksDiffer DEF Block, Shuts, OpsOf
<1>2. \A o \in Activities : SameFor(o, q, d)
  BY SameDismissed
<1>4. CASE a \in running \cup micMuted
  BY <1>1, <1>2, <1>4 DEF StartConversation
<1>5. CASE a \notin running \cup micMuted
  <2>1. mainQ' = Append(d, b) /\ running' = running \cup {a} /\ parking' = parking \cup {a}
    BY <1>1, <1>5 DEF StartConversation
  <2> HIDE DEF d, b
  <2>2. \A o \in Activities \ {a} : SameFor(o, q, mainQ')
    <3> SUFFICES ASSUME NEW o \in Activities \ {a} PROVE SameFor(o, q, mainQ')
      OBVIOUS
    <3>1. SameFor(o, d, Append(d, b))
      BY <1>1, SameAppended
    <3>2. QED
      BY <1>2, <2>1, <3>1, SameTransitive
  <2>3. \A op \in OpsOf : Posted(op, a, mainQ') <=> Posted(op, a, q) \/ op = "shows"
    BY <1>1, <1>2, <2>1, PostedAppended DEF SameFor
  <2>4. ClosesInTurn(a, q) => ClosesInTurn(a, mainQ')
    BY <1>1, <1>2, <2>1, PostedAppended DEF SameFor
  <2>5. ClosesInTurn(a, q) => (First(a, mainQ') <=> First(a, q))
    BY <1>1, <1>2, <2>1, PostedAppended DEF SameFor
  <2>6. mainQ' \in Seq(Blocks)
    BY <1>1, <2>1
  <2>7. QED
    BY <1>5, <2>1, <2>2, <2>3, <2>4, <2>5, <2>6
<1>6. QED
  BY <1>4, <1>5

\* Stopping a session posts its "hides", and its "closed" if it was on.
LEMMA StopUnmoved ==
  ASSUME TypeOK, NEW a \in Activities, StopSession(a)
  PROVE  /\ \A o \in Activities \ {a} : SameFor(o, mainQ, mainQ')
         /\ a \in running => mainQ' = Append(Append(mainQ, Block("hides", a)), Shuts(a))
         /\ running' = running \ {a}
<1> DEFINE h == Block("hides", a)
<1>1. h \in Blocks /\ Shuts(a) \in Blocks /\ h.of = a /\ Shuts(a).of = a
      /\ mainQ \in Seq(Blocks)
  BY BlockTyped DEF Block, Shuts, TypeOK
<1> HIDE DEF h
<1>2. mainQ' = mainQ \o <<h>> \o (IF a \in running THEN <<Shuts(a)>> ELSE <<>>)
      /\ running' = running \ {a}
  BY DEF StopSession, h, Shuts
<1>3. mainQ \o <<h>> = Append(mainQ, h) /\ Append(mainQ, h) \in Seq(Blocks)
  BY <1>1
<1>4. /\ Append(mainQ, h) \o <<>> = Append(mainQ, h)
      /\ Append(mainQ, h) \o <<Shuts(a)>> = Append(Append(mainQ, h), Shuts(a))
  BY <1>1, <1>3
<1>5. ASSUME NEW o \in Activities \ {a} PROVE SameFor(o, mainQ, mainQ')
  <2>1. SameFor(o, mainQ, Append(mainQ, h))
    BY <1>1, SameAppended
  <2>2. SameFor(o, Append(mainQ, h), Append(Append(mainQ, h), Shuts(a)))
    BY <1>1, <1>3, SameAppended
  <2>3. SameFor(o, mainQ, Append(Append(mainQ, h), Shuts(a)))
    BY <2>1, <2>2, SameTransitive
  <2>4. mainQ' = Append(mainQ, h) \/ mainQ' = Append(Append(mainQ, h), Shuts(a))
    BY <1>2, <1>3, <1>4
  <2>5. QED
    BY <2>1, <2>3, <2>4
<1>6. QED
  BY <1>2, <1>3, <1>4, <1>5 DEF h

LEMMA OthersUnmoved ==
  ASSUME TypeOK, NEW a \in Activities, Of(a), NEW o \in Activities \ {a}
  PROVE  Unmoved(o)
<1>0. mainQ \in Seq(Blocks) /\ detector \in [Activities -> {"off", "on", "fired"}]
  BY DEF TypeOK
<1>1. CASE Fires(a)
  <2>1. Block("wake", a) \in Blocks /\ Block("wake", a).of # o
    BY BlockTyped DEF Block
  <2>2. SameFor(o, mainQ, mainQ')
    BY <1>0, <1>1, <2>1, SameAppended DEF Fires
  <2>3. QED
    BY <1>0, <1>1, <2>2 DEF Fires, Unmoved, SameAs, sessionVars
<1>2. CASE Parks(a)
  BY <1>0, <1>2, SameReflexive DEF Parks, WakeStop, Unmoved, SameAs
<1>3. CASE Ends(a)
  <2>1. SameFor(o, mainQ, mainQ') /\ running' = running \ {a}
    BY <1>3, StopUnmoved DEF Ends
  <2>2. QED
    BY <1>3, <2>1 DEF Ends, Unmoved, SameAs
<1>4. CASE RunWake(a)
  <2>1. mainQ # <<>> /\ Head(mainQ).of # o /\ Tail(mainQ) \in Seq(Blocks)
        /\ StartConversation(a, Tail(mainQ)) /\ UNCHANGED <<detector, active>>
    BY <1>0, <1>4 DEF RunWake, Takes, Block
  <2>2. SameFor(o, mainQ, Tail(mainQ)) /\ SameFor(o, Tail(mainQ), mainQ')
    BY <1>0, <2>1, SameTail, StartPosts
  <2>3. SameFor(o, mainQ, mainQ')
    BY <2>2, SameTransitive
  <2>4. (o \in running' <=> o \in running) /\ (o \in parking' <=> o \in parking)
    BY <2>1 DEF StartConversation
  <2>5. QED
    BY <2>1, <2>3, <2>4 DEF Unmoved, SameAs
<1>5. CASE RunShows(a)
  <2>1. mainQ # <<>> /\ Head(mainQ).of # o /\ mainQ' = Tail(mainQ)
        /\ UNCHANGED <<detector, running, parking>> /\ (o \in active' <=> o \in active)
    BY <1>0, <1>5 DEF RunShows, Takes, Block
  <2>2. SameFor(o, mainQ, mainQ')
    BY <1>0, <2>1, SameTail
  <2>3. QED
    BY <2>1, <2>2 DEF Unmoved, SameAs
<1>6. CASE RunClosed(a)
  <2>1. mainQ # <<>> /\ Head(mainQ).of # o /\ mainQ' = Tail(mainQ) /\ WakeStart(a)
        /\ UNCHANGED sessionVars
    BY <1>0, <1>6 DEF RunClosed, Takes, Block
  <2>2. SameFor(o, mainQ, mainQ')
    BY <1>0, <2>1, SameTail
  <2>3. detector'[o] = detector[o]
    BY <1>0, <2>1 DEF WakeStart
  <2>4. QED
    BY <2>1, <2>2, <2>3 DEF Unmoved, SameAs, sessionVars
<1>7. QED
  BY <1>1, <1>2, <1>3, <1>4, <1>5, <1>6 DEF Of

\* The activity's life, the hand, the tools and the timer touch the newest only.
LEMMA NewestOnly ==
  ASSUME TypeOK, NEW o \in Activities, o # newest, o # newest',
         \/ Create \/ Destroy \/ TapOrAsk \/ ToolSetsTimer \/ Slides
         \/ RunSet \/ RunCancel \/ TimerFires \/ RingStops
  PROVE  Unmoved(o)
<1>0. mainQ \in Seq(Blocks) /\ detector \in [Activities -> {"off", "on", "fired"}]
      /\ (newest = Nobody \/ newest \in Activities)
  BY ActivitiesAssumption DEF TypeOK, Activities, ActivitiesAssumption, Nobody
<1>1. CASE Create
  BY <1>0, <1>1, SameReflexive DEF Create, WakeStart, Unmoved, SameAs, sessionVars
<1>2. CASE Destroy
  <2>1. newest \in Activities
    BY <1>0, <1>2 DEF Destroy, TypeOK
  <2>2. SameFor(o, mainQ, mainQ') /\ running' = running \ {newest}
    BY <1>2, <2>1, StopUnmoved DEF Destroy
  <2>3. QED
    BY <1>0, <1>2, <2>2 DEF Destroy, DetectorStopped, WakeStop, Unmoved, SameAs
<1>3. CASE TapOrAsk
  <2>1. newest \in Activities /\ UNCHANGED <<detector, active>>
    BY <1>0, <1>3 DEF TapOrAsk, HandMoves, TypeOK
  <2>2. CASE StopSession(newest) /\ UNCHANGED parking
    <3>1. SameFor(o, mainQ, mainQ') /\ running' = running \ {newest}
      BY <2>1, <2>2, StopUnmoved
    <3>2. QED
      BY <2>1, <2>2, <3>1 DEF Unmoved, SameAs
  <2>3. CASE StartConversation(newest, mainQ)
    <3>1. SameFor(o, mainQ, mainQ')
      BY <1>0, <2>1, <2>3, StartPosts
    <3>2. QED
      BY <2>1, <2>3, <3>1 DEF StartConversation, Unmoved, SameAs
  <2>4. QED
    BY <1>3, <2>2, <2>3 DEF TapOrAsk
<1>4. CASE ToolSetsTimer \/ RingStops
  <2>1. PICK op \in {"set", "cancel"} : mainQ' = Append(mainQ, Block(op, Nobody))
    BY <1>4 DEF ToolSetsTimer, RingStops
  <2>2. Block(op, Nobody) \in Blocks /\ Block(op, Nobody).of # o
    BY BlockTyped, NobodyIsNone DEF Block
  <2>3. SameFor(o, mainQ, mainQ')
    BY <1>0, <2>1, <2>2, SameAppended
  <2>4. QED
    BY <1>4, <2>3 DEF ToolSetsTimer, RingStops, Unmoved, SameAs, sessionVars
<1>5. CASE Slides
  BY <1>0, <1>5, SameReflexive DEF Slides, WakeStart, WakeStop, Unmoved, SameAs, sessionVars
<1>6. CASE RunSet \/ RunCancel
  <2>1. mainQ # <<>> /\ Head(mainQ).of # o /\ mainQ' = Tail(mainQ) /\ UNCHANGED sessionVars
    BY <1>6, NobodyIsNone DEF RunSet, RunCancel, CancelInternal, Takes, Block
  <2>2. SameFor(o, mainQ, mainQ')
    BY <1>0, <2>1, SameTail
  <2>3. detector'[o] = detector[o]
    BY <1>0, <1>6 DEF RunSet, RunCancel, CancelInternal, WakeStart
  <2>4. QED
    BY <2>1, <2>2, <2>3 DEF Unmoved, SameAs, sessionVars
<1>7. CASE TimerFires
  BY <1>0, <1>7, SameReflexive DEF TimerFires, WakeStop, Unmoved, SameAs, sessionVars
<1>8. QED
  BY <1>1, <1>2, <1>3, <1>4, <1>5, <1>6, <1>7

-----------------------------------------------------------------------------
\* An activity that is not created yet has nothing.
Untouched(a) ==
  /\ detector[a] = "off" /\ a \notin running \cup active \cup parking \cup micMuted
  /\ \A op \in OpsOf : ~Posted(op, a, mainQ)

Fresh == \A a \in Activities : a > newest => Untouched(a)

\* A conversation is shown while it runs, or its "shows" or "closed" is to come.
Talks(a) ==
  /\ a \in parking => a \in running
  /\ a \in running => a \in active \/ Posted("shows", a, mainQ)
  /\ a \in active => a \in running \/ Posted("closed", a, mainQ)
  /\ Posted("shows", a, mainQ) => a \in running

\* What the detector is, from what holds the microphone and what is to come.
Hears(a) ==
  /\ detector[a] = "fired" => Posted("wake", a, mainQ) \/ a \in parking
  /\ a \in running /\ a \notin parking => detector[a] = "off"
  /\ ~ringing /\ a \notin micMuted /\ a \notin running /\ ~Posted("closed", a, mainQ)
       => detector[a] # "off"
  /\ Posted("wake", a, mainQ) => a \notin micMuted
  /\ a \in micMuted => slider

\* What a "closed" to come finds.
Closes(a) ==
  /\ Posted("closed", a, mainQ) =>
       /\ a \notin running /\ detector[a] = "off" /\ ~Posted("wake", a, mainQ)
       /\ a \in active \/ First(a, mainQ)
  /\ First(a, mainQ) => a \notin active
  /\ ClosesInTurn(a, mainQ)

Own(a) == Talks(a) /\ Hears(a) /\ Closes(a)

LiveInv == /\ TypeOK /\ Fresh
           /\ alive /\ ~early => Own(newest)

LEMMA LiveInit == Init => LiveInv
<1> SUFFICES ASSUME Init PROVE LiveInv
  OBVIOUS
<1>1. TypeOK /\ alive = FALSE
  BY IInvInit DEF IInv, Init
<1>2. Fresh
  BY DEF Init, Fresh, Untouched, Posted
<1>3. QED
  BY <1>1, <1>2 DEF LiveInv

\* A step of others, and none of the ring and the mute, leaves what is promised.
LEMMA OwnStays ==
  ASSUME NEW a, Own(a), Unmoved(a), UNCHANGED <<ringing, muteVars>>
  PROVE  Own(a)'
<1>1. /\ Posted("wake", a, mainQ') <=> Posted("wake", a, mainQ)
      /\ Posted("shows", a, mainQ') <=> Posted("shows", a, mainQ)
      /\ Posted("closed", a, mainQ') <=> Posted("closed", a, mainQ)
  BY DEF Unmoved, SameFor, OpsOf
<1>2. Talks(a)'
  BY <1>1 DEF Own, Talks, Unmoved, SameAs
<1>3. Hears(a)'
  BY <1>1 DEF Own, Hears, Unmoved, SameAs, muteVars
<1>4. Closes(a)'
  BY <1>1 DEF Own, Closes, Unmoved, SameAs, SameFor
<1>5. QED
  BY <1>2, <1>3, <1>4 DEF Own

\* When the posts are done nothing of an activity is posted.
LEMMA NothingPosted ==
  ASSUME PostsDone, NEW a
  PROVE  \A op \in OpsOf : ~Posted(op, a, mainQ)
<1> SUFFICES ASSUME NEW op \in OpsOf, NEW i \in 1..Len(mainQ), mainQ[i] = Block(op, a)
             PROVE  FALSE
  BY DEF Posted
<1>1. mainQ[i].op = op /\ mainQ[i].op \in {"set", "cancel"}
  BY DEF PostsDone, Block
<1>2. QED
  BY <1>1 DEF OpsOf

LEMMA FreshStep ==
  ASSUME LiveInv, [Next]_vars
  PROVE  Fresh'
<1> SUFFICES ASSUME NEW o \in Activities, o > newest' PROVE Untouched(o)'
  BY DEF Fresh
<1>0. TypeOK /\ newest \in Int /\ o \in Int /\ (newest' = newest \/ newest' = newest + 1)
  <2>1. newest' = newest \/ newest' = newest + 1
    BY DEF Next, Create, Destroy, Of, Fires, Parks, Ends, RunWake, RunShows, RunClosed, TapOrAsk,
       ToolSetsTimer, Slides, RunSet, RunCancel, CancelInternal, TimerFires, RingStops, vars,
       ownerVars
  <2>2. QED
    BY <2>1 DEF LiveInv, TypeOK, Activities
<1>1. o > newest /\ o # newest /\ o # newest' /\ Untouched(o)
  BY <1>0 DEF LiveInv, Fresh
<1>2. o \notin micMuted'
  BY <1>0, <1>1 DEF Untouched, Next, Create, Destroy, Of, Fires, Parks, Ends, RunWake, RunShows,
     RunClosed, TapOrAsk, ToolSetsTimer, Slides, RunSet, RunCancel, CancelInternal, TimerFires,
     RingStops, vars, muteVars
<1>3. ~Of(o)
  <2>1. ~Takes("wake", o) /\ ~Takes("shows", o) /\ ~Takes("hides", o) /\ ~Takes("closed", o)
    <3>1. mainQ # <<>> => 1 \in 1..Len(mainQ) /\ Head(mainQ) = mainQ[1]
      BY <1>0 DEF TypeOK
    <3>2. QED
      BY <1>1, <3>1 DEF Takes, Untouched, Posted, OpsOf
  <2>2. QED
    BY <1>1, <2>1 DEF Of, Fires, Parks, Ends, RunWake, RunShows, RunClosed, Untouched
<1>4. CASE \E a \in Activities : Of(a)
  <2>1. PICK a \in Activities : Of(a)
    BY <1>4
  <2>2. Unmoved(o)
    BY <1>0, <1>3, <2>1, OthersUnmoved
  <2>3. QED
    BY <1>1, <1>2, <2>2 DEF Untouched, Unmoved, SameAs, SameFor
<1>5. CASE \/ Create \/ Destroy \/ TapOrAsk \/ ToolSetsTimer \/ Slides
           \/ RunSet \/ RunCancel \/ TimerFires \/ RingStops
  <2>1. Unmoved(o)
    BY <1>0, <1>1, <1>5, NewestOnly
  <2>2. QED
    BY <1>1, <1>2, <2>1 DEF Untouched, Unmoved, SameAs, SameFor
<1>6. CASE UNCHANGED vars
  BY <1>1, <1>6 DEF vars, ownerVars, sessionVars, muteVars, Untouched, Posted
<1>7. QED
  BY <1>4, <1>5, <1>6 DEF Next

LEMMA Distinct ==
  ASSUME NEW a
  PROVE  /\ Block("hides", a) # Shuts(a) /\ Block("wake", a) # Shuts(a)
         /\ Block("shows", a) # Shuts(a) /\ Block("wake", a) # Block("shows", a)
         /\ Block("wake", a) # Block("hides", a) /\ Block("shows", a) # Block("hides", a)
         /\ "wake" \in OpsOf /\ "shows" \in OpsOf /\ "closed" \in OpsOf
BY BlocksDiffer DEF Shuts, OpsOf

\* The newest activity's own detector, conversation and blocks.
LEMMA OwnOf ==
  ASSUME TypeOK, NEW n \in Activities, Own(n), Of(n)
  PROVE  Own(n)'
<1>0. /\ mainQ \in Seq(Blocks) /\ detector \in [Activities -> {"off", "on", "fired"}]
      /\ Block("hides", n) # Shuts(n) /\ Block("wake", n) # Shuts(n)
      /\ Block("shows", n) # Shuts(n) /\ Block("wake", n) # Block("shows", n)
      /\ Block("wake", n) # Block("hides", n) /\ Block("shows", n) # Block("hides", n)
      /\ "wake" \in OpsOf /\ "shows" \in OpsOf /\ "closed" \in OpsOf
      /\ mainQ # <<>> => Head(mainQ) = mainQ[1]
  BY Distinct DEF TypeOK
<1>1. CASE Fires(n)
  <2>1. /\ detector[n] = "on" /\ ~slider /\ detector'[n] = "fired"
        /\ mainQ' = Append(mainQ, Block("wake", n))
        /\ UNCHANGED <<sessionVars, muteVars, ringing>>
    BY <1>0, <1>1 DEF Fires, timerVars
  <2>2. Block("wake", n) \in Blocks
    BY BlockTyped
  <2>3. /\ Posted("wake", n, mainQ')
        /\ Posted("shows", n, mainQ') <=> Posted("shows", n, mainQ)
        /\ Posted("closed", n, mainQ') <=> Posted("closed", n, mainQ)
        /\ ClosesInTurn(n, mainQ) => ClosesInTurn(n, mainQ')
        /\ First(n, mainQ') <=> First(n, mainQ)
    BY <1>0, <2>1, <2>2, PostedAppended, BlocksDiffer
  <2>4. Talks(n)'
    BY <2>1, <2>3 DEF Own, Talks, sessionVars
  <2>5. ~Posted("closed", n, mainQ)
    BY <2>1 DEF Own, Closes
  <2>6. n \notin micMuted
    BY <2>1 DEF Own, Hears
  <2>7. Hears(n)'
    BY <2>1, <2>3, <2>6 DEF Own, Hears, sessionVars, muteVars
  <2>8. Closes(n)'
    BY <2>1, <2>3, <2>5 DEF Own, Closes, sessionVars
  <2>9. QED
    BY <2>4, <2>7, <2>8 DEF Own
<1>2. CASE Parks(n)
  <2>1. /\ n \in parking /\ n \notin parking' /\ detector'[n] = "off"
        /\ UNCHANGED <<running, active, muteVars, ringing, mainQ>>
    BY <1>0, <1>2 DEF Parks, WakeStop, timerVars
  <2>2. n \in running
    BY <2>1 DEF Own, Talks
  <2>3. QED
    BY <2>1, <2>2 DEF Own, Talks, Hears, Closes, muteVars
<1>3. CASE Ends(n)
  <2>1. n \in running /\ parking = {} /\ PostsDone /\ StopSession(n)
        /\ UNCHANGED <<detector, active, parking, muteVars, ringing>>
    BY <1>3 DEF Ends, timerVars
  <2>2. \A op \in OpsOf : ~Posted(op, n, mainQ)
    BY <2>1, NothingPosted
  <2>3. /\ n \notin running' /\ mainQ' = Append(Append(mainQ, Block("hides", n)), Shuts(n))
    BY <2>1, StopUnmoved
  <2>4. /\ Posted("closed", n, mainQ') /\ ClosesInTurn(n, mainQ')
        /\ ~Posted("wake", n, mainQ') /\ ~Posted("shows", n, mainQ') /\ ~First(n, mainQ')
    BY <1>0, <2>2, <2>3, StopPosts
  <2>5. n \in active /\ detector[n] = "off"
    BY <1>0, <2>1, <2>2 DEF Own, Talks, Hears
  <2>6. QED
    BY <2>1, <2>3, <2>4, <2>5 DEF Own, Talks, Hears, Closes, muteVars
<1>4. CASE RunWake(n)
  <2>1. /\ mainQ # <<>> /\ mainQ[1] = Block("wake", n) /\ Tail(mainQ) \in Seq(Blocks)
        /\ Head(mainQ) = Block("wake", n)
        /\ StartConversation(n, Tail(mainQ))
        /\ UNCHANGED <<detector, active, muteVars, ringing>>
    BY <1>0, <1>4 DEF RunWake, Takes, timerVars
  <2>2. /\ Posted("wake", n, mainQ)
        /\ Posted("shows", n, mainQ) <=> Posted("shows", n, Tail(mainQ))
        /\ Posted("closed", n, mainQ) <=> Posted("closed", n, Tail(mainQ))
        /\ Posted("wake", n, Tail(mainQ)) => Posted("wake", n, mainQ)
        /\ ClosesInTurn(n, Tail(mainQ)) /\ ~First(n, Tail(mainQ))
    BY <1>0, <2>1, PostedTail DEF Own, Closes
  <2>3. n \notin micMuted /\ ~Posted("closed", n, mainQ)
    BY <2>2 DEF Own, Hears, Closes
  <2>4. CASE n \in running \cup micMuted
    <3>1. n \in running /\ UNCHANGED <<running, parking>> /\ SameFor(n, Tail(mainQ), mainQ')
      BY <2>1, <2>3, <2>4, StartPosts
    <3>2. /\ Posted("shows", n, mainQ') <=> Posted("shows", n, mainQ)
          /\ ~Posted("closed", n, mainQ') /\ ClosesInTurn(n, mainQ') /\ ~First(n, mainQ')
      BY <1>0, <2>2, <2>3, <3>1 DEF SameFor
    <3>3. n \in parking \/ detector[n] = "off"
      BY <3>1 DEF Own, Hears
    <3>4. QED
      BY <2>1, <2>3, <3>1, <3>2, <3>3 DEF Own, Talks, Hears, Closes, muteVars
  <2>5. CASE n \notin running \cup micMuted
    <3>1. /\ running' = running \cup {n} /\ parking' = parking \cup {n}
          /\ \A op \in OpsOf : Posted(op, n, mainQ') <=> Posted(op, n, Tail(mainQ)) \/ op = "shows"
          /\ ClosesInTurn(n, mainQ') /\ ~First(n, mainQ')
      BY <2>1, <2>2, <2>5, StartPosts
    <3>2. Posted("shows", n, mainQ') /\ ~Posted("closed", n, mainQ')
      BY <1>0, <2>2, <2>3, <3>1
    <3>3. QED
      BY <2>1, <2>3, <3>1, <3>2 DEF Own, Talks, Hears, Closes, muteVars
  <2>6. QED
    BY <2>4, <2>5
<1>5. CASE RunShows(n)
  <2>1. /\ mainQ # <<>> /\ mainQ' = Tail(mainQ)
        /\ UNCHANGED <<detector, running, parking, muteVars, ringing>>
    BY <1>5 DEF RunShows, Takes, timerVars
  <2>2. CASE Takes("shows", n) /\ active' = active \cup {n}
    <3>1. Head(mainQ) = Block("shows", n)
      BY <2>2 DEF Takes
    <3>0. /\ Head(mainQ) # Block("wake", n) /\ Head(mainQ) # Block("closed", n)
          /\ Head(mainQ) # Block("hides", n)
          /\ "hides" \in OpsOf
          /\ \A op \in OpsOf :
               Posted(op, n, mainQ) <=> Posted(op, n, mainQ') \/ Head(mainQ) = Block(op, n)
      BY <1>0, <2>1, <3>1, PostedTail, BlocksDiffer DEF OpsOf
    <3>2. /\ Posted("wake", n, mainQ') <=> Posted("wake", n, mainQ)
          /\ Posted("closed", n, mainQ') <=> Posted("closed", n, mainQ)
          /\ Posted("shows", n, mainQ)
          /\ ClosesInTurn(n, mainQ') /\ ~First(n, mainQ')
      BY <1>0, <2>1, <3>0, <3>1, PostedTail DEF Own, Closes
    <3>3. n \in running
      BY <3>2 DEF Own, Talks
    <3>4. ~Posted("closed", n, mainQ)
      BY <3>3 DEF Own, Closes
    <3>5. QED
      BY <2>1, <2>2, <3>2, <3>3, <3>4 DEF Own, Talks, Hears, Closes, muteVars
  <2>3. CASE Takes("hides", n) /\ active' = active \ {n}
    <3>1. Head(mainQ) = Block("hides", n)
      BY <2>3 DEF Takes
    <3>0. /\ Head(mainQ) # Block("wake", n) /\ Head(mainQ) # Block("closed", n)
          /\ Head(mainQ) # Block("shows", n)
          /\ "hides" \in OpsOf
          /\ \A op \in OpsOf :
               Posted(op, n, mainQ) <=> Posted(op, n, mainQ') \/ Head(mainQ) = Block(op, n)
      BY <1>0, <2>1, <3>1, PostedTail, BlocksDiffer DEF OpsOf
    <3>2. /\ Posted("wake", n, mainQ') <=> Posted("wake", n, mainQ)
          /\ Posted("closed", n, mainQ') <=> Posted("closed", n, mainQ)
          /\ Posted("shows", n, mainQ') <=> Posted("shows", n, mainQ)
          /\ ClosesInTurn(n, mainQ') /\ First(n, mainQ')
      BY <1>0, <2>1, <3>0, <3>1, PostedTail DEF Own, Closes
    <3>3. Posted("closed", n, mainQ')
      <4>1. Tail(mainQ) \in Seq(Blocks) /\ 1 \in 1..Len(Tail(mainQ))
        BY <1>0, <2>1, <3>2 DEF First
      <4>2. QED
        BY <2>1, <3>2, <4>1 DEF Posted, Shuts, First
    <3>4. n \notin running
      BY <3>2, <3>3 DEF Own, Closes
    <3>5. QED
      BY <2>1, <2>3, <3>2, <3>3, <3>4 DEF Own, Talks, Hears, Closes, muteVars
  <2>4. QED
    BY <1>5, <2>2, <2>3 DEF RunShows
<1>6. CASE RunClosed(n)
  <2>1. /\ mainQ # <<>> /\ mainQ' = Tail(mainQ) /\ Head(mainQ) = Shuts(n) /\ WakeStart(n)
        /\ UNCHANGED <<sessionVars, muteVars, ringing>>
    BY <1>6 DEF RunClosed, Takes, timerVars, Shuts
  <2>2. /\ Posted("wake", n, mainQ') <=> Posted("wake", n, mainQ)
        /\ Posted("shows", n, mainQ') <=> Posted("shows", n, mainQ)
        /\ Posted("closed", n, mainQ) /\ ~Posted("closed", n, mainQ')
        /\ ClosesInTurn(n, mainQ') /\ ~First(n, mainQ') /\ First(n, mainQ)
    BY <1>0, <2>1, PostedTail, Distinct DEF Own, Closes, Shuts, First
  <2>3. n \notin running /\ detector[n] = "off"
    BY <2>2 DEF Own, Closes
  <2>4. detector'[n] = "on"
    BY <1>0, <2>1, <2>3 DEF WakeStart
  <2>5. n \notin active
    BY <2>2 DEF Own, Closes
  <2>6. QED
    BY <2>1, <2>2, <2>3, <2>4, <2>5 DEF Own, Talks, Hears, Closes, sessionVars, muteVars
<1>7. QED
  BY <1>1, <1>2, <1>3, <1>4, <1>5, <1>6 DEF Of

\* A hand that stops or starts a conversation.
LEMMA OwnTap ==
  ASSUME TypeOK, NEW n \in Activities, n = newest, Own(n), TapOrAsk
  PROVE  Own(n)'
<1>0. /\ mainQ \in Seq(Blocks)
      /\ "wake" \in OpsOf /\ "shows" \in OpsOf /\ "closed" \in OpsOf
      /\ parking = {} /\ PostsDone
      /\ UNCHANGED <<detector, active, muteVars, ringing>>
  BY Distinct DEF TypeOK, TapOrAsk, HandMoves, timerVars
<1>1. \A op \in OpsOf : ~Posted(op, n, mainQ)
  BY <1>0, NothingPosted
<1>2. n \in active <=> n \in running
  BY <1>0, <1>1 DEF Own, Talks
<1>3. n \notin parking /\ detector[n] # "fired" /\ ~First(n, mainQ) /\ ClosesInTurn(n, mainQ)
  <2>1. First(n, mainQ) => Posted("closed", n, mainQ)
    <3>1. mainQ # <<>> => 1 \in 1..Len(mainQ)
      BY <1>0
    <3>2. QED
      BY <3>1 DEF First, Posted, Shuts
  <2>2. QED
    BY <1>0, <1>1, <2>1 DEF Own, Hears, Closes
<1>4. CASE newest \in active /\ StopSession(newest) /\ UNCHANGED parking
  <2>1. n \in running /\ detector[n] = "off"
    BY <1>2, <1>3, <1>4 DEF Own, Hears
  <2>2. n \notin running' /\ mainQ' = Append(Append(mainQ, Block("hides", n)), Shuts(n))
    BY <1>4, <2>1, StopUnmoved
  <2>3. /\ Posted("closed", n, mainQ') /\ ClosesInTurn(n, mainQ')
        /\ ~Posted("wake", n, mainQ') /\ ~Posted("shows", n, mainQ') /\ ~First(n, mainQ')
    BY <1>0, <1>1, <2>2, StopPosts
  <2>4. n \notin parking' /\ n \in active
    BY <1>3, <1>4
  <2>5. QED
    BY <1>0, <2>1, <2>2, <2>3, <2>4 DEF Own, Talks, Hears, Closes, muteVars
<1>5. CASE newest \notin active /\ StartConversation(newest, mainQ)
  <2>1. n \notin running /\ n \notin active /\ StartConversation(n, mainQ)
    BY <1>2, <1>5
  <2>2. CASE n \in running \cup micMuted
    <3>1. n \in micMuted /\ UNCHANGED <<running, parking>> /\ SameFor(n, mainQ, mainQ')
      BY <1>0, <2>1, <2>2, StartPosts
    <3>2. Unmoved(n) /\ UNCHANGED <<ringing, muteVars>>
      BY <1>0, <3>1 DEF Unmoved, SameAs
    <3>3. QED
      BY <3>2, OwnStays
  <2>3. CASE n \notin running \cup micMuted
    <3>1. /\ running' = running \cup {n} /\ parking' = parking \cup {n}
          /\ \A op \in OpsOf : Posted(op, n, mainQ') <=> Posted(op, n, mainQ) \/ op = "shows"
          /\ ClosesInTurn(n, mainQ') /\ ~First(n, mainQ')
      BY <1>0, <1>3, <2>1, <2>3, StartPosts
    <3>2. /\ Posted("shows", n, mainQ') /\ ~Posted("closed", n, mainQ')
          /\ ~Posted("wake", n, mainQ')
      BY <1>0, <1>1, <3>1
    <3>3. QED
      BY <1>0, <2>1, <2>3, <3>1, <3>2 DEF Own, Talks, Hears, Closes, muteVars
  <2>4. QED
    BY <2>2, <2>3
<1>6. QED
  BY <1>4, <1>5 DEF TapOrAsk

\* The mute switch.
LEMMA OwnSlides ==
  ASSUME TypeOK, NEW n \in Activities, n = newest, Own(n), Slides
  PROVE  Own(n)'
<1>0. /\ "wake" \in OpsOf /\ "shows" \in OpsOf /\ "closed" \in OpsOf
      /\ parking = {} /\ PostsDone /\ slider' = ~slider
      /\ UNCHANGED <<running, active, parking, ringing, mainQ>>
      /\ slider \in BOOLEAN /\ detector \in [Activities -> {"off", "on", "fired"}]
  BY Distinct DEF TypeOK, Slides, HandMoves, timerVars, sessionVars
<1>1. \A op \in OpsOf : ~Posted(op, n, mainQ)
  BY <1>0, NothingPosted
<1>2. /\ n \in active <=> n \in running
      /\ n \notin parking /\ detector[n] # "fired"
  BY <1>0, <1>1 DEF Own, Talks, Hears
<1>3. Talks(n)'
  BY <1>0 DEF Own, Talks
<1>4. CASE slider' = (n \in micMuted) /\ UNCHANGED <<micMuted, detector>>
  <2>1. n \in micMuted => slider'
    BY <1>4
  <2>2. Hears(n)' /\ Closes(n)'
    BY <1>0, <1>1, <1>4, <2>1 DEF Own, Hears, Closes
  <2>3. QED
    BY <1>3, <2>2 DEF Own
<1>5. CASE slider' /\ micMuted' = micMuted \cup {n} /\ WakeStop(n)
  <2>1. detector'[n] = "off" /\ n \in micMuted'
    BY <1>0, <1>5 DEF WakeStop
  <2>2. Hears(n)' /\ Closes(n)'
    BY <1>0, <1>1, <1>5, <2>1 DEF Own, Hears, Closes
  <2>3. QED
    BY <1>3, <2>2 DEF Own
<1>6. CASE /\ ~slider' /\ micMuted' = micMuted \ {n}
           /\ IF n \in active THEN UNCHANGED detector ELSE WakeStart(n)
  <2>1. /\ n \in running => detector'[n] = detector[n]
        /\ n \notin running => detector'[n] = "on"
        /\ n \notin micMuted'
    BY <1>0, <1>2, <1>6 DEF WakeStart
  <2>2. Hears(n)' /\ Closes(n)'
    BY <1>0, <1>1, <1>2, <2>1 DEF Own, Hears, Closes
  <2>3. QED
    BY <1>3, <2>2 DEF Own
<1>7. QED
  BY <1>4, <1>5, <1>6 DEF Slides

\* A ring that ends, or that another timer replaces.
LEMMA OwnCancelled ==
  ASSUME TypeOK, NEW n \in Activities, n = newest, Own(n), ~early', RunSet \/ RunCancel
  PROVE  Own(n)'
<1>0. /\ mainQ \in Seq(Blocks) /\ detector \in [Activities -> {"off", "on", "fired"}]
      /\ mainQ # <<>> => Head(mainQ) = mainQ[1]
      /\ "wake" \in OpsOf /\ "shows" \in OpsOf /\ "closed" \in OpsOf
      /\ ringing \in BOOLEAN
  BY Distinct DEF TypeOK
<1>1. /\ mainQ # <<>> /\ Head(mainQ).of # n /\ Head(mainQ).of = Nobody /\ CancelInternal
      /\ mainQ' = Tail(mainQ) /\ ringing' = FALSE
      /\ UNCHANGED <<running, active, parking, muteVars>>
  BY NobodyIsNone DEF RunSet, RunCancel, Takes, Block, CancelInternal, sessionVars
<1>2. SameFor(n, mainQ, mainQ')
  BY <1>0, <1>1, SameTail
<1>3. ~First(n, mainQ)
  BY <1>0, <1>1 DEF First, Shuts, Block
<1>4. Posted("closed", n, mainQ) => n \in active
  BY <1>3 DEF Own, Closes
<1>5. /\ Posted("wake", n, mainQ') <=> Posted("wake", n, mainQ)
      /\ Posted("shows", n, mainQ') <=> Posted("shows", n, mainQ)
      /\ Posted("closed", n, mainQ') <=> Posted("closed", n, mainQ)
      /\ ClosesInTurn(n, mainQ') /\ (First(n, mainQ') <=> First(n, mainQ))
  BY <1>0, <1>2 DEF SameFor, Own, Closes
<1>6. Talks(n)'
  BY <1>1, <1>5 DEF Own, Talks
<1>7. CASE ringing /\ n \notin active /\ n \notin micMuted
  <2>1. WakeStart(n) /\ n \notin running
    BY <1>1, <1>7 DEF CancelInternal, OwnConversation
  <2>2. detector'[n] # "off" /\ (detector'[n] = "fired" => detector[n] = "fired")
    BY <1>0, <2>1 DEF WakeStart
  <2>3. ~Posted("closed", n, mainQ)
    BY <1>4, <1>7
  <2>4. Hears(n)' /\ Closes(n)'
    BY <1>1, <1>3, <1>5, <2>1, <2>2, <2>3 DEF Own, Hears, Closes, muteVars
  <2>5. QED
    BY <1>6, <2>4 DEF Own
<1>8. CASE ~(ringing /\ n \notin active /\ n \notin micMuted)
  <2>1. UNCHANGED detector
    BY <1>1, <1>8 DEF CancelInternal, OwnConversation
  <2>2. n \in active => n \in running \/ Posted("closed", n, mainQ)
    BY DEF Own, Talks
  <2>3. Hears(n)' /\ Closes(n)'
    BY <1>1, <1>3, <1>5, <1>8, <2>1, <2>2 DEF Own, Hears, Closes, muteVars
  <2>4. QED
    BY <1>6, <2>3 DEF Own
<1>9. QED
  BY <1>7, <1>8

\* A step keeps what is promised to the activity on the screen, or creates that activity.
LEMMA OwnStep ==
  ASSUME LiveInv, [Next]_vars, alive', ~early', NEW n \in Activities, n = newest'
  PROVE  Own(n)'
<1>0. /\ TypeOK /\ Fresh /\ mainQ \in Seq(Blocks)
      /\ detector \in [Activities -> {"off", "on", "fired"}] /\ newest \in Int
  BY DEF LiveInv, TypeOK
<1>1. CASE Create
  <2>1. n = newest + 1 /\ n > newest /\ WakeStart(n)
        /\ UNCHANGED <<sessionVars, muteVars, timerVars, mainQ>>
    BY <1>0, <1>1 DEF Create
  <2>2. Untouched(n)
    BY <1>0, <2>1 DEF Fresh
  <2>3. detector'[n] = "on"
    BY <1>0, <2>1, <2>2 DEF WakeStart, Untouched
  <2>4. /\ n \notin running /\ n \notin active /\ n \notin parking /\ n \notin micMuted
        /\ ~Posted("wake", n, mainQ) /\ ~Posted("shows", n, mainQ)
        /\ ~Posted("hides", n, mainQ) /\ ~Posted("closed", n, mainQ)
    BY <2>2 DEF Untouched, OpsOf
  <2>5. ~First(n, mainQ) /\ ClosesInTurn(n, mainQ)
    <3>1. mainQ # <<>> => 1 \in 1..Len(mainQ)
      BY <1>0
    <3>2. QED
      BY <2>4, <3>1 DEF First, ClosesInTurn, Posted, Shuts
  <2>6. QED
    BY <2>1, <2>3, <2>4, <2>5 DEF Own, Talks, Hears, Closes, sessionVars, muteVars
<1>2. CASE ~Create
  <2>1. n = newest /\ alive /\ ~early
    <3>1. CASE Destroy
      BY <3>1, Zenon DEF Destroy
    <3>2. CASE \/ TapOrAsk \/ ToolSetsTimer \/ Slides \/ TimerFires \/ RingStops
      <4>1. newest' = newest /\ alive' = alive /\ early' = early
        BY <3>2 DEF TapOrAsk, ToolSetsTimer, Slides, TimerFires, RingStops, ownerVars
      <4>2. QED
        BY <4>1, Zenon
    <3>3. CASE RunSet \/ RunCancel
      BY <3>3 DEF RunSet, RunCancel, CancelInternal
    <3>4. CASE \E a \in Activities : Of(a)
      <4>1. newest' = newest /\ alive' = alive /\ early' = early
        BY <3>4 DEF Of, Fires, Parks, Ends, RunWake, RunShows, RunClosed, ownerVars
      <4>2. QED
        BY <4>1, Zenon
    <3>5. CASE UNCHANGED vars
      BY <3>5 DEF vars, ownerVars
    <3>6. QED
      BY <1>2, <3>1, <3>2, <3>3, <3>4, <3>5 DEF Next
  <2>2. Own(n)
    BY <2>1 DEF LiveInv
  <2>3. CASE \E a \in Activities : Of(a)
    <3>1. PICK a \in Activities : Of(a)
      BY <2>3
    <3>2. CASE a = n
      BY <1>0, <2>2, <3>1, <3>2, OwnOf
    <3>3. CASE a # n
      <4>1. Unmoved(n)
        BY <1>0, <3>1, <3>3, OthersUnmoved
      <4>2. UNCHANGED <<ringing, muteVars>>
        BY <3>1 DEF Of, Fires, Parks, Ends, RunWake, RunShows, RunClosed, timerVars, muteVars
      <4>3. QED
        BY <2>2, <4>1, <4>2, OwnStays
    <3>4. QED
      BY <3>2, <3>3
  <2>4. CASE Destroy
    BY <2>4 DEF Destroy
  <2>5. CASE TapOrAsk
    BY <1>0, <2>1, <2>2, <2>5, OwnTap
  <2>6. CASE ToolSetsTimer \/ RingStops
    <3>1. \E op \in {"set", "cancel"} : mainQ' = Append(mainQ, Block(op, Nobody))
      BY <2>6 DEF ToolSetsTimer, RingStops
    <3>2. \A op \in {"set", "cancel"} :
            Block(op, Nobody) \in Blocks /\ Block(op, Nobody).of # n
      BY BlockTyped, NobodyIsNone DEF Block
    <3>3. SameFor(n, mainQ, mainQ')
      BY <1>0, <3>1, <3>2, SameAppended
    <3>4. Unmoved(n) /\ UNCHANGED <<ringing, muteVars>>
      BY <2>6, <3>3 DEF ToolSetsTimer, RingStops, Unmoved, SameAs, sessionVars, timerVars
    <3>5. QED
      BY <2>2, <3>4, OwnStays
  <2>7. CASE Slides
    BY <1>0, <2>1, <2>2, <2>7, OwnSlides
  <2>8. CASE RunSet \/ RunCancel
    BY <1>0, <2>1, <2>2, <2>8, OwnCancelled
  <2>9. CASE TimerFires
    <3>1. /\ ringing' = TRUE /\ detector'[n] = "off"
          /\ UNCHANGED <<sessionVars, muteVars, mainQ>>
      BY <1>0, <2>1, <2>9 DEF TimerFires, WakeStop
    <3>2. QED
      BY <2>2, <3>1 DEF Own, Talks, Hears, Closes, sessionVars, muteVars
  <2>10. CASE UNCHANGED vars
    <3>1. Unmoved(n) /\ UNCHANGED <<ringing, muteVars>>
      BY <2>10, SameReflexive DEF vars, sessionVars, timerVars, Unmoved, SameAs
    <3>2. QED
      BY <2>2, <3>1, OwnStays
  <2>11. QED
    BY <1>2, <2>3, <2>4, <2>5, <2>6, <2>7, <2>8, <2>9, <2>10 DEF Next
<1>3. QED
  BY <1>1, <1>2

LEMMA LiveStep == LiveInv /\ IInv' /\ [Next]_vars => LiveInv'
<1> SUFFICES ASSUME LiveInv, IInv', [Next]_vars PROVE LiveInv'
  OBVIOUS
<1>1. TypeOK' /\ Fresh'
  BY FreshStep DEF IInv
<1>2. ASSUME alive', ~early' PROVE Own(newest)'
  <2>1. PICK n : n = newest'
    OBVIOUS
  <2>2. n \in Activities
    BY <1>1, <1>2, <2>1 DEF TypeOK, Activities, Nobody
  <2>3. Own(n)'
    BY <1>2, <2>1, <2>2, OwnStep
  <2>4. QED
    BY <2>1, <2>3 DEF Own, Talks, Hears, Closes, ClosesInTurn, First, Shuts, Posted
<1>3. QED
  BY <1>1, <1>2 DEF LiveInv

\* Whatever other activities left in the process, the one on the screen has its
\* detector on once all that was posted has run, unless its conversation, its mute or a
\* ring holds the microphone, or a ring ended before its conversation was shown.
THEOREM LiveHearsItsName == Spec => []LiveListens
<1>1. LiveInv => LiveListens
  <2> SUFFICES ASSUME LiveInv, alive, Settled, ~ringing, ~early, newest \notin running \cup micMuted
               PROVE  detector[newest] = "on"
    BY DEF LiveListens
  <2>1. \A op, a : ~Posted(op, a, mainQ)
    BY DEF Settled, Posted
  <2>2. detector[newest] # "off" /\ detector[newest] # "fired"
    BY <2>1 DEF LiveInv, Own, Hears, Settled
  <2>3. newest \in Activities /\ detector \in [Activities -> {"off", "on", "fired"}]
    BY DEF LiveInv, TypeOK, Activities, Nobody
  <2>4. QED
    BY <2>2, <2>3
<1>2. Spec => []LiveInv
  BY LiveInit, LiveStep, IInvAlways, PTL DEF Spec
<1>3. QED
  BY <1>1, <1>2, PTL

=============================================================================
