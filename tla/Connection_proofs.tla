-------------------------- MODULE Connection_proofs --------------------------
(***************************************************************************)
(* Theorems about Connection, for every number of conversations, sockets,  *)
(* questions, late stops and retries.                                      *)
(*                                                                         *)
(* Each of the properties needs a fact about the moments between: the      *)
(* caps of a conversation that has ended are gone (CapsFollow), the        *)
(* counter of retries never runs ahead of the failures it stands for       *)
(* (CountsFailures), a question that waits was not handed on, as long as   *)
(* one onOpen runs at a time (AsksMove), and no teardown is on its way to  *)
(* an open link (LinkHasSpeaker).                                          *)
(***************************************************************************)
EXTENDS Connection, TLAPS

LEMMA Limits ==
  /\ MaxSessions \in Nat /\ MaxSockets \in Nat /\ MaxAsks \in Nat /\ MaxEnds \in Nat
  /\ MaxRetries \in Nat
BY LimitsAssumption DEF LimitsAssumption

CapsFollow == caps = IF running THEN CapsOf(session) ELSE {}

CountsFailures == reconnects <= misses

\* A question waits for an open: in pendingAsk, or with an onOpen that has read it.
Waits(a) == pendingAsk = a \/ \E s \in Sockets : held[s] = a

\* How often it was sent, or will be.
HandedOn(a) == sent[a] + askBlocks[a]

AsksInOrder ==
  /\ \A s, t \in Sockets : InOnOpen(s) /\ InOnOpen(t) => s = t
  /\ \A a \in Asks : HandedOn(a) <= 1 /\ (Waits(a) => HandedOn(a) = 0)

AsksMove ==
  /\ \A a \in Asks : a > typed => HandedOn(a) = 0
  /\ \A s \in Sockets : held[s] # None => phase[s] = "taking"
  /\ overlapped \/ AsksInOrder

LinkHasSpeaker ==
  /\ running /\ ws # None /\ (InOnOpen(ws) \/ phase[ws] = "open") => teardowns = 0 /\ track
  /\ ~running => ws = None

-----------------------------------------------------------------------------
(* The shared steps. *)

LEMMA DialTyped ==
  ASSUME phase \in [Sockets -> Phases], closed \subseteq Sockets, Dial
  PROVE  /\ ws' \in Sockets /\ phase[ws'] = "gone" /\ phase'[ws'] = "dialing"
         /\ phase' \in [Sockets -> Phases] /\ closed' \subseteq Sockets
<1> DEFINE free == {s \in Sockets : phase[s] = "gone"}
           new == CHOOSE s \in free : TRUE
<1>1. /\ free # {} /\ ws' = new /\ phase' = [phase EXCEPT ![new] = "dialing"]
      /\ closed' = closed \ {new}
  BY DEF Dial
<1>2. new \in free
  BY <1>1
<1> HIDE DEF new
<1>3. ws' \in Sockets /\ phase[ws'] = "gone" /\ closed' \subseteq Sockets
  BY <1>1, <1>2
<1>4. phase'[ws'] = "dialing" /\ phase' \in [Sockets -> Phases]
  BY <1>1, <1>2 DEF Phases
<1>5. QED
  BY <1>3, <1>4

LEMMA PostedTyped ==
  ASSUME TypeOK, NEW a
  PROVE  Posted(a) \in [Asks -> Nat]
<1>1. askBlocks \in [Asks -> Nat]
  BY DEF TypeOK
<1>2. CASE a \in Asks
  <2>1. askBlocks[a] + 1 \in Nat
    BY <1>1, <1>2
  <2>2. QED
    BY <1>1, <2>1 DEF Posted
<1>3. CASE a \notin Asks
  <2>1. Posted(a) = askBlocks
    BY <1>1, <1>3 DEF Posted
  <2>2. QED
    BY <1>1, <2>1
<1>4. QED
  BY <1>2, <1>3

LEMMA StopTyped ==
  ASSUME TypeOK, Stop
  PROVE  /\ running' = FALSE /\ wsReady' = FALSE /\ caps' = {} /\ ws' = None
         /\ closed' \subseteq Sockets /\ teardowns' \in Nat
BY DEF Stop, TypeOK, FlagsTyped, CapsRemoved, None

-----------------------------------------------------------------------------
(* Every variable keeps its type. *)

LEMMA TypeInit == Init => TypeOK
<1> SUFFICES ASSUME Init PROVE TypeOK
  OBVIOUS
<1>1. FlagsTyped
  BY DEF Init, FlagsTyped
<1>2. /\ phase \in [Sockets -> Phases] /\ sent \in [Asks -> Nat]
      /\ askBlocks \in [Asks -> Nat] /\ held \in [Sockets -> 0..typed]
  BY DEF Init, Phases, None
<1>3. QED
  BY <1>1, <1>2, Limits DEF Init, TypeOK, None

LEMMA FlagSteps == FlagsTyped /\ [Next]_vars => FlagsTyped'
<1> SUFFICES ASSUME FlagsTyped, [Next]_vars PROVE FlagsTyped'
  OBVIOUS
<1> USE DEF FlagsTyped
<1>1. CASE Start \/ StopByHand \/ AskArrives
  BY <1>1, Zenon DEF Start, StopByHand, AskArrives, Stop
<1>2. CASE MainBlock
  BY <1>2, Zenon DEF MainBlock, CapFires, LateStopRuns, RedialRuns, SendAsk, Stop
<1>3. CASE TearsDown \/ UNCHANGED vars
  BY <1>3, Zenon DEF TearsDown, vars
<1>4. ASSUME NEW s \in Sockets, Opens(s) \/ BecomesReady(s) \/ TakesAsk(s) \/ AsksToEnd(s)
      PROVE  FlagsTyped'
  BY <1>4, Zenon DEF Opens, BecomesReady, TakesAsk, AsksToEnd, TrackBuilt
<1>5. ASSUME NEW s \in Sockets, Fails(s) \/ ServerCloses(s) \/ CloseCompletes(s)
      PROVE  FlagsTyped'
  BY <1>5, Zenon DEF Fails, LosesLink, IgnoresFailure, Stop, ServerCloses,
     CloseCompletes
<1>6. QED
  BY <1>1, <1>2, <1>3, <1>4, <1>5 DEF Next, Listener

LEMMA TypeSteps == TypeOK /\ [Next]_vars => TypeOK'
<1> SUFFICES ASSUME TypeOK, [Next]_vars PROVE TypeOK'
  OBVIOUS
<1> USE Limits DEF None
<1>0. FlagsTyped'
  BY FlagSteps DEF TypeOK
<1>1. CASE Start
  <2>1. /\ ws' \in Sockets /\ phase' \in [Sockets -> Phases] /\ closed' \subseteq Sockets
    BY <1>1, DialTyped DEF Start, TypeOK
  <2>2. session' \in Sessions /\ session' \in 0..MaxSessions
    BY <1>1 DEF Start, TypeOK, Sessions
  <2>3. caps' \subseteq [what : {"hard", "idle"}, of : Sessions]
    BY <1>1, <2>2 DEF Start, TypeOK, CapsOf
  <2>4. QED
    BY <1>0, <1>1, <2>1, <2>2, <2>3 DEF Start, TypeOK, RetriesAfresh, askVars
<1>2. CASE StopByHand
  <2>1. /\ Stop
        /\ UNCHANGED <<phase, reconnects, redials, lateStops, askBlocks, pendingAsk,
                       held, typed, sent, session, misses, ends>>
    BY <1>2 DEF StopByHand, askVars
  <2>2. QED
    BY <1>0, <2>1, StopTyped DEF TypeOK
<1>3. CASE CapFires
  <2>1. /\ Stop
        /\ UNCHANGED <<phase, reconnects, redials, lateStops, askBlocks, pendingAsk,
                       held, typed, sent, session, misses, ends>>
    BY <1>3 DEF CapFires, askVars
  <2>2. QED
    BY <1>0, <2>1, StopTyped DEF TypeOK
<1>4. CASE LateStopRuns
  <2>1. /\ Stop
        /\ UNCHANGED <<phase, reconnects, redials, askBlocks, pendingAsk,
                       held, typed, sent, session, misses, ends>>
    BY <1>4 DEF LateStopRuns, askVars
  <2>2. lateStops' \in Nat
    BY <1>4 DEF LateStopRuns, TypeOK
  <2>3. QED
    BY <1>0, <2>1, <2>2, StopTyped DEF TypeOK
<1>5. CASE RedialRuns
  <2>1. /\ ws' \in Sockets \cup {None} /\ phase' \in [Sockets -> Phases]
        /\ closed' \subseteq Sockets
    <3>1. CASE running
      BY <1>5, <3>1, DialTyped DEF RedialRuns, TypeOK
    <3>2. CASE ~running
      BY <1>5, <3>2 DEF RedialRuns, TypeOK, linkVars
    <3>3. QED
      BY <3>1, <3>2
  <2>2. QED
    BY <1>0, <1>5, <2>1 DEF RedialRuns, TypeOK, askVars
<1>6. CASE AskArrives
  <2>1. typed' = typed + 1 /\ typed \in Nat /\ typed < MaxAsks
    BY <1>6 DEF AskArrives, TypeOK
  <2>2. askBlocks' \in [Asks -> Nat]
    BY <1>6, PostedTyped DEF AskArrives, TypeOK
  <2>3. /\ typed' \in 0..MaxAsks /\ pendingAsk' \in 0..typed' /\ held' = held
        /\ held \in [Sockets -> 0..typed']
    <3>1. pendingAsk' = typed' \/ pendingAsk' = pendingAsk
      BY <1>6 DEF AskArrives
    <3>2. held' = held
      BY <1>6 DEF AskArrives
    <3>3. QED
      BY <2>1, <3>1, <3>2 DEF TypeOK
  <2>4. QED
    BY <1>0, <1>6, <2>2, <2>3 DEF AskArrives, TypeOK, linkVars
<1>7. CASE SendAsk
  <2>1. PICK a \in Asks :
          /\ askBlocks[a] > 0 /\ askBlocks' = [askBlocks EXCEPT ![a] = @ - 1]
          /\ sent' = [sent EXCEPT ![a] = @ + 1] \/ sent' = sent
    BY <1>7 DEF SendAsk
  <2>2. sent' \in [Asks -> Nat] /\ askBlocks' \in [Asks -> Nat]
    BY <2>1 DEF TypeOK
  <2>3. QED
    BY <1>0, <1>7, <2>2 DEF SendAsk, TypeOK, linkVars
<1>8. CASE TearsDown
  BY <1>0, <1>8 DEF TearsDown, TypeOK, linkVars, blockVars, askVars
<1>9. CASE UNCHANGED vars
  BY <1>0, <1>9 DEF vars, TypeOK, linkVars, blockVars, askVars
<1>10. ASSUME NEW s \in Sockets, Opens(s) PROVE TypeOK'
  <2>1. phase' \in [Sockets -> Phases]
    BY <1>10 DEF Opens, TypeOK, Phases
  <2>2. QED
    BY <1>0, <1>10, <2>1 DEF Opens, TypeOK, blockVars, askVars
<1>11. ASSUME NEW s \in Sockets, BecomesReady(s) PROVE TypeOK'
  <2>1. phase' \in [Sockets -> Phases] /\ held' \in [Sockets -> 0..typed]
    BY <1>11 DEF BecomesReady, TypeOK, Phases
  <2>2. QED
    BY <1>0, <1>11, <2>1 DEF BecomesReady, TypeOK, blockVars
<1>12. ASSUME NEW s \in Sockets, TakesAsk(s) PROVE TypeOK'
  <2>1. phase' \in [Sockets -> Phases]
    BY <1>12 DEF TakesAsk, TypeOK, Phases
  <2>2. held' \in [Sockets -> 0..typed] /\ pendingAsk' \in 0..typed
    BY <1>12 DEF TakesAsk, TypeOK, AskTaken
  <2>3. askBlocks' \in [Asks -> Nat]
    BY <1>12, PostedTyped DEF TakesAsk
  <2>4. QED
    BY <1>0, <1>12, <2>1, <2>2, <2>3 DEF TakesAsk, TypeOK
<1>13. ASSUME NEW s \in Sockets, AsksToEnd(s) PROVE TypeOK'
  BY <1>0, <1>13 DEF AsksToEnd, TypeOK, linkVars, askVars
<1>14. ASSUME NEW s \in Sockets, Fails(s) PROVE TypeOK'
  <2>1. /\ phase' \in [Sockets -> Phases]
        /\ UNCHANGED <<lateStops, askBlocks, pendingAsk, held, typed, sent, session, ends>>
    BY <1>14 DEF Fails, TypeOK, Phases, askVars
  <2>2. CASE LosesLink
    <3>1. misses' \in 0..MaxRetries + 1
      BY <2>2 DEF LosesLink, TypeOK
    <3>2. CASE MayRetry
      BY <1>0, <2>1, <2>2, <3>1, <3>2 DEF LosesLink, MayRetry, RedialPosted, TypeOK
    <3>3. CASE ~MayRetry
      BY <1>0, <2>1, <2>2, <3>1, <3>3, StopTyped DEF LosesLink, TypeOK
    <3>4. QED
      BY <3>2, <3>3
  <2>3. CASE IgnoresFailure
    BY <1>0, <2>1, <2>3 DEF IgnoresFailure, TypeOK
  <2>4. QED
    BY <1>14, <2>2, <2>3 DEF Fails
<1>15. ASSUME NEW s \in Sockets, ServerCloses(s) \/ CloseCompletes(s) PROVE TypeOK'
  <2>1. phase' \in [Sockets -> Phases]
    BY <1>15 DEF ServerCloses, CloseCompletes, TypeOK, Phases
  <2>2. QED
    BY <1>0, <1>15, <2>1 DEF ServerCloses, CloseCompletes, TypeOK, blockVars, askVars
<1>16. QED
  BY <1>1, <1>2, <1>3, <1>4, <1>5, <1>6, <1>7, <1>8, <1>9, <1>10, <1>11, <1>12, <1>13,
     <1>14, <1>15 DEF Next, MainBlock, Listener

\* Every variable keeps its type, and no more retries are made than there are delays.
THEOREM ConnectionTypeCorrect == Spec => []TypeOK
BY TypeInit, TypeSteps, PTL DEF Spec

-----------------------------------------------------------------------------
(* A conversation's caps. *)

LEMMA CapsSteps == TypeOK /\ CapsFollow /\ [Next]_vars => CapsFollow'
<1> SUFFICES ASSUME TypeOK, CapsFollow, [Next]_vars PROVE CapsFollow'
  OBVIOUS
<1> USE DEF CapsFollow
<1>1. CASE Start
  BY <1>1 DEF Start, CapsOf
<1>2. CASE StopByHand \/ CapFires \/ LateStopRuns
  BY <1>2 DEF StopByHand, CapFires, LateStopRuns, Stop, CapsRemoved
<1>3. CASE RedialRuns \/ AskArrives \/ SendAsk
  BY <1>3 DEF RedialRuns, AskArrives, SendAsk, CapsOf
<1>4. CASE TearsDown \/ UNCHANGED vars
  BY <1>4 DEF TearsDown, vars, blockVars, CapsOf
<1>5. ASSUME NEW s \in Sockets, Opens(s) \/ BecomesReady(s) \/ TakesAsk(s) \/ AsksToEnd(s)
      PROVE  CapsFollow'
  BY <1>5 DEF Opens, BecomesReady, TakesAsk, AsksToEnd, blockVars, CapsOf
<1>6. ASSUME NEW s \in Sockets, Fails(s) PROVE CapsFollow'
  <2>1. CASE LosesLink
    BY <1>6, <2>1 DEF Fails, LosesLink, Stop, CapsRemoved, CapsOf
  <2>2. CASE IgnoresFailure
    BY <1>6, <2>2 DEF Fails, IgnoresFailure, CapsOf
  <2>3. QED
    BY <1>6, <2>1, <2>2 DEF Fails
<1>7. ASSUME NEW s \in Sockets, ServerCloses(s) \/ CloseCompletes(s) PROVE CapsFollow'
  BY <1>7 DEF ServerCloses, CloseCompletes, blockVars, CapsOf
<1>8. QED
  BY <1>1, <1>2, <1>3, <1>4, <1>5, <1>6, <1>7 DEF Next, MainBlock, Listener

\* No conversation outlives its caps, and no cap outlives its conversation: stop()
\* takes idleStop and hardStop out of the main thread's queue, and start() arms them.
THEOREM CapsStayOwn == Spec => []CapsAreOwn
<1>1. Init => CapsFollow
  BY DEF Init, CapsFollow
<1>2. CapsFollow => CapsAreOwn
  BY DEF CapsFollow, CapsAreOwn
<1>3. QED
  BY <1>1, <1>2, CapsSteps, ConnectionTypeCorrect, PTL DEF Spec

-----------------------------------------------------------------------------
(* Failures and retries. *)

LEMMA CountSteps == TypeOK /\ CountsFailures /\ [Next]_vars => CountsFailures'
<1> SUFFICES ASSUME TypeOK, CountsFailures, [Next]_vars PROVE CountsFailures'
  OBVIOUS
<1>0. /\ reconnects \in Nat /\ misses \in Nat /\ reconnects <= misses
      /\ reconnects <= MaxRetries /\ MaxRetries \in Nat
  BY Limits DEF TypeOK, CountsFailures
<1>1. CASE UNCHANGED <<reconnects, misses>>
  BY <1>1 DEF CountsFailures
<1>2. CASE Start
  BY <1>2 DEF Start, RetriesAfresh, CountsFailures
<1>3. CASE StopByHand \/ MainBlock \/ AskArrives
  BY <1>1, <1>3 DEF StopByHand, MainBlock, CapFires, LateStopRuns, RedialRuns, SendAsk,
     AskArrives
<1>4. CASE TearsDown \/ UNCHANGED vars
  BY <1>1, <1>4 DEF TearsDown, vars
<1>5. ASSUME NEW s \in Sockets, Opens(s) PROVE CountsFailures'
  BY <1>0, <1>5 DEF Opens, CountsFailures
<1>6. ASSUME NEW s \in Sockets, LosesLink PROVE CountsFailures'
  BY <1>0, <1>6 DEF LosesLink, MayRetry, CountsFailures
<1>7. ASSUME NEW s \in Sockets, Fails(s) PROVE CountsFailures'
  BY <1>1, <1>6, <1>7 DEF Fails, IgnoresFailure
<1>8. ASSUME NEW s \in Sockets,
             \/ BecomesReady(s) \/ TakesAsk(s) \/ AsksToEnd(s)
             \/ ServerCloses(s) \/ CloseCompletes(s)
      PROVE  CountsFailures'
  BY <1>1, <1>8 DEF BecomesReady, TakesAsk, AsksToEnd, ServerCloses, CloseCompletes
<1>9. QED
  BY <1>2, <1>3, <1>4, <1>5, <1>7, <1>8 DEF Next, Listener

\* onFailure ends a conversation only after MaxRetries failures of its own link since
\* it last worked.
THEOREM GivesUpLate == Spec => GivesUpOnlyAfterFailuresInARow
<1>1. Init => CountsFailures
  BY DEF Init, CountsFailures
<1>2. TypeOK /\ CountsFailures /\ [Next]_vars => [GaveUp => misses' > MaxRetries]_vars
  <2>1. SUFFICES ASSUME TypeOK, CountsFailures, running, ~running',
                        NEW s \in Sockets, Fails(s)
                 PROVE  misses' > MaxRetries
    BY DEF GaveUp
  <2>2. LosesLink /\ ~MayRetry
    BY <2>1 DEF Fails, LosesLink, IgnoresFailure, MayRetry
  <2>3. misses >= MaxRetries /\ misses \in Nat /\ MaxRetries \in Nat
    BY <2>1, <2>2, Limits DEF MayRetry, TypeOK, CountsFailures
  <2>4. QED
    BY <2>2, <2>3 DEF LosesLink
<1>3. QED
  BY <1>1, <1>2, CountSteps, ConnectionTypeCorrect, PTL
     DEF Spec, GivesUpOnlyAfterFailuresInARow

-----------------------------------------------------------------------------
(* Typed questions. *)

LEMMA AsksQuiet ==
  ASSUME AsksMove, UNCHANGED <<pendingAsk, held, typed, sent, askBlocks, overlapped>>,
         \A s \in Sockets : InOnOpen(s)' <=> InOnOpen(s),
         \A s \in Sockets : phase[s] = "taking" => phase'[s] = "taking"
  PROVE  AsksMove'
<1>1. \A a : HandedOn(a)' = HandedOn(a) /\ (Waits(a)' <=> Waits(a))
  BY DEF HandedOn, Waits
<1>2. QED
  BY <1>1 DEF AsksMove, AsksInOrder

\* Dialling and whatever else happens to a socket outside its onOpen.
LEMMA PhasesQuiet ==
  ASSUME TypeOK,
         \/ phase' = phase
         \/ Dial
         \/ \E s \in Sockets : /\ phase[s] \in {"dialing", "open", "half"}
                               /\ \E p \in {"gone", "half"} : phase' = [phase EXCEPT ![s] = p]
  PROVE  /\ \A s \in Sockets : InOnOpen(s)' <=> InOnOpen(s)
         /\ \A s \in Sockets : phase[s] = "taking" => phase'[s] = "taking"
<1>1. CASE phase' = phase
  BY <1>1 DEF InOnOpen
<1>2. CASE Dial
  <2>1. /\ phase[ws'] = "gone" /\ phase'[ws'] = "dialing"
        /\ \A s \in Sockets : s # ws' => phase'[s] = phase[s]
    BY <1>2, DialTyped DEF TypeOK, Dial
  <2>2. QED
    BY <2>1 DEF InOnOpen
<1>3. ASSUME NEW s \in Sockets, phase[s] \in {"dialing", "open", "half"},
             NEW p \in {"gone", "half"}, phase' = [phase EXCEPT ![s] = p]
      PROVE  /\ \A t \in Sockets : InOnOpen(t)' <=> InOnOpen(t)
             /\ \A t \in Sockets : phase[t] = "taking" => phase'[t] = "taking"
  BY <1>3 DEF TypeOK, InOnOpen
<1>4. QED
  BY <1>1, <1>2, <1>3

LEMMA AsksTyped ==
  ASSUME TypeOK
  PROVE  \A a \in Asks : sent[a] \in Nat /\ askBlocks[a] \in Nat /\ HandedOn(a) \in Nat
BY DEF TypeOK, HandedOn

LEMMA AsksArrive ==
  ASSUME TypeOK, AsksMove, AskArrives
  PROVE  AsksMove'
<1>1. /\ typed \in Nat /\ typed' = typed + 1 /\ typed' \in Asks /\ typed < typed'
      /\ UNCHANGED <<sent, held, phase, overlapped>>
      /\ \/ askBlocks' = Posted(typed') /\ pendingAsk' = pendingAsk
         \/ pendingAsk' = typed' /\ askBlocks' = askBlocks
  BY Limits DEF AskArrives, TypeOK, Asks, linkVars
<1> DEFINE n == typed + 1
<1>2. /\ HandedOn(n) = 0 /\ ~Waits(n) /\ n \in Asks /\ sent[n] = 0 /\ askBlocks[n] = 0
  BY <1>1, AsksTyped, Limits DEF TypeOK, AsksMove, HandedOn, Waits
<1>3. \A a \in Asks : a # n => HandedOn(a)' = HandedOn(a) /\ (Waits(a)' => Waits(a))
  <2>1. \A a \in Asks : a # n => Posted(n)[a] = askBlocks[a]
    BY DEF Posted, TypeOK
  <2>2. typed' = n
    BY <1>1
  <2>3. QED
    BY <1>1, <2>1, <2>2 DEF HandedOn, Waits
<1>4. \/ sent'[n] + askBlocks'[n] = 1 /\ pendingAsk' # n /\ \A s \in Sockets : held'[s] # n
      \/ sent'[n] + askBlocks'[n] = 0
  BY <1>1, <1>2 DEF Posted, TypeOK, Waits
<1>5. \A a \in Asks : a > typed' => HandedOn(a)' = 0
  BY <1>1, <1>3, Limits DEF AsksMove, Asks
<1>6. ASSUME AsksInOrder PROVE AsksInOrder'
  <2>1. ASSUME NEW a \in Asks
        PROVE  sent'[a] + askBlocks'[a] <= 1
               /\ ((pendingAsk' = a \/ \E s \in Sockets : held'[s] = a)
                     => sent'[a] + askBlocks'[a] = 0)
    <3>1. CASE a = n
      BY <1>4, <3>1
    <3>2. CASE a # n
      BY <1>3, <1>6, <3>2 DEF AsksInOrder, HandedOn, Waits
    <3>3. QED
      BY <3>1, <3>2
  <2>2. QED
    BY <1>1, <1>6, <2>1 DEF AsksInOrder, InOnOpen, HandedOn, Waits
<1>7. QED
  BY <1>1, <1>5, <1>6 DEF AsksMove

LEMMA AskIsSent ==
  ASSUME TypeOK, AsksMove, SendAsk
  PROVE  AsksMove'
<1>1. PICK a \in Asks :
        /\ askBlocks[a] > 0 /\ askBlocks' = [askBlocks EXCEPT ![a] = @ - 1]
        /\ sent' = [sent EXCEPT ![a] = @ + 1] \/ sent' = sent
  BY DEF SendAsk
<1>2. UNCHANGED <<pendingAsk, held, typed, phase, overlapped>>
  BY DEF SendAsk, linkVars
<1>3. \A b \in Asks : sent'[b] + askBlocks'[b] <= HandedOn(b)
  BY <1>1, AsksTyped DEF TypeOK, HandedOn
<1>4. \A b \in Asks : sent'[b] + askBlocks'[b] \in Nat
  BY <1>1, AsksTyped DEF TypeOK
<1>5. \A b \in Asks : sent'[b] + askBlocks'[b] = 0 \/ HandedOn(b) > 0
  BY <1>3, <1>4, AsksTyped
<1>6. ASSUME AsksInOrder PROVE AsksInOrder'
  BY <1>2, <1>3, <1>5, <1>6, AsksTyped DEF AsksInOrder, InOnOpen, HandedOn, Waits
<1>7. \A b \in Asks : b > typed' => HandedOn(b)' = 0
  BY <1>2, <1>5 DEF AsksMove, HandedOn
<1>8. QED
  BY <1>2, <1>6, <1>7 DEF AsksMove

LEMMA AskIsRead ==
  ASSUME TypeOK, AsksMove, NEW s \in Sockets, BecomesReady(s)
  PROVE  AsksMove'
<1>1. /\ phase[s] = "opening" /\ phase'[s] \in {"open", "taking"}
      /\ pendingAsk # None => phase'[s] = "taking"
      /\ \A t \in Sockets : t # s => phase'[t] = phase[t] /\ held'[t] = held[t]
      /\ held'[s] = pendingAsk
      /\ UNCHANGED <<pendingAsk, typed, sent, askBlocks, overlapped>>
  BY DEF BecomesReady, TypeOK, blockVars
<1>2. \A a \in Asks : HandedOn(a)' = HandedOn(a) /\ (Waits(a)' => Waits(a))
  BY <1>1 DEF HandedOn, Waits
<1>3. \A t \in Sockets : InOnOpen(t)' => InOnOpen(t)
  BY <1>1 DEF InOnOpen
<1>4. QED
  BY <1>1, <1>2, <1>3 DEF AsksMove, AsksInOrder

LEMMA AskIsTaken ==
  ASSUME TypeOK, AsksMove, NEW s \in Sockets, TakesAsk(s)
  PROVE  AsksMove'
<1>1. /\ phase[s] = "taking" /\ phase'[s] = "open"
      /\ \A t \in Sockets : t # s => phase'[t] = phase[t] /\ held'[t] = held[t]
      /\ held'[s] = None /\ pendingAsk' = None
      /\ UNCHANGED <<typed, sent, overlapped>>
      /\ askBlocks' = Posted(held[s]) /\ held[s] \in 0..typed
  BY DEF TakesAsk, TypeOK, AskTaken
<1>2. \A t \in Sockets : InOnOpen(t)' => InOnOpen(t)
  BY <1>1 DEF InOnOpen
<1>3. \A a \in Asks : a # held[s] => HandedOn(a)' = HandedOn(a)
  BY <1>1 DEF HandedOn, Posted, TypeOK
<1>4. \A a \in Asks : a > typed => HandedOn(a)' = 0
  BY <1>1, <1>3 DEF AsksMove, TypeOK, Asks
<1>5. ASSUME AsksInOrder PROVE AsksInOrder'
  <2>1. \A t \in Sockets : held'[t] = None
    BY <1>1, <1>5 DEF AsksInOrder, AsksMove, InOnOpen
  <2>2. \A a \in Asks : ~Waits(a)'
    BY <1>1, <2>1 DEF Waits, Asks, None
  <2>3. held[s] \in Asks => HandedOn(held[s]) = 0
    BY <1>5 DEF AsksInOrder, Waits
  <2>4. \A a \in Asks : a = held[s] => sent'[a] + askBlocks'[a] = 1
    BY <1>1, <2>3, AsksTyped DEF HandedOn, Posted, TypeOK
  <2>5. \A a \in Asks : HandedOn(a)' <= 1
    BY <1>3, <1>5, <2>4, AsksTyped DEF AsksInOrder, HandedOn
  <2>6. QED
    BY <1>2, <1>5, <2>2, <2>5 DEF AsksInOrder
<1>6. \A t \in Sockets : held'[t] # None => phase'[t] = "taking"
  BY <1>1 DEF AsksMove
<1>7. QED
  BY <1>1, <1>4, <1>5, <1>6 DEF AsksMove

LEMMA AsksSteps == TypeOK /\ AsksMove /\ [Next]_vars => AsksMove'
<1> SUFFICES ASSUME TypeOK, AsksMove, [Next]_vars PROVE AsksMove'
  OBVIOUS
<1>1. CASE Start \/ StopByHand
  BY <1>1, AsksQuiet, PhasesQuiet DEF Start, StopByHand, askVars
<1>2. CASE CapFires \/ LateStopRuns
  BY <1>2, AsksQuiet, PhasesQuiet DEF CapFires, LateStopRuns, askVars
<1>3. CASE RedialRuns
  <2>1. phase' = phase \/ Dial
    BY <1>3 DEF RedialRuns, linkVars
  <2>2. QED
    BY <1>3, <2>1, AsksQuiet, PhasesQuiet DEF RedialRuns, askVars
<1>4. CASE AskArrives
  BY <1>4, AsksArrive
<1>5. CASE SendAsk
  BY <1>5, AskIsSent
<1>6. CASE TearsDown \/ UNCHANGED vars
  BY <1>6, AsksQuiet, PhasesQuiet DEF TearsDown, vars, linkVars, blockVars, askVars
<1>7. ASSUME NEW s \in Sockets, Opens(s) PROVE AsksMove'
  <2>1. /\ phase[s] = "dialing" /\ phase' = [phase EXCEPT ![s] = "opening"]
        /\ overlapped' = (overlapped \/ \E t \in Sockets : InOnOpen(t))
        /\ UNCHANGED <<pendingAsk, held, typed, sent, askBlocks>>
    BY <1>7 DEF Opens, blockVars, askVars
  <2>2. \A a : HandedOn(a)' = HandedOn(a) /\ (Waits(a)' <=> Waits(a))
    BY <2>1 DEF HandedOn, Waits
  <2>3. /\ \A t \in Sockets : InOnOpen(t)' => InOnOpen(t) \/ t = s
        /\ \A t \in Sockets : phase[t] = "taking" => phase'[t] = "taking"
    BY <2>1 DEF TypeOK, InOnOpen
  <2>4. QED
    BY <2>1, <2>2, <2>3 DEF AsksMove, AsksInOrder
<1>8. ASSUME NEW s \in Sockets, BecomesReady(s) \/ TakesAsk(s) PROVE AsksMove'
  BY <1>8, AskIsRead, AskIsTaken
<1>9. ASSUME NEW s \in Sockets, AsksToEnd(s) PROVE AsksMove'
  BY <1>9, AsksQuiet, PhasesQuiet DEF AsksToEnd, linkVars, askVars
<1>10. ASSUME NEW s \in Sockets, Fails(s) \/ ServerCloses(s) \/ CloseCompletes(s)
       PROVE  AsksMove'
  <2>1. /\ phase[s] \in {"dialing", "open", "half"}
        /\ \E p \in {"gone", "half"} : phase' = [phase EXCEPT ![s] = p]
        /\ UNCHANGED <<pendingAsk, held, typed, sent, askBlocks, overlapped>>
    BY <1>10 DEF Fails, ServerCloses, CloseCompletes, blockVars, askVars
  <2>2. QED
    BY <2>1, AsksQuiet, PhasesQuiet
<1>11. QED
  BY <1>1, <1>2, <1>3, <1>4, <1>5, <1>6, <1>7, <1>8, <1>9, <1>10
  DEF Next, MainBlock, Listener

\* pendingAsk is read and taken out in two steps, on each socket's own thread. Unless
\* two of these threads are in onOpen together, no later open, and no other socket,
\* asks the question again.
THEOREM NoQuestionTwice == Spec => []AskSentAtMostOnce
<1>1. Init => AsksMove
  <2>1. Init => \A a \in Asks : HandedOn(a) = 0
    BY DEF Init, HandedOn
  <2>2. Init => \A s \in Sockets : held[s] = None /\ ~InOnOpen(s)
    BY DEF Init, InOnOpen
  <2>3. QED
    BY <2>1, <2>2 DEF AsksMove, AsksInOrder
<1>2. TypeOK /\ AsksMove => AskSentAtMostOnce
  BY AsksTyped DEF AsksMove, AsksInOrder, AskSentAtMostOnce, HandedOn
<1>3. QED
  BY <1>1, <1>2, AsksSteps, ConnectionTypeCorrect, PTL DEF Spec

-----------------------------------------------------------------------------
(* The track of an open link. *)

LEMMA SpeakerSteps == TypeOK /\ LinkHasSpeaker /\ [Next]_vars => LinkHasSpeaker'
<1> SUFFICES ASSUME TypeOK, LinkHasSpeaker, [Next]_vars PROVE LinkHasSpeaker'
  OBVIOUS
<1> USE DEF LinkHasSpeaker, InOnOpen
<1>1. CASE Start
  <2>1. ws' \in Sockets /\ phase'[ws'] = "dialing" /\ running'
    BY <1>1, DialTyped DEF Start, TypeOK
  <2>2. QED
    BY <2>1
<1>2. CASE StopByHand \/ CapFires \/ LateStopRuns
  BY <1>2, StopTyped DEF StopByHand, CapFires, LateStopRuns
<1>3. CASE RedialRuns
  <2>1. CASE running
    <3>1. ws' \in Sockets /\ phase'[ws'] = "dialing" /\ running'
      BY <1>3, <2>1, DialTyped DEF RedialRuns, TypeOK
    <3>2. QED
      BY <3>1
  <2>2. CASE ~running
    BY <1>3, <2>2 DEF RedialRuns, linkVars
  <2>3. QED
    BY <2>1, <2>2
<1>4. CASE AskArrives \/ SendAsk \/ UNCHANGED vars
  BY <1>4 DEF AskArrives, SendAsk, vars, linkVars
<1>5. CASE TearsDown
  BY <1>5 DEF TearsDown, linkVars, TypeOK
<1>6. ASSUME NEW s \in Sockets, Opens(s) PROVE LinkHasSpeaker'
  <2>1. /\ UNCHANGED <<running, ws, teardowns>> /\ track' = TRUE
        /\ (s = ws => teardowns = 0)
        /\ ws \in Sockets /\ ws # s => phase'[ws] = phase[ws]
    BY <1>6 DEF Opens, TrackBuilt, TypeOK
  <2>2. QED
    BY <2>1 DEF TypeOK
<1>7. ASSUME NEW s \in Sockets, BecomesReady(s) PROVE LinkHasSpeaker'
  <2>1. /\ UNCHANGED <<running, ws, teardowns, track>> /\ phase[s] = "opening"
        /\ ws \in Sockets /\ ws # s => phase'[ws] = phase[ws]
    BY <1>7 DEF BecomesReady, TypeOK
  <2>2. QED
    BY <2>1 DEF TypeOK
<1>8. ASSUME NEW s \in Sockets, TakesAsk(s) PROVE LinkHasSpeaker'
  <2>1. /\ UNCHANGED <<running, ws, teardowns, track>> /\ phase[s] = "taking"
        /\ ws \in Sockets /\ ws # s => phase'[ws] = phase[ws]
    BY <1>8 DEF TakesAsk, TypeOK
  <2>2. QED
    BY <2>1 DEF TypeOK
<1>9. ASSUME NEW s \in Sockets, AsksToEnd(s) PROVE LinkHasSpeaker'
  BY <1>9 DEF AsksToEnd, linkVars
<1>10. ASSUME NEW s \in Sockets, Fails(s) PROVE LinkHasSpeaker'
  <2>1. /\ track' = track /\ phase'[s] = "gone"
        /\ ws \in Sockets /\ ws # s => phase'[ws] = phase[ws]
    BY <1>10 DEF Fails, TypeOK
  <2>2. CASE running /\ s = ws
    BY <1>10, <2>1, <2>2, StopTyped DEF Fails, LosesLink
  <2>3. CASE ~(running /\ s = ws)
    BY <1>10, <2>1, <2>3 DEF Fails, IgnoresFailure, TypeOK
  <2>4. QED
    BY <2>2, <2>3
<1>11. ASSUME NEW s \in Sockets, ServerCloses(s) \/ CloseCompletes(s)
       PROVE  LinkHasSpeaker'
  <2>1. /\ UNCHANGED <<running, ws, teardowns, track>> /\ phase'[s] \in {"half", "gone"}
        /\ ws \in Sockets /\ ws # s => phase'[ws] = phase[ws]
    BY <1>11 DEF ServerCloses, CloseCompletes, TypeOK
  <2>2. QED
    BY <2>1 DEF TypeOK
<1>12. QED
  BY <1>1, <1>2, <1>3, <1>4, <1>5, <1>6, <1>7, <1>8, <1>9, <1>10, <1>11
     DEF Next, MainBlock, Listener

\* Every open builds a track if there is none, and a teardown is only queued when the
\* link is lost.
THEOREM OpenLinkHasSpeaker == Spec => []SpeakerForOpenLink
<1>1. Init => LinkHasSpeaker
  BY DEF Init, LinkHasSpeaker
<1>2. LinkHasSpeaker => SpeakerForOpenLink
  BY DEF LinkHasSpeaker, SpeakerForOpenLink
<1>3. QED
  BY <1>1, <1>2, SpeakerSteps, ConnectionTypeCorrect, PTL DEF Spec
=============================================================================
