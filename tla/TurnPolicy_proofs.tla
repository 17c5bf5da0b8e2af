--------------------------- MODULE TurnPolicy_proofs ---------------------------
(***************************************************************************)
(* TurnTaking implements TurnPolicy, for every number of turns, responses, *)
(* deltas, sockets and events in flight and every choice of utterances and *)
(* tools: no utterance is answered twice, or after it was dropped, or      *)
(* before its speaker has finished.                                        *)
(*                                                                         *)
(* An utterance reaches response.create on one of two ways, its commit or  *)
(* its transcript. The invariant says where it can be on them: at most one *)
(* commit and one transcript of it are in flight, in this order; at most   *)
(* one task carries it; a task and an event never do so together; and what *)
(* turnEcho remembers decides which of the two ways is still open.         *)
(***************************************************************************)
EXTENDS TurnTaking_proofs

USE BoundsAssumption DEF BoundsAssumption

-----------------------------------------------------------------------------
(* The invariant. *)

AtCommit(i, t) == inbox[i].type = "committed" /\ inbox[i].turn = t
AtTranscript(i, t) == inbox[i].type = "transcript" /\ inbox[i].turn = t

Uncommitted(t) == \E i \in 1..Len(inbox) : AtCommit(i, t)
Unread(t) == \E i \in 1..Len(inbox) : AtTranscript(i, t)

Queued(t) == \E i \in 1..Len(mainQ) : Carries(mainQ[i], t)
Delayed(t) == \E task \in timers : Carries(task, t)
Collected(t) == t \in gatedFrags.turns
Carried(t) == Queued(t) \/ Delayed(t) \/ Collected(t)

\* A commit and a transcript of a turn come once each, the commit first.
EventsOnce ==
  \A t \in Turns : \A i, j \in 1..Len(inbox) :
    /\ AtCommit(i, t) /\ AtCommit(j, t) => i = j
    /\ AtTranscript(i, t) /\ AtTranscript(j, t) => i = j
    /\ AtCommit(i, t) /\ AtTranscript(j, t) => i < j

\* One task carries a turn, in one place.
QueuedOnce ==
  \A t \in Turns : \A i, j \in 1..Len(mainQ) :
    Carries(mainQ[i], t) /\ Carries(mainQ[j], t) => i = j
DelayedOnce ==
  \A t \in Turns : \A a, b \in timers : Carries(a, t) /\ Carries(b, t) => a = b
OnePlace ==
  \A t \in Turns : /\ ~(Queued(t) /\ Delayed(t))
                   /\ ~(Queued(t) /\ Collected(t))
                   /\ ~(Delayed(t) /\ Collected(t))
CarriedOnce == QueuedOnce /\ DelayedOnce /\ OnePlace

\* A turn that is not over is on no way yet.
Untouched(t) ==
  /\ ~Uncommitted(t) /\ ~Unread(t) /\ t \notin untold /\ ~Carried(t)
  /\ asked[t] = 0

\* Until its commit is handled a turn is not answered; while its transcript is
\* to come, turnEcho knows whether it was; talk-over is not answered yet and
\* nothing more will be heard of it.
Stage(t) ==
  /\ t > Over => Untouched(t)
  /\ asked[t] <= 1
  /\ t \in untold => ~Unread(t)
  /\ Uncommitted(t) => asked[t] = 0
  /\ Carried(t) => asked[t] = 0 /\ t \notin untold /\ ~Uncommitted(t) /\ ~Unread(t)
  /\ t \in untold \/ Unread(t)
       => \/ Uncommitted(t) \/ turnEcho[t] = "live"
          \/ turnEcho[t] = "echo" /\ asked[t] = 0
Staged == \A t \in Turns : Stage(t)

\* A server that is left takes what it was told with it.
Unlinked == ~linked => untold = {} /\ ~talking

TurnInv == EventsOnce /\ CarriedOnce /\ Staged /\ Unlinked

-----------------------------------------------------------------------------
(* What a step of one queue does to the places. *)

LEMMA Shifts ==
  ASSUME NEW S, NEW q \in Seq(S), q # <<>>
  PROVE  /\ Tail(q) \in Seq(S) /\ Len(Tail(q)) = Len(q) - 1
         /\ 1 \in 1..Len(q) /\ Head(q) = q[1]
         /\ \A i \in 1..Len(Tail(q)) : i + 1 \in 1..Len(q) /\ Tail(q)[i] = q[i + 1]
         /\ \A i \in 1..Len(q) : i # 1 => i - 1 \in 1..Len(Tail(q)) /\ Tail(q)[i - 1] = q[i]
OBVIOUS

\* The event that is received is the one that disappears.
LEMMA ReceiveMoves ==
  ASSUME inbox \in Seq(Events), EventsOnce, NEW type, Receive(type)
  PROVE  /\ EventsOnce'
         /\ \A t \in Turns :
              /\ Uncommitted(t)' <=> Uncommitted(t) /\ ~(type = "committed" /\ Head(inbox).turn = t)
              /\ Unread(t)' <=> Unread(t) /\ ~(type = "transcript" /\ Head(inbox).turn = t)
<1>1. /\ inbox' = Tail(inbox) /\ Len(inbox') = Len(inbox) - 1
      /\ 1 \in 1..Len(inbox) /\ inbox[1].type = type /\ Head(inbox) = inbox[1]
      /\ \A i \in 1..Len(inbox') : i + 1 \in 1..Len(inbox) /\ inbox'[i] = inbox[i + 1]
      /\ \A i \in 1..Len(inbox) : i # 1 => i - 1 \in 1..Len(inbox') /\ inbox'[i - 1] = inbox[i]
      /\ Len(inbox) \in Nat
  BY Shifts DEF Receive
<1>2. EventsOnce'
  <2> SUFFICES ASSUME NEW t \in Turns, NEW i \in 1..Len(inbox'), NEW j \in 1..Len(inbox')
               PROVE  /\ AtCommit(i, t)' /\ AtCommit(j, t)' => i = j
                      /\ AtTranscript(i, t)' /\ AtTranscript(j, t)' => i = j
                      /\ AtCommit(i, t)' /\ AtTranscript(j, t)' => i < j
    BY DEF EventsOnce
  <2>1. \A k \in 1..Len(inbox') : /\ AtCommit(k, t)' <=> AtCommit(k + 1, t)
                                  /\ AtTranscript(k, t)' <=> AtTranscript(k + 1, t)
    BY <1>1 DEF AtCommit, AtTranscript
  <2>2. i \in Int /\ j \in Int /\ i + 1 \in 1..Len(inbox) /\ j + 1 \in 1..Len(inbox)
    BY <1>1
  <2>3. QED
    BY <2>1, <2>2 DEF EventsOnce
<1>3. ASSUME NEW t \in Turns
      PROVE  /\ Uncommitted(t)' <=> Uncommitted(t) /\ ~(type = "committed" /\ Head(inbox).turn = t)
             /\ Unread(t)' <=> Unread(t) /\ ~(type = "transcript" /\ Head(inbox).turn = t)
  <2>1. Uncommitted(t)' <=> \E i \in 1..Len(inbox) : i # 1 /\ AtCommit(i, t)
    BY <1>1 DEF Uncommitted, AtCommit
  <2>2. Unread(t)' <=> \E i \in 1..Len(inbox) : i # 1 /\ AtTranscript(i, t)
    BY <1>1 DEF Unread, AtTranscript
  <2>3. /\ AtCommit(1, t) <=> type = "committed" /\ Head(inbox).turn = t
        /\ AtTranscript(1, t) <=> type = "transcript" /\ Head(inbox).turn = t
    BY <1>1 DEF AtCommit, AtTranscript
  <2>4. QED
    BY <1>1, <2>1, <2>2, <2>3 DEF EventsOnce, Uncommitted, Unread
<1>4. QED
  BY <1>2, <1>3

\* What the server adds comes last.
LEMMA DeliverMoves ==
  ASSUME inbox \in Seq(Events), NEW e \in Events, Deliver(<<e>>)
  PROVE  \A t \in Turns :
           /\ Uncommitted(t)' <=> Uncommitted(t) \/ (e.type = "committed" /\ e.turn = t)
           /\ Unread(t)' <=> Unread(t) \/ (e.type = "transcript" /\ e.turn = t)
<1>1. /\ Len(inbox') = Len(inbox) + 1 /\ Len(inbox) \in Nat
      /\ Len(inbox) + 1 \in 1..Len(inbox') /\ inbox'[Len(inbox) + 1] = e
      /\ \A i \in 1..Len(inbox) : i \in 1..Len(inbox') /\ inbox'[i] = inbox[i]
      /\ \A i \in 1..Len(inbox') : i \in 1..Len(inbox) \/ i = Len(inbox) + 1
  BY DEF Deliver
<1>2. QED
  BY <1>1 DEF Uncommitted, Unread, AtCommit, AtTranscript

\* An event that is neither, or the first of its kind and the commit not after it.
LEMMA DeliverKeepsOnce ==
  ASSUME inbox \in Seq(Events), EventsOnce, NEW e \in Events, Deliver(<<e>>),
         e.type = "committed" => ~Uncommitted(e.turn) /\ ~Unread(e.turn),
         e.type = "transcript" => ~Unread(e.turn)
  PROVE  EventsOnce'
<1>0. PICK n : n = Len(inbox) + 1
  OBVIOUS
<1>1. /\ Len(inbox') = n /\ Len(inbox) \in Nat
      /\ inbox'[n] = e
      /\ \A i \in 1..Len(inbox) : inbox'[i] = inbox[i]
      /\ \A i \in 1..Len(inbox') : i \in 1..Len(inbox) \/ i = n
  BY <1>0 DEF Deliver
<1>2. SUFFICES ASSUME NEW t \in Turns, NEW i \in 1..Len(inbox'), NEW j \in 1..Len(inbox')
               PROVE  /\ AtCommit(i, t)' /\ AtCommit(j, t)' => i = j
                      /\ AtTranscript(i, t)' /\ AtTranscript(j, t)' => i = j
                      /\ AtCommit(i, t)' /\ AtTranscript(j, t)' => i < j
  BY DEF EventsOnce
<1>3. \A k \in 1..Len(inbox) : /\ AtCommit(k, t)' <=> AtCommit(k, t)
                               /\ AtTranscript(k, t)' <=> AtTranscript(k, t)
  BY <1>1 DEF AtCommit, AtTranscript
<1>4. /\ AtCommit(n, t)' <=> e.type = "committed" /\ e.turn = t
      /\ AtTranscript(n, t)' <=> e.type = "transcript" /\ e.turn = t
  BY <1>1 DEF AtCommit, AtTranscript
<1>5. /\ \A k \in 1..Len(inbox) : ~Uncommitted(t) => ~AtCommit(k, t)
      /\ \A k \in 1..Len(inbox) : ~Unread(t) => ~AtTranscript(k, t)
  BY DEF Uncommitted, Unread
<1>6. CASE i \in 1..Len(inbox) /\ j \in 1..Len(inbox)
  BY <1>3, <1>6 DEF EventsOnce
<1>7. CASE i \in 1..Len(inbox) /\ j = n
  BY <1>0, <1>1, <1>3, <1>4, <1>5, <1>7
<1>8. CASE i = n /\ j \in 1..Len(inbox)
  BY <1>0, <1>1, <1>3, <1>4, <1>5, <1>8
<1>9. CASE i = n /\ j = n
  BY <1>4, <1>9
<1>10. QED
  BY <1>1, <1>6, <1>7, <1>8, <1>9

\* The beginning of what was in flight has the commit of each transcript in it.
LEMMA PrefixMoves ==
  ASSUME inbox \in Seq(Events), EventsOnce, NEW n \in 0..Len(inbox),
         inbox' = SubSeq(inbox, 1, n)
  PROVE  /\ EventsOnce'
         /\ \A t \in Turns :
              /\ Uncommitted(t)' => Uncommitted(t)
              /\ Unread(t)' => Unread(t) /\ (Uncommitted(t) => Uncommitted(t)')
<1>1. /\ Len(inbox') = n
      /\ \A i \in 1..Len(inbox') : i \in 1..Len(inbox) /\ inbox'[i] = inbox[i]
      /\ \A i \in 1..Len(inbox) : i <= n => i \in 1..Len(inbox')
  OBVIOUS
<1>2. \A k \in 1..Len(inbox'), t \in Turns : /\ AtCommit(k, t)' <=> AtCommit(k, t)
                                             /\ AtTranscript(k, t)' <=> AtTranscript(k, t)
  BY <1>1 DEF AtCommit, AtTranscript
<1>3. EventsOnce'
  BY <1>1, <1>2 DEF EventsOnce
<1>4. ASSUME NEW t \in Turns
      PROVE  /\ Uncommitted(t)' => Uncommitted(t)
             /\ Unread(t)' => Unread(t) /\ (Uncommitted(t) => Uncommitted(t)')
  <2>1. (Uncommitted(t)' => Uncommitted(t)) /\ (Unread(t)' => Unread(t))
    BY <1>1, <1>2 DEF Uncommitted, Unread
  <2>2. ASSUME Unread(t)', Uncommitted(t) PROVE Uncommitted(t)'
    <3>1. PICK i \in 1..Len(inbox) : AtCommit(i, t)
      BY <2>2 DEF Uncommitted
    <3>2. PICK j \in 1..Len(inbox') : AtTranscript(j, t)
      BY <2>2, <1>2 DEF Unread
    <3>3. i < j
      BY <1>1, <3>1, <3>2 DEF EventsOnce
    <3>4. i \in 1..Len(inbox')
      BY <1>1, <3>3
    <3>5. QED
      BY <1>2, <3>1, <3>4 DEF Uncommitted
  <2>3. QED
    BY <2>1, <2>2
<1>5. QED
  BY <1>3, <1>4

LEMMA NothingInFlight ==
  ASSUME inbox' = <<>>
  PROVE  EventsOnce' /\ \A t \in Turns : ~Uncommitted(t)' /\ ~Unread(t)'
BY DEF EventsOnce, Uncommitted, Unread

LEMMA SameInbox ==
  ASSUME UNCHANGED inbox
  PROVE  /\ EventsOnce' <=> EventsOnce
         /\ \A t \in Turns : (Uncommitted(t)' <=> Uncommitted(t)) /\ (Unread(t)' <=> Unread(t))
BY DEF EventsOnce, Uncommitted, Unread, AtCommit, AtTranscript

\* The task that is taken is the one that disappears.
LEMMA TakeMoves ==
  ASSUME mainQ \in Seq(Tasks), QueuedOnce, NEW op, TakeTask(op)
  PROVE  /\ QueuedOnce'
         /\ \A t \in Turns : /\ Queued(t)' <=> Queued(t) /\ ~Carries(Head(mainQ), t)
                             /\ Carries(Head(mainQ), t) => Queued(t)
<1>1. /\ Len(mainQ') = Len(mainQ) - 1 /\ Len(mainQ) \in Nat
      /\ 1 \in 1..Len(mainQ) /\ Head(mainQ) = mainQ[1]
      /\ \A i \in 1..Len(mainQ') : i + 1 \in 1..Len(mainQ) /\ mainQ'[i] = mainQ[i + 1]
      /\ \A i \in 1..Len(mainQ) : i # 1 => i - 1 \in 1..Len(mainQ') /\ mainQ'[i - 1] = mainQ[i]
  BY Shifts DEF TakeTask
<1>2. QueuedOnce'
  <2> SUFFICES ASSUME NEW t \in Turns, NEW i \in 1..Len(mainQ'), NEW j \in 1..Len(mainQ'),
                      Carries(mainQ'[i], t), Carries(mainQ'[j], t)
               PROVE  i = j
    BY DEF QueuedOnce, Carries
  <2>1. /\ i + 1 \in 1..Len(mainQ) /\ j + 1 \in 1..Len(mainQ)
        /\ Carries(mainQ[i + 1], t) /\ Carries(mainQ[j + 1], t)
    BY <1>1
  <2>2. i + 1 = j + 1
    BY <2>1 DEF QueuedOnce
  <2>3. QED
    BY <1>1, <2>2
<1>3. ASSUME NEW t \in Turns
      PROVE  /\ Queued(t)' <=> Queued(t) /\ ~Carries(Head(mainQ), t)
             /\ Carries(Head(mainQ), t) => Queued(t)
  <2>1. Queued(t)' <=> \E i \in 1..Len(mainQ') : Carries(mainQ'[i], t)
    BY DEF Queued, Carries
  <2>2. Queued(t)' <=> \E i \in 1..Len(mainQ) : i # 1 /\ Carries(mainQ[i], t)
    BY <1>1, <2>1
  <2>3. QED
    BY <1>1, <2>2 DEF QueuedOnce, Queued
<1>4. QED
  BY <1>2, <1>3

\* A task that is posted comes last.
LEMMA PostMoves ==
  ASSUME mainQ \in Seq(Tasks), QueuedOnce, NEW task \in Tasks, mainQ' = Append(mainQ, task),
         \A t \in Turns : Carries(task, t) => ~Queued(t)
  PROVE  /\ QueuedOnce'
         /\ \A t \in Turns : Queued(t)' <=> Queued(t) \/ Carries(task, t)
<1>0. PICK n : n = Len(mainQ) + 1
  OBVIOUS
<1>1. /\ Len(mainQ') = n /\ Len(mainQ) \in Nat
      /\ n \in 1..Len(mainQ') /\ mainQ'[n] = task
      /\ \A i \in 1..Len(mainQ) : i \in 1..Len(mainQ') /\ mainQ'[i] = mainQ[i]
      /\ \A i \in 1..Len(mainQ') : i \in 1..Len(mainQ) \/ i = n
  BY <1>0
<1>2. QueuedOnce'
  <2> SUFFICES ASSUME NEW t \in Turns, NEW i \in 1..Len(mainQ'), NEW j \in 1..Len(mainQ'),
                      Carries(mainQ'[i], t), Carries(mainQ'[j], t)
               PROVE  i = j
    BY DEF QueuedOnce, Carries
  <2>1. CASE Carries(task, t)
    BY <1>1, <2>1 DEF Queued
  <2>2. CASE ~Carries(task, t)
    BY <1>1, <2>2 DEF QueuedOnce
  <2>3. QED
    BY <2>1, <2>2
<1>3. ASSUME NEW t \in Turns PROVE Queued(t)' <=> Queued(t) \/ Carries(task, t)
  <2>1. Queued(t)' <=> \E i \in 1..Len(mainQ') : Carries(mainQ'[i], t)
    BY DEF Queued, Carries
  <2>2. QED
    BY <1>1, <2>1 DEF Queued
<1>4. QED
  BY <1>2, <1>3

\* Only pieces of talk-over and delayed creates carry turns.
LEMMA OthersCarryNothing ==
  ASSUME NEW task, task.op \notin {"frag", "create"}
  PROVE  \A t \in Turns : ~Carries(task, t)
BY DEF Carries

\* Nothing new is carried: what is carried in one place still is, or nowhere.
LEMMA CarriersShrink ==
  ASSUME OnePlace, QueuedOnce', DelayedOnce',
         \A t \in Turns : /\ Queued(t)' => Queued(t)
                          /\ Delayed(t)' => Delayed(t)
                          /\ Collected(t)' => Collected(t)
  PROVE  CarriedOnce' /\ \A t \in Turns : Carried(t)' => Carried(t)
BY DEF CarriedOnce, OnePlace, Carried

LEMMA SameQueue ==
  ASSUME UNCHANGED mainQ
  PROVE  (QueuedOnce => QueuedOnce') /\ \A t \in Turns : Queued(t)' <=> Queued(t)
BY DEF QueuedOnce, Queued, Carries

\* Delays that begin for nobody's turn, and delays that are taken back.
LEMMA TimersMove ==
  ASSUME DelayedOnce,
         \A task \in timers' : task \in timers \/ \A t \in Turns : ~Carries(task, t)
  PROVE  DelayedOnce' /\ \A t \in Turns : Delayed(t)' => Delayed(t)
<1>1. ASSUME NEW t \in Turns, NEW a \in timers', NEW b \in timers',
             Carries(a, t), Carries(b, t)
      PROVE  a = b
  BY <1>1 DEF DelayedOnce
<1>2. DelayedOnce'
  BY <1>1 DEF DelayedOnce, Carries
<1>3. ASSUME NEW t \in Turns, Delayed(t)' PROVE Delayed(t)
  <2>1. \E task \in timers' : Carries(task, t)
    BY <1>3 DEF Delayed, Carries
  <2>2. QED
    BY <2>1 DEF Delayed
<1>4. QED
  BY <1>2, <1>3

\* The ways get shorter: no turn that waits for less is answered for it.
LEMMA WaysShrink ==
  ASSUME Staged, UNCHANGED <<asked, turnEcho>>, untold' \subseteq untold,
         Over \in Int, Over' \in Int, Over <= Over', Turns \subseteq Int,
         \A t \in Turns : /\ Uncommitted(t)' => Uncommitted(t)
                          /\ Unread(t)' => Unread(t)
                          /\ Carried(t)' => Carried(t)
                          /\ (t \in untold' \/ Unread(t)') /\ Uncommitted(t) => Uncommitted(t)'
  PROVE  Staged'
<1> SUFFICES ASSUME NEW t \in Turns PROVE Stage(t)'
  BY DEF Staged
<1>1. Stage(t)
  BY DEF Staged
<1>2. t > Over' => t > Over
  OBVIOUS
<1>3. QED
  BY <1>1, <1>2 DEF Stage, Untouched

-----------------------------------------------------------------------------
(* Steps that ask for no answer. *)

\* No answer is asked for and no turn gets on its way that was not.
Quiet ==
  /\ UNCHANGED asked
  /\ Over' \in {Over, Over + 1}
  /\ \A t \in Turns : OnItsWay(t)' => OnItsWay(t)

LEMMA WaysOf ==
  ASSUME NEW t
  PROVE  /\ OnItsWay(t) <=> t \in untold \/ Uncommitted(t) \/ Unread(t) \/ Carried(t)
         /\ OnItsWay(t)' <=> t \in untold' \/ Uncommitted(t)' \/ Unread(t)' \/ Carried(t)'
<1> USE DEF OnItsWay, InEvent, Uncommitted, Unread, Carried, Queued, Delayed, Collected,
            AtCommit, AtTranscript
<1>1. OnItsWay(t) <=> t \in untold \/ Uncommitted(t) \/ Unread(t) \/ Carried(t)
  OBVIOUS
<1>2. OnItsWay(t)' <=> t \in untold' \/ Uncommitted(t)' \/ Unread(t)' \/ Carried(t)'
  OBVIOUS
<1>3. QED
  BY <1>1, <1>2

LEMMA OverTyped ==
  ASSUME ServerTyped, talking \in BOOLEAN
  PROVE  /\ Over \in 0..MaxTurns
         /\ Turns \subseteq Int
         /\ UNCHANGED <<talking, spoken>> => Over' = Over
BY DEF ServerTyped, Over, Turns

\* What is on its way gets ahead or is lost.
LEMMA QuietStep ==
  ASSUME TypeOK, TurnInv, UNCHANGED <<asked, turnEcho, untold, talking, spoken, linked>>,
         EventsOnce', CarriedOnce',
         \A t \in Turns : /\ Uncommitted(t)' <=> Uncommitted(t)
                          /\ Unread(t)' <=> Unread(t)
                          /\ Carried(t)' => Carried(t)
  PROVE  TurnInv' /\ Quiet
<1>1. /\ Over \in Int /\ Over' = Over /\ Turns \subseteq Int
  BY OverTyped DEF TypeOK, FlagsTyped
<1>2. Staged'
  BY <1>1, WaysShrink DEF TurnInv
<1>3. Unlinked'
  BY DEF TurnInv, Unlinked
<1>4. Quiet
  BY <1>1, WaysOf DEF Quiet
<1>5. QED
  BY <1>2, <1>3, <1>4 DEF TurnInv

\* The events do something else.
LEMMA TasksStep ==
  ASSUME TypeOK, TurnInv,
         UNCHANGED <<inbox, asked, turnEcho, untold, talking, spoken, linked>>,
         CarriedOnce', \A t \in Turns : Carried(t)' => Carried(t)
  PROVE  TurnInv' /\ Quiet
<1>1. EventsOnce'
  BY SameInbox DEF TurnInv
<1>2. QED
  BY <1>1, SameInbox, QuietStep

\* The tasks do something else.
LEMMA EventsStep ==
  ASSUME TypeOK, TurnInv,
         UNCHANGED <<mainQ, gatedFrags, asked, turnEcho, untold, talking, spoken, linked>>,
         \A task \in timers' : task \in timers \/ task.op \notin {"frag", "create"},
         EventsOnce',
         \A t \in Turns : /\ Uncommitted(t)' <=> Uncommitted(t)
                          /\ Unread(t)' <=> Unread(t)
  PROVE  TurnInv' /\ Quiet
<1>1. CarriedOnce' /\ \A t \in Turns : Carried(t)' => Carried(t)
  <2>1. DelayedOnce' /\ \A t \in Turns : Delayed(t)' => Delayed(t)
    BY OthersCarryNothing, TimersMove DEF TurnInv, CarriedOnce
  <2>2. QueuedOnce' /\ \A t \in Turns : Queued(t)' => Queued(t)
    BY SameQueue DEF TurnInv, CarriedOnce
  <2>3. \A t \in Turns : Collected(t)' => Collected(t)
    BY DEF Collected
  <2>4. QED
    BY <2>1, <2>2, <2>3, CarriersShrink DEF TurnInv, CarriedOnce
<1>2. QED
  BY <1>1, QuietStep

\* A step that has nothing to do with turns.
LEMMA Elsewhere ==
  ASSUME TypeOK, TurnInv,
         UNCHANGED <<inbox, mainQ, timers, gatedFrags, asked, turnEcho, untold, talking,
                     spoken, linked>>
  PROVE  TurnInv' /\ Quiet
<1>1. EventsOnce'
  BY SameInbox DEF TurnInv
<1>2. QED
  BY <1>1, SameInbox, EventsStep

LEMMA OthersKeepTurns ==
  ASSUME TypeOK, TurnInv,
         \/ EndSession \/ Interrupt \/ PlayChunk \/ SpeakerStarves
         \/ SlowToolReturns \/ UNCHANGED vars
         \/ \E g \in watchers : WatcherLeaves(g)
  PROVE  TurnInv' /\ Quiet
<1>1. UNCHANGED <<inbox, mainQ, timers, gatedFrags, asked, turnEcho, untold, talking,
                  spoken, linked>>
  BY DEF EndSession, Interrupt, PlayChunk, SpeakerStarves, SlowToolReturns, WatcherLeaves,
         vars, appVars, fragVars, roomVars, linkVars, ghostVars
<1>2. QED
  BY <1>1, Elsewhere

\* Events that say nothing of whether a turn is answered.
LEMMA EventsPass ==
  ASSUME TypeOK, TurnInv,
         \/ HandleCreated \/ HandleSpeechStarted \/ HandleSpeechStopped
         \/ HandleAudioDelta \/ HandleToolCall \/ HandleDoneChatter \/ HandleDone
  PROVE  TurnInv' /\ Quiet
<1>1. PICK type \in {"created", "started", "stopped", "delta", "call", "done"} : Receive(type)
  BY DEF HandleCreated, HandleSpeechStarted, HandleSpeechStopped, HandleAudioDelta,
         HandleToolCall, HandleDoneChatter, HandleDone
<1>2. EventsOnce' /\ \A t \in Turns : /\ Uncommitted(t)' <=> Uncommitted(t)
                                      /\ Unread(t)' <=> Unread(t)
  <2>1. inbox \in Seq(Events) /\ EventsOnce
    BY DEF TypeOK, QueuesTyped, TurnInv
  <2>2. type # "committed" /\ type # "transcript"
    BY <1>1
  <2>3. QED
    BY <1>1, <2>1, <2>2, ReceiveMoves
<1>3. \A task \in timers' : task \in timers \/ task.op \notin {"frag", "create"}
  BY DEF HandleCreated, HandleSpeechStarted, HandleSpeechStopped, HandleAudioDelta,
         HandleToolCall, HandleDoneChatter, HandleDone
<1>4. UNCHANGED <<mainQ, gatedFrags, asked, turnEcho, untold, talking, spoken, linked>>
  BY DEF HandleCreated, HandleSpeechStarted, HandleSpeechStopped, HandleAudioDelta,
         HandleToolCall, HandleDoneChatter, HandleDone, fragVars, roomVars, linkVars, ghostVars
<1>5. QED
  BY <1>2, <1>3, <1>4, EventsStep

\* What the server sends of its responses.
LEMMA ServerPasses ==
  ASSUME TypeOK, TurnInv,
         \/ ServerTakesCreate \/ ServerTakesCancel \/ ServerSendsDelta
         \/ ServerCallsTool \/ ServerFinishes
  PROVE  TurnInv' /\ Quiet
<1>1. UNCHANGED <<mainQ, timers, gatedFrags, asked, turnEcho, untold, talking, spoken, linked>>
  BY DEF ServerTakesCreate, ServerTakesCancel, ServerSendsDelta, ServerCallsTool,
         ServerFinishes, appVars, fragVars, roomVars, linkVars, ghostVars
<1>2. \/ UNCHANGED inbox
      \/ \E e \in Events : Deliver(<<e>>) /\ e.type \in {"created", "done", "delta", "call"}
  <2>1. CASE ServerTakesCreate
    <3>1. created < MaxResponses => [type |-> "created", resp |-> created + 1] \in Events
      BY DEF TypeOK, ServerTyped, Events, Responses
    <3>2. QED
      BY <2>1, <3>1 DEF ServerTakesCreate
  <2>2. ASSUME serving # 0 PROVE /\ [type |-> "done", resp |-> serving] \in Events
                                 /\ [type |-> "delta", resp |-> serving] \in Events
                                 /\ \A tool \in Tools : [type |-> "call", resp |-> serving, tool |-> tool] \in Events
    BY <2>2 DEF TypeOK, ServerTyped, Events, Responses
  <2>3. CASE ServerTakesCancel
    BY <2>2, <2>3 DEF ServerTakesCancel
  <2>4. CASE ServerSendsDelta
    BY <2>2, <2>4 DEF ServerSendsDelta
  <2>5. CASE ServerCallsTool
    BY <2>2, <2>5 DEF ServerCallsTool
  <2>6. CASE ServerFinishes
    BY <2>2, <2>6 DEF ServerFinishes
  <2>7. QED
    BY <2>1, <2>3, <2>4, <2>5, <2>6
<1>3. inbox \in Seq(Events) /\ EventsOnce
  BY DEF TypeOK, QueuesTyped, TurnInv
<1>4. EventsOnce' /\ \A t \in Turns : /\ Uncommitted(t)' <=> Uncommitted(t)
                                      /\ Unread(t)' <=> Unread(t)
  <2>1. CASE UNCHANGED inbox
    BY <1>3, <2>1, SameInbox
  <2>2. ASSUME NEW e \in Events, Deliver(<<e>>), e.type \in {"created", "done", "delta", "call"}
        PROVE  EventsOnce' /\ \A t \in Turns : /\ Uncommitted(t)' <=> Uncommitted(t)
                                               /\ Unread(t)' <=> Unread(t)
    BY <1>3, <2>2, DeliverMoves, DeliverKeepsOnce
  <2>3. QED
    BY <1>2, <2>1, <2>2
<1>5. QED
  BY <1>1, <1>4, EventsStep

\* Someone begins to speak; what is said is not over yet.
LEMMA SpeakingBegins ==
  ASSUME TypeOK, TurnInv, SomeoneSpeaks
  PROVE  TurnInv' /\ Quiet
<1> DEFINE e == [type |-> "started", turn |-> spoken + 1]
<1>1. /\ e \in Events /\ Deliver(<<e>>) /\ e.type = "started"
      /\ inbox \in Seq(Events) /\ EventsOnce
  BY DEF SomeoneSpeaks, TypeOK, QueuesTyped, ServerTyped, TurnInv, Events, Turns
<1>2. EventsOnce' /\ \A t \in Turns : /\ Uncommitted(t)' <=> Uncommitted(t)
                                      /\ Unread(t)' <=> Unread(t)
  <2> HIDE DEF e
  <2>1. e.type # "committed" /\ e.type # "transcript"
    BY <1>1
  <2>2. QED
    BY <1>1, <2>1, DeliverMoves, DeliverKeepsOnce
<1>3. UNCHANGED <<mainQ, timers, gatedFrags, asked, turnEcho, untold, linked>>
  BY DEF SomeoneSpeaks, appVars, fragVars, linkVars, ghostVars
<1>4. /\ Over \in Int /\ Over' = Over /\ Turns \subseteq Int
  BY OverTyped DEF TypeOK, FlagsTyped, ServerTyped, SomeoneSpeaks, Over
<1>5. CarriedOnce' /\ \A t \in Turns : Carried(t)' <=> Carried(t)
  BY <1>3 DEF TurnInv, CarriedOnce, QueuedOnce, DelayedOnce, OnePlace, Carried, Queued,
              Delayed, Collected, Carries
<1>6. Staged'
  BY <1>2, <1>3, <1>4, <1>5, WaysShrink DEF TurnInv
<1>7. Unlinked'
  BY DEF TurnInv, Unlinked, SomeoneSpeaks, linkVars
<1>8. Quiet
  BY <1>2, <1>3, <1>4, <1>5, WaysOf DEF Quiet
<1>9. QED
  BY <1>2, <1>5, <1>6, <1>7, <1>8 DEF TurnInv

\* An utterance is over: its commit is the first that is heard of it.
LEMMA SpeakingEnds ==
  ASSUME TypeOK, TurnInv, SomeonePauses
  PROVE  /\ TurnInv'
         /\ UNCHANGED <<running, asked>> /\ Over' = Over + 1 /\ Over' \in Turns
         /\ \A t \in Turns : OnItsWay(t)' <=> OnItsWay(t) \/ t = Over'
<1>0. PICK t0 \in Turns : t0 = spoken
  BY DEF SomeonePauses, TypeOK, ServerTyped, Turns
<1> DEFINE a == [type |-> "stopped", turn |-> t0]
           b == [type |-> "committed", turn |-> t0]
<1>1. /\ Over = t0 - 1 /\ Over' = t0 /\ t0 \in Int /\ Turns \subseteq Int
  BY <1>0, OverTyped DEF SomeonePauses, Over, TypeOK, FlagsTyped, ServerTyped, Turns
<1>2. Stage(t0) /\ Untouched(t0)
  BY <1>1 DEF TurnInv, Staged, Stage
<1>3. /\ a \in Events /\ b \in Events /\ a.type = "stopped" /\ b.type = "committed"
      /\ b.turn = t0 /\ inbox \in Seq(Events) /\ inbox' = inbox \o <<a, b>>
  BY <1>0 DEF SomeonePauses, Deliver, TypeOK, QueuesTyped, Events
<1>4. PICK n \in Nat : n = Len(inbox)
  BY <1>3
<1> HIDE DEF a, b
<1>5. /\ Len(inbox') = n + 2 /\ inbox'[n + 1] = a /\ inbox'[n + 2] = b
      /\ \A i \in 1..Len(inbox) : i \in 1..Len(inbox') /\ inbox'[i] = inbox[i]
      /\ \A i \in 1..Len(inbox') : i \in 1..Len(inbox) \/ i = n + 1 \/ i = n + 2
  <2>1. /\ <<a, b>> \in Seq(Events) /\ Len(<<a, b>>) = 2
        /\ <<a, b>>[1] = a /\ <<a, b>>[2] = b
    BY <1>3
  <2>2. ASSUME NEW i \in 1..n + 2
        PROVE  inbox'[i] = IF i <= n THEN inbox[i] ELSE <<a, b>>[i - n]
    BY <1>3, <1>4, <2>1, <2>2
  <2>3. /\ Len(inbox') = n + 2 /\ inbox'[n + 1] = a /\ inbox'[n + 2] = b
        /\ \A i \in 1..Len(inbox) : inbox'[i] = inbox[i]
    <3>1. Len(inbox') = n + 2
      BY <1>3, <1>4, <2>1
    <3>2. /\ n + 1 \in 1..n + 2 /\ n + 2 \in 1..n + 2 /\ ~(n + 1 <= n) /\ ~(n + 2 <= n)
          /\ (n + 1) - n = 1 /\ (n + 2) - n = 2
      BY <1>4
    <3>3. inbox'[n + 1] = <<a, b>>[1] /\ inbox'[n + 2] = <<a, b>>[2]
      BY <2>2, <3>2
    <3>4. \A i \in 1..Len(inbox) : i \in 1..n + 2 /\ i <= n
      BY <1>4
    <3>5. QED
      BY <2>1, <2>2, <3>1, <3>3, <3>4
  <2>4. QED
    BY <1>4, <2>3
<1>6. ASSUME NEW t \in Turns
      PROVE  /\ \A i \in 1..Len(inbox) : /\ AtCommit(i, t)' <=> AtCommit(i, t)
                                         /\ AtTranscript(i, t)' <=> AtTranscript(i, t)
             /\ ~AtCommit(n + 1, t)' /\ ~AtTranscript(n + 1, t)' /\ ~AtTranscript(n + 2, t)'
             /\ AtCommit(n + 2, t)' <=> t = t0
  BY <1>3, <1>5 DEF AtCommit, AtTranscript
<1>7. ASSUME NEW t \in Turns
      PROVE  (Uncommitted(t)' <=> Uncommitted(t) \/ t = t0) /\ (Unread(t)' <=> Unread(t))
  BY <1>4, <1>5, <1>6 DEF Uncommitted, Unread
<1>8. EventsOnce'
  <2> SUFFICES ASSUME NEW t \in Turns, NEW i \in 1..Len(inbox'), NEW j \in 1..Len(inbox')
               PROVE  /\ AtCommit(i, t)' /\ AtCommit(j, t)' => i = j
                      /\ AtTranscript(i, t)' /\ AtTranscript(j, t)' => i = j
                      /\ AtCommit(i, t)' /\ AtTranscript(j, t)' => i < j
    BY DEF EventsOnce
  <2>1. CASE i \in 1..Len(inbox) /\ j \in 1..Len(inbox)
    BY <1>6, <2>1 DEF TurnInv, EventsOnce
  <2>2. CASE t # t0
    BY <1>5, <1>6, <2>1, <2>2
  <2>3. CASE t = t0
    <3>1. \A k \in 1..Len(inbox) : ~AtCommit(k, t) /\ ~AtTranscript(k, t)
      BY <1>2, <2>3 DEF Untouched, Uncommitted, Unread
    <3>2. QED
      BY <1>5, <1>6, <2>3, <3>1
  <2>4. QED
    BY <2>2, <2>3
<1>9. /\ UNCHANGED <<running, mainQ, timers, gatedFrags, asked, turnEcho, linked>>
      /\ untold' = untold \cup {t0}
  BY <1>0 DEF SomeonePauses, appVars, fragVars, linkVars, ghostVars
<1>10. CarriedOnce' /\ \A t \in Turns : Carried(t)' <=> Carried(t)
  BY <1>9 DEF TurnInv, CarriedOnce, QueuedOnce, DelayedOnce, OnePlace, Carried, Queued,
              Delayed, Collected, Carries
<1>11. Staged'
  <2> SUFFICES ASSUME NEW t \in Turns PROVE Stage(t)'
    BY DEF Staged
  <2>1. Stage(t)
    BY DEF TurnInv, Staged
  <2>2. CASE t = t0
    BY <1>1, <1>2, <1>7, <1>9, <1>10, <2>2 DEF Stage, Untouched
  <2>3. CASE t # t0
    BY <1>1, <1>7, <1>9, <1>10, <2>1, <2>3 DEF Stage, Untouched
  <2>4. QED
    BY <2>2, <2>3
<1>12. Unlinked'
  BY DEF TurnInv, Unlinked, SomeonePauses, linkVars
<1>13. ASSUME NEW t \in Turns PROVE OnItsWay(t)' <=> OnItsWay(t) \/ t = Over'
  BY <1>1, <1>7, <1>9, <1>10, WaysOf
<1>14. QED
  BY <1>1, <1>8, <1>9, <1>10, <1>11, <1>12, <1>13 DEF TurnInv

\* A transcript is sent of a turn that is not told, and only once.
LEMMA Transcribing ==
  ASSUME TypeOK, TurnInv, ServerTranscribes
  PROVE  TurnInv' /\ Quiet
<1>1. PICK t0 \in untold, text \in Texts :
        /\ untold' = untold \ {t0}
        /\ Deliver(<<[type |-> "transcript", turn |-> t0, text |-> text]>>)
  BY DEF ServerTranscribes
<1>2. t0 \in Turns
  BY DEF TypeOK, ServerTyped
<1>3. PICK e \in Events : Deliver(<<e>>) /\ e.type = "transcript" /\ e.turn = t0
  BY <1>1, <1>2 DEF Events
<1>4. inbox \in Seq(Events) /\ EventsOnce
  BY DEF TypeOK, QueuesTyped, TurnInv
<1>5. \A t \in Turns : Stage(t)
  BY DEF TurnInv, Staged
<1>6. ~Unread(t0)
  BY <1>2, <1>5 DEF Stage
<1>7. /\ EventsOnce'
      /\ \A t \in Turns : /\ Uncommitted(t)' <=> Uncommitted(t)
                          /\ Unread(t)' <=> Unread(t) \/ t = t0
  BY <1>3, <1>4, <1>6, DeliverMoves, DeliverKeepsOnce
<1>8. UNCHANGED <<mainQ, timers, gatedFrags, asked, turnEcho, talking, spoken, linked>>
  BY DEF ServerTranscribes, appVars, fragVars, linkVars, ghostVars
<1>9. CarriedOnce' /\ \A t \in Turns : Carried(t)' <=> Carried(t)
  BY <1>8 DEF TurnInv, CarriedOnce, QueuedOnce, DelayedOnce, OnePlace, Carried, Queued,
              Delayed, Collected, Carries
<1>10. Over \in Int /\ Over' = Over
  BY <1>8, OverTyped DEF TypeOK, FlagsTyped
<1>11. Staged'
  BY <1>1, <1>5, <1>7, <1>8, <1>9, <1>10 DEF Staged, Stage, Untouched
<1>12. Unlinked'
  BY <1>8 DEF TurnInv, Unlinked, ServerTranscribes
<1>13. Quiet
  BY <1>1, <1>7, <1>8, <1>9, <1>10, WaysOf DEF Quiet
<1>14. QED
  BY <1>7, <1>9, <1>11, <1>12, <1>13 DEF TurnInv

\* The link goes, and with it what was said to it; an utterance that was under
\* way is over.
LEMMA LeavingMoves ==
  ASSUME TypeOK, TurnInv, LeavesServer, UNCHANGED <<mainQ, timers, gatedFrags, asked, turnEcho>>,
         EventsOnce',
         \A t \in Turns : /\ Uncommitted(t)' => Uncommitted(t)
                          /\ Unread(t)' => Unread(t) /\ (Uncommitted(t) => Uncommitted(t)')
  PROVE  TurnInv' /\ Quiet
<1>1. untold' = {} /\ ~talking' /\ ~linked' /\ spoken' = spoken
  BY DEF LeavesServer
<1>2. /\ Over \in Int /\ Over' \in {Over, Over + 1} /\ Over' \in Int /\ Over <= Over'
      /\ Turns \subseteq Int
  BY <1>1, OverTyped DEF TypeOK, FlagsTyped, ServerTyped, Over
<1>3. CarriedOnce' /\ \A t \in Turns : Carried(t)' <=> Carried(t)
  BY DEF TurnInv, CarriedOnce, QueuedOnce, DelayedOnce, OnePlace, Carried, Queued,
         Delayed, Collected, Carries
<1>4. Staged'
  BY <1>1, <1>2, <1>3, WaysShrink DEF TurnInv
<1>5. Unlinked'
  BY <1>1 DEF Unlinked
<1>6. Quiet
  BY <1>1, <1>2, <1>3, WaysOf DEF Quiet
<1>7. QED
  BY <1>3, <1>4, <1>5, <1>6 DEF TurnInv

LEMMA LinksMove ==
  ASSUME TypeOK, TurnInv, LinkFails \/ Start \/ Opens
  PROVE  TurnInv' /\ Quiet
<1>1. inbox \in Seq(Events) /\ EventsOnce
  BY DEF TypeOK, QueuesTyped, TurnInv
<1>2. CASE LinkFails
  <2>1. /\ LeavesServer /\ inbox' = <<>>
        /\ UNCHANGED <<mainQ, timers, gatedFrags, asked, turnEcho>>
    BY <1>2 DEF LinkFails, fragVars, ghostVars
  <2>2. QED
    BY <2>1, NothingInFlight, LeavingMoves
<1>3. CASE Start
  <2>1. PICK n \in 0..Len(inbox) : inbox' = SubSeq(inbox, 1, n)
    BY <1>3 DEF Start
  <2>2. LeavesServer /\ UNCHANGED <<mainQ, timers, gatedFrags, asked, turnEcho>>
    BY <1>3 DEF Start, fragVars, ghostVars
  <2>3. QED
    BY <1>1, <2>1, <2>2, PrefixMoves, LeavingMoves
<1>4. CASE Opens
  <2>1. /\ inbox' = <<>> /\ linked' /\ untold' = {} /\ untold = {}
        /\ UNCHANGED <<mainQ, timers, gatedFrags, asked, turnEcho, talking, spoken>>
    BY <1>4 DEF Opens, fragVars, ghostVars, TurnInv, Unlinked
  <2>2. /\ Over \in Int /\ Over' = Over /\ Turns \subseteq Int
    BY <2>1, OverTyped DEF TypeOK, FlagsTyped
  <2>3. EventsOnce' /\ \A t \in Turns : ~Uncommitted(t)' /\ ~Unread(t)'
    BY <2>1, NothingInFlight
  <2>4. CarriedOnce' /\ \A t \in Turns : Carried(t)' <=> Carried(t)
    BY <2>1 DEF TurnInv, CarriedOnce, QueuedOnce, DelayedOnce, OnePlace, Carried, Queued,
                Delayed, Collected, Carries
  <2>5. Staged'
    BY <2>1, <2>2, <2>3, <2>4, WaysShrink DEF TurnInv
  <2>6. Unlinked'
    BY <2>1 DEF Unlinked
  <2>7. Quiet
    BY <2>1, <2>2, <2>3, <2>4, WaysOf DEF Quiet
  <2>8. QED
    BY <2>3, <2>4, <2>5, <2>6, <2>7 DEF TurnInv
<1>5. QED
  BY <1>2, <1>3, <1>4

\* The transcript of a turn decides whether it is talk-over, which then carries
\* it: the turn is not answered, for it was told to be echo at its commit.
LEMMA TranscriptMoves ==
  ASSUME TypeOK, TurnInv, HandleTranscript
  PROVE  TurnInv' /\ Quiet
<1>1. PICK t0 \in Turns : t0 = Head(inbox).turn
  BY EventFields DEF TypeOK, QueuesTyped, HandleTranscript
<1> DEFINE text == Head(inbox).text
           f == [op |-> "frag", turn |-> t0, text |-> text]
<1>2. /\ inbox \in Seq(Events) /\ EventsOnce /\ Receive("transcript")
      /\ mainQ \in Seq(Tasks) /\ f \in Tasks
  BY <1>1, EventFields DEF TypeOK, QueuesTyped, TurnInv, HandleTranscript, Tasks
<1>3. /\ EventsOnce'
      /\ \A t \in Turns : /\ Uncommitted(t)' <=> Uncommitted(t)
                          /\ Unread(t)' <=> Unread(t) /\ t # t0
  BY <1>1, <1>2, ReceiveMoves
<1>4. 1 \in 1..Len(inbox) /\ AtTranscript(1, t0)
  BY <1>1, <1>2 DEF Receive, AtTranscript
<1>5. Unread(t0) /\ ~Uncommitted(t0)
  <2>1. \A i \in 1..Len(inbox) : ~AtCommit(i, t0)
    BY <1>2, <1>4 DEF EventsOnce
  <2>2. QED
    BY <1>4, <2>1 DEF Unread, Uncommitted
<1>6. /\ \A t \in Turns : Stage(t)
      /\ t0 \notin untold /\ ~Carried(t0)
      /\ turnEcho[t0] = "live" \/ (turnEcho[t0] = "echo" /\ asked[t0] = 0)
  BY <1>5 DEF TurnInv, Staged, Stage
<1>7. /\ turnEcho' = [turnEcho EXCEPT ![t0] = "absent"] /\ turnEcho \in [Turns -> {"absent", "live", "echo"}]
      /\ UNCHANGED <<timers, gatedFrags, asked, untold, talking, spoken, linked>>
  BY <1>1 DEF HandleTranscript, fragVars, roomVars, linkVars, ghostVars, TypeOK, StateTyped
<1>8. \/ \E task \in Tasks : /\ mainQ' = Append(mainQ, task)
                             /\ task.op \in {"silence", "hush"}
      \/ mainQ' = Append(mainQ, f) /\ asked[t0] = 0
      \/ UNCHANGED mainQ
  <2>1. mainQ' = mainQ \o TranscriptTask(t0, text, WasGated(t0))
    BY <1>1 DEF HandleTranscript
  <2>2. WasGated(t0) => asked[t0] = 0
    BY <1>6 DEF WasGated
  <2>3. [op |-> "silence"] \in Tasks /\ [op |-> "hush"] \in Tasks
    BY DEF Tasks
  <2>4. \/ TranscriptTask(t0, text, WasGated(t0)) \in {<<[op |-> "silence"]>>, <<[op |-> "hush"]>>}
        \/ TranscriptTask(t0, text, WasGated(t0)) = <<f>> /\ asked[t0] = 0
        \/ TranscriptTask(t0, text, WasGated(t0)) = <<>>
    BY <2>2 DEF TranscriptTask
  <2>5. \A task : mainQ \o <<task>> = Append(mainQ, task)
    BY <1>2
  <2>6. mainQ \o <<>> = mainQ
    BY <1>2
  <2>7. QED
    BY <2>1, <2>3, <2>4, <2>5, <2>6
<1>9. \A t \in Turns : Carries(f, t) <=> t = t0
  BY DEF Carries
<1> HIDE DEF f
<1>10. /\ CarriedOnce' /\ \A t \in Turns : Carried(t)' => Carried(t) \/ (t = t0 /\ asked[t0] = 0)
  <2>1. QueuedOnce /\ DelayedOnce /\ OnePlace
    BY DEF TurnInv, CarriedOnce
  <2>2. /\ QueuedOnce'
        /\ \A t \in Turns : Queued(t)' => Queued(t) \/ (t = t0 /\ asked[t0] = 0)
    <3>1. CASE UNCHANGED mainQ
      BY <2>1, <3>1, SameQueue
    <3>2. ASSUME NEW task \in Tasks, mainQ' = Append(mainQ, task), task.op \in {"silence", "hush"}
          PROVE  QueuedOnce' /\ \A t \in Turns : Queued(t)' => Queued(t)
      <4>1. \A t \in Turns : ~Carries(task, t)
        BY <3>2, OthersCarryNothing
      <4>2. QED
        BY <1>2, <2>1, <3>2, <4>1, PostMoves
    <3>3. CASE mainQ' = Append(mainQ, f) /\ asked[t0] = 0
      BY <1>2, <1>6, <1>9, <2>1, <3>3, PostMoves DEF Carried
    <3>4. QED
      BY <1>8, <3>1, <3>2, <3>3
  <2>3. \A t \in Turns : (Delayed(t)' <=> Delayed(t)) /\ (Collected(t)' <=> Collected(t))
    BY <1>7 DEF Delayed, Carries, Collected
  <2>4. DelayedOnce'
    BY <1>7, <2>1, TimersMove
  <2>5. OnePlace'
    BY <1>6, <2>1, <2>2, <2>3 DEF OnePlace, Carried
  <2>6. QED
    BY <2>2, <2>3, <2>4, <2>5 DEF CarriedOnce, Carried
<1>11. Over \in Int /\ Over' = Over /\ Turns \subseteq Int
  BY <1>7, OverTyped DEF TypeOK, FlagsTyped
<1>12. Staged'
  <2> SUFFICES ASSUME NEW t \in Turns PROVE Stage(t)'
    BY DEF Staged
  <2>1. CASE t = t0
    BY <1>3, <1>5, <1>6, <1>7, <1>10, <1>11, <2>1 DEF Stage, Untouched
  <2>2. CASE t # t0
    BY <1>3, <1>6, <1>7, <1>10, <1>11, <2>2 DEF Stage, Untouched
  <2>3. QED
    BY <2>1, <2>2
<1>13. Unlinked'
  BY <1>7 DEF TurnInv, Unlinked
<1>14. Quiet
  BY <1>3, <1>5, <1>7, <1>10, <1>11, WaysOf DEF Quiet
<1>15. QED
  BY <1>3, <1>10, <1>12, <1>13, <1>14 DEF TurnInv

-----------------------------------------------------------------------------
(* Steps that ask for an answer, and the tasks of the main thread. *)

\* An answer is asked for turns that wait, and for no other; the rest wait on.
Answers(T) ==
  /\ running /\ running'
  /\ T \subseteq Turns
  /\ \A t \in T : t <= Over /\ OnItsWay(t) /\ asked[t] = 0
  /\ asked' = [t \in Turns |-> IF t \in T THEN asked[t] + 1 ELSE asked[t]]
  /\ Over' = Over
  /\ \A t \in Turns : t \notin T => (OnItsWay(t)' <=> OnItsWay(t))

\* Turns that are carried, collected or not, can be answered.
LEMMA CarriedWait ==
  ASSUME TypeOK, Staged, NEW t \in Turns, Carried(t)
  PROVE  t <= Over /\ OnItsWay(t) /\ asked[t] = 0
<1>1. Stage(t) /\ Over \in Int /\ t \in Int
  BY OverTyped DEF Staged, TypeOK, FlagsTyped
<1>2. QED
  BY <1>1, WaysOf DEF Stage, Untouched

\* A commit is answered at once, unless the gate makes it wait for its words.
LEMMA CommitMoves ==
  ASSUME TypeOK, TurnInv, HandleCommitted
  PROVE  TurnInv' /\ (Quiet \/ \E T \in SUBSET Turns : Answers(T))
<1>1. PICK t0 \in Turns : t0 = Head(inbox).turn
  BY EventFields DEF TypeOK, QueuesTyped, HandleCommitted
<1>2. inbox \in Seq(Events) /\ EventsOnce /\ Receive("committed")
  BY DEF TypeOK, QueuesTyped, TurnInv, HandleCommitted
<1>3. /\ EventsOnce'
      /\ \A t \in Turns : /\ Uncommitted(t)' <=> Uncommitted(t) /\ t # t0
                          /\ Unread(t)' <=> Unread(t)
  BY <1>1, <1>2, ReceiveMoves
<1>4. Uncommitted(t0)
  <2>1. 1 \in 1..Len(inbox) /\ AtCommit(1, t0)
    BY <1>1, <1>2 DEF Receive, AtCommit
  <2>2. QED
    BY <2>1 DEF Uncommitted
<1>5. /\ \A t \in Turns : Stage(t)
      /\ asked[t0] = 0 /\ ~Carried(t0) /\ ~(t0 > Over)
  BY <1>4 DEF TurnInv, Staged, Stage, Untouched
<1>6. /\ UNCHANGED <<running, mainQ, timers, gatedFrags, untold, talking, spoken, linked>>
      /\ turnEcho \in [Turns -> {"absent", "live", "echo"}] /\ asked \in [Turns -> Nat]
  BY DEF HandleCommitted, fragVars, roomVars, linkVars, TypeOK, StateTyped, ServerTyped
<1>7. \/ /\ turnEcho' = [turnEcho EXCEPT ![t0] = "echo"]
         /\ UNCHANGED asked
      \/ /\ turnEcho' = [turnEcho EXCEPT ![t0] = "live"]
         /\ asked' = IF running THEN [t \in Turns |-> IF t \in {t0} THEN asked[t] + 1 ELSE asked[t]]
                     ELSE asked
  BY <1>1 DEF HandleCommitted, Credit
<1>8. CarriedOnce' /\ \A t \in Turns : Carried(t)' <=> Carried(t)
  BY <1>6 DEF TurnInv, CarriedOnce, QueuedOnce, DelayedOnce, OnePlace, Carried, Queued,
              Delayed, Collected, Carries
<1>9. Over \in Int /\ Over' = Over /\ Turns \subseteq Int
  BY <1>6, OverTyped DEF TypeOK, FlagsTyped
<1>10. Staged'
  <2> SUFFICES ASSUME NEW t \in Turns PROVE Stage(t)'
    BY DEF Staged
  <2>1. CASE t = t0
    BY <1>3, <1>5, <1>6, <1>7, <1>8, <1>9, <2>1 DEF Stage, Untouched
  <2>2. CASE t # t0
    <3>1. asked'[t] = asked[t] /\ turnEcho'[t] = turnEcho[t]
      BY <1>6, <1>7, <2>2
    <3>2. QED
      BY <1>3, <1>5, <1>6, <1>8, <1>9, <2>2, <3>1 DEF Stage, Untouched
  <2>3. QED
    BY <2>1, <2>2
<1>11. Unlinked'
  BY <1>6 DEF TurnInv, Unlinked
<1>12. \A t \in Turns : /\ OnItsWay(t)' => OnItsWay(t)
                        /\ t # t0 => (OnItsWay(t)' <=> OnItsWay(t))
  BY <1>3, <1>6, <1>8, WaysOf
<1>13. CASE UNCHANGED asked
  BY <1>3, <1>8, <1>9, <1>10, <1>11, <1>12, <1>13 DEF TurnInv, Quiet
<1>14. CASE asked' # asked
  <2>1. /\ running /\ running'
        /\ asked' = [t \in Turns |-> IF t \in {t0} THEN asked[t] + 1 ELSE asked[t]]
    BY <1>6, <1>7, <1>14
  <2>2. OnItsWay(t0) /\ t0 <= Over
    BY <1>4, <1>5, <1>9, WaysOf
  <2>3. Answers({t0})
    BY <1>5, <1>9, <1>12, <2>1, <2>2 DEF Answers
  <2>4. QED
    BY <1>3, <1>8, <1>10, <1>11, <2>3 DEF TurnInv
<1>15. QED
  BY <1>13, <1>14

\* A task that carries no turn is taken; it may take delayed ones back.
LEMMA TasksPass ==
  ASSUME TypeOK, TurnInv,
         \/ RunBareStop \/ RunHush \/ SkipRemovedEval \/ RunUngate \/ RunStop
  PROVE  TurnInv' /\ Quiet
<1>1. PICK op \in {"silence", "hush", "eval", "ungate", "stop"} : TakeTask(op)
  BY DEF RunBareStop, RunHush, SkipRemovedEval, RunUngate, RunStop
<1>2. mainQ \in Seq(Tasks) /\ QueuedOnce /\ DelayedOnce /\ OnePlace
  BY DEF TypeOK, QueuesTyped, TurnInv, CarriedOnce
<1>3. QueuedOnce' /\ \A t \in Turns : Queued(t)' => Queued(t)
  BY <1>1, <1>2, TakeMoves
<1>4. /\ UNCHANGED <<inbox, asked, turnEcho, untold, talking, spoken, linked>>
      /\ gatedFrags' = gatedFrags \/ gatedFrags' = NoFrags
      /\ timers' \subseteq timers
  BY DEF RunBareStop, RunHush, SkipRemovedEval, RunUngate, RunStop, WithoutEval, fragVars,
         roomVars, linkVars, ghostVars
<1>5. \A t \in Turns : Collected(t)' => Collected(t)
  BY <1>4 DEF Collected, NoFrags
<1>6. DelayedOnce' /\ \A t \in Turns : Delayed(t)' => Delayed(t)
  BY <1>2, <1>4, TimersMove
<1>7. CarriedOnce' /\ \A t \in Turns : Carried(t)' => Carried(t)
  BY <1>2, <1>3, <1>5, <1>6, CarriersShrink
<1>8. QED
  BY <1>4, <1>7, TasksStep

\* A watcher posts the clearing of the gate.
LEMMA WatcherPostsPass ==
  ASSUME TypeOK, TurnInv, NEW g, WatcherPosts(g)
  PROVE  TurnInv' /\ Quiet
<1>1. PICK task \in Tasks : mainQ' = Append(mainQ, task) /\ task.op = "ungate"
  BY DEF WatcherPosts, Tasks
<1>2. mainQ \in Seq(Tasks) /\ QueuedOnce /\ DelayedOnce /\ OnePlace
  BY DEF TypeOK, QueuesTyped, TurnInv, CarriedOnce
<1>3. \A t \in Turns : ~Carries(task, t)
  BY <1>1, OthersCarryNothing
<1>4. QueuedOnce' /\ \A t \in Turns : Queued(t)' => Queued(t)
  BY <1>1, <1>2, <1>3, PostMoves
<1>5. /\ UNCHANGED <<inbox, asked, turnEcho, untold, talking, spoken, linked>>
      /\ UNCHANGED <<gatedFrags, timers>>
  BY DEF WatcherPosts, fragVars, roomVars, linkVars, ghostVars
<1>6. DelayedOnce' /\ \A t \in Turns : Delayed(t)' => Delayed(t)
  BY <1>2, <1>5, TimersMove
<1>7. CarriedOnce' /\ \A t \in Turns : Carried(t)' => Carried(t)
  BY <1>2, <1>4, <1>5, <1>6, CarriersShrink DEF Collected
<1>8. QED
  BY <1>5, <1>7, TasksStep

\* A piece of talk-over is collected: its turn moves from the queue.
LEMMA FragmentMoves ==
  ASSUME TypeOK, TurnInv, RunFragment
  PROVE  TurnInv' /\ Quiet
<1>1. PICK t0 \in Turns : t0 = Head(mainQ).turn
  BY TaskFields DEF TypeOK, QueuesTyped, RunFragment
<1>2. /\ mainQ \in Seq(Tasks) /\ QueuedOnce /\ DelayedOnce /\ OnePlace
      /\ TakeTask("frag")
  BY DEF TypeOK, QueuesTyped, TurnInv, CarriedOnce, RunFragment
<1>3. \A t \in Turns : Carries(Head(mainQ), t) <=> t = t0
  BY <1>1, <1>2 DEF Carries, TakeTask
<1>4. /\ QueuedOnce' /\ Queued(t0)
      /\ \A t \in Turns : Queued(t)' <=> Queued(t) /\ t # t0
  BY <1>2, <1>3, TakeMoves
<1>5. /\ UNCHANGED <<inbox, asked, turnEcho, untold, talking, spoken, linked>>
      /\ \A t \in Turns : Collected(t)' <=> Collected(t) \/ t = t0
      /\ \A task \in timers' : task \in timers \/ task.op = "eval"
  BY <1>1 DEF RunFragment, WithoutEval, EvalTask, roomVars, linkVars, ghostVars, Collected
<1>6. DelayedOnce' /\ \A t \in Turns : Delayed(t)' => Delayed(t)
  BY <1>2, <1>5, OthersCarryNothing, TimersMove
<1>7. CarriedOnce' /\ \A t \in Turns : Carried(t)' => Carried(t)
  BY <1>2, <1>4, <1>5, <1>6 DEF CarriedOnce, OnePlace, Carried
<1>8. QED
  BY <1>5, <1>7, TasksStep

\* A delay that ends moves its task, with the turns it carries, to the queue.
LEMMA DueMoves ==
  ASSUME TypeOK, TurnInv, TimerDue
  PROVE  TurnInv' /\ Quiet
<1>1. PICK task \in timers : /\ timers' = timers \ {task}
                             /\ mainQ' = Append(mainQ, task)
  BY DEF TimerDue
<1>2. /\ mainQ \in Seq(Tasks) /\ task \in Tasks /\ QueuedOnce /\ DelayedOnce /\ OnePlace
  BY DEF TypeOK, QueuesTyped, TurnInv, CarriedOnce
<1>3. \A t \in Turns : Carries(task, t) => Delayed(t) /\ ~Queued(t)
  BY <1>2 DEF OnePlace, Delayed
<1>4. /\ QueuedOnce'
      /\ \A t \in Turns : Queued(t)' <=> Queued(t) \/ Carries(task, t)
  BY <1>1, <1>2, <1>3, PostMoves
<1>5. UNCHANGED <<inbox, gatedFrags, asked, turnEcho, untold, talking, spoken, linked>>
  BY DEF TimerDue, fragVars, roomVars, linkVars, ghostVars
<1>6. /\ DelayedOnce'
      /\ \A t \in Turns : Delayed(t)' => Delayed(t) /\ ~Carries(task, t)
  <2>1. DelayedOnce'
    BY <1>1, <1>2, TimersMove
  <2>2. ASSUME NEW t \in Turns, Delayed(t)' PROVE Delayed(t) /\ ~Carries(task, t)
    <3>1. PICK other \in timers \ {task} : Carries(other, t)
      BY <1>1, <2>2 DEF Delayed, Carries
    <3>2. QED
      BY <1>2, <3>1 DEF Delayed, DelayedOnce
  <2>3. QED
    BY <2>1, <2>2
<1>7. \A t \in Turns : Collected(t)' <=> Collected(t)
  BY <1>5 DEF Collected
<1>8. CarriedOnce' /\ \A t \in Turns : Carried(t)' => Carried(t)
  BY <1>2, <1>3, <1>4, <1>6, <1>7 DEF CarriedOnce, OnePlace, Carried
<1>9. QED
  BY <1>5, <1>8, TasksStep

\* The turns of a taken task, or of what was collected, are answered together;
\* nothing else moves.
LEMMA AnsweringMoves ==
  ASSUME TypeOK, TurnInv, NEW T \in SUBSET Turns,
         UNCHANGED <<running, inbox, turnEcho, untold, talking, spoken, linked>>,
         asked' = IF running THEN [t \in Turns |-> IF t \in T THEN asked[t] + 1 ELSE asked[t]]
                  ELSE asked,
         CarriedOnce',
         \A t \in Turns : Carried(t)' <=> Carried(t) /\ t \notin T,
         \A t \in T : Carried(t)
  PROVE  TurnInv' /\ (Quiet \/ Answers(T))
<1>1. Over \in Int /\ Over' = Over /\ Turns \subseteq Int
  BY OverTyped DEF TypeOK, FlagsTyped
<1>2. EventsOnce' /\ \A t \in Turns : /\ Uncommitted(t)' <=> Uncommitted(t)
                                      /\ Unread(t)' <=> Unread(t)
  BY SameInbox DEF TurnInv
<1>3. asked \in [Turns -> Nat] /\ running \in BOOLEAN /\ running' = running
  BY DEF TypeOK, ServerTyped, FlagsTyped
<1>4. \A t \in Turns : Stage(t)
  BY DEF TurnInv, Staged
<1>5. Staged'
  <2> SUFFICES ASSUME NEW t \in Turns PROVE Stage(t)'
    BY DEF Staged
  <2>1. CASE t \in T
    <3>1. asked'[t] <= 1 /\ ~(t > Over)
      BY <1>3, <1>4, <2>1 DEF Stage, Untouched
    <3>2. QED
      BY <1>1, <1>2, <1>4, <2>1, <3>1 DEF Stage, Untouched
  <2>2. CASE t \notin T
    <3>1. asked'[t] = asked[t]
      BY <1>3, <2>2
    <3>2. QED
      BY <1>1, <1>2, <1>4, <2>2, <3>1 DEF Stage, Untouched
  <2>3. QED
    BY <2>1, <2>2
<1>6. Unlinked'
  BY DEF TurnInv, Unlinked
<1>7. Quiet \/ Answers(T)
  <2>1. \A t \in Turns : /\ OnItsWay(t)' => OnItsWay(t)
                         /\ t \notin T => (OnItsWay(t)' <=> OnItsWay(t))
    BY <1>2, WaysOf
  <2>2. \A t \in T : t <= Over /\ OnItsWay(t) /\ asked[t] = 0
    BY CarriedWait DEF TurnInv
  <2>3. CASE running
    BY <1>1, <1>3, <2>1, <2>2, <2>3 DEF Answers
  <2>4. CASE ~running
    BY <1>1, <2>1, <2>4 DEF Quiet
  <2>5. QED
    BY <2>3, <2>4
<1>8. QED
  BY <1>2, <1>5, <1>6, <1>7 DEF TurnInv

LEMMA DelayedCreateMoves ==
  ASSUME TypeOK, TurnInv, RunDelayedCreate
  PROVE  TurnInv' /\ (Quiet \/ \E T \in SUBSET Turns : Answers(T))
<1>1. PICK T \in SUBSET Turns : T = Head(mainQ).turns
  BY TaskFields DEF TypeOK, QueuesTyped, RunDelayedCreate
<1>2. /\ mainQ \in Seq(Tasks) /\ QueuedOnce /\ DelayedOnce /\ OnePlace
      /\ TakeTask("create")
  BY DEF TypeOK, QueuesTyped, TurnInv, CarriedOnce, RunDelayedCreate
<1>3. \A t \in Turns : Carries(Head(mainQ), t) <=> t \in T
  BY <1>1, <1>2 DEF Carries, TakeTask
<1>4. /\ QueuedOnce'
      /\ \A t \in Turns : (Queued(t)' <=> Queued(t) /\ t \notin T) /\ (t \in T => Queued(t))
  BY <1>2, <1>3, TakeMoves
<1>5. /\ UNCHANGED <<running, inbox, turnEcho, untold, talking, spoken, linked>>
      /\ UNCHANGED <<timers, gatedFrags>>
      /\ asked' = IF running THEN [t \in Turns |-> IF t \in T THEN asked[t] + 1 ELSE asked[t]]
                  ELSE asked
  BY <1>1 DEF RunDelayedCreate, Credit, fragVars, roomVars, linkVars
<1>6. \A t \in Turns : (Delayed(t)' <=> Delayed(t)) /\ (Collected(t)' <=> Collected(t))
  BY <1>5 DEF Delayed, Carries, Collected
<1>7. DelayedOnce'
  BY <1>2, <1>5, TimersMove
<1>8. /\ CarriedOnce' /\ \A t \in T : Carried(t)
      /\ \A t \in Turns : Carried(t)' <=> Carried(t) /\ t \notin T
  BY <1>2, <1>4, <1>6, <1>7 DEF CarriedOnce, OnePlace, Carried
<1>9. QED
  BY <1>5, <1>8, AnsweringMoves

\* What was collected is answered, will be a moment later, or is forgotten.
LEMMA EvaluationMoves ==
  ASSUME TypeOK, TurnInv, RunFragmentEval
  PROVE  TurnInv' /\ (Quiet \/ \E T \in SUBSET Turns : Answers(T))
<1>1. PICK T \in SUBSET Turns : T = gatedFrags.turns
  BY DEF TypeOK, StateTyped
<1>2. /\ mainQ \in Seq(Tasks) /\ QueuedOnce /\ DelayedOnce /\ OnePlace
      /\ TakeTask("eval") /\ Head(mainQ).op = "eval"
  BY DEF TypeOK, QueuesTyped, TurnInv, CarriedOnce, RunFragmentEval, TakeTask
<1>3. /\ QueuedOnce' /\ \A t \in Turns : Queued(t)' <=> Queued(t)
  BY <1>2, OthersCarryNothing, TakeMoves
<1>4. /\ UNCHANGED <<running, inbox, turnEcho, untold, talking, spoken, linked>>
      /\ \A t \in Turns : ~Collected(t)'
      /\ \A t \in Turns : Collected(t) <=> t \in T
  BY <1>1 DEF RunFragmentEval, FragsOnceJudged, NoFrags, Collected, roomVars, linkVars
<1>5. \/ /\ UNCHANGED timers
         /\ asked' = IF running THEN [t \in Turns |-> IF t \in T THEN asked[t] + 1 ELSE asked[t]]
                     ELSE asked
      \/ /\ timers' = timers \cup {[op |-> "create", turns |-> T]}
         /\ UNCHANGED asked
      \/ UNCHANGED <<timers, asked>>
  BY <1>1 DEF RunFragmentEval, JudgeTalkover, AnswerTalkover, Credit
<1>6. CASE UNCHANGED timers
  <2>1. \A t \in Turns : Delayed(t)' <=> Delayed(t)
    BY <1>6 DEF Delayed, Carries
  <2>2. DelayedOnce'
    BY <1>2, <1>6, TimersMove
  <2>3. /\ CarriedOnce' /\ \A t \in T : Carried(t)
        /\ \A t \in Turns : Carried(t)' <=> Carried(t) /\ t \notin T
    BY <1>2, <1>3, <1>4, <2>1, <2>2 DEF CarriedOnce, OnePlace, Carried
  <2>4. CASE UNCHANGED asked
    BY <1>4, <2>3, <2>4, TasksStep
  <2>5. CASE asked' = IF running THEN [t \in Turns |-> IF t \in T THEN asked[t] + 1 ELSE asked[t]]
                      ELSE asked
    BY <1>4, <2>3, <2>5, AnsweringMoves
  <2>6. QED
    BY <1>5, <1>6, <2>4, <2>5
<1>7. CASE UNCHANGED asked /\ \E task \in Tasks : /\ timers' = timers \cup {task}
                                                  /\ \A t \in Turns : Carries(task, t) <=> t \in T
  <2>1. PICK task \in Tasks : /\ timers' = timers \cup {task}
                              /\ \A t \in Turns : Carries(task, t) <=> t \in T
    BY <1>7
  <2>2. \A t \in Turns : Delayed(t)' <=> Delayed(t) \/ t \in T
    <3>1. \A t \in Turns : Delayed(t)' <=> \E other \in timers' : Carries(other, t)
      BY DEF Delayed, Carries
    <3>2. QED
      BY <2>1, <3>1 DEF Delayed
  <2>3. DelayedOnce'
    <3>1. ASSUME NEW t \in Turns, NEW a \in timers', NEW b \in timers', Carries(a, t), Carries(b, t)
          PROVE  a = b
      <4>1. CASE t \in T
        <5>1. ~Delayed(t)
          BY <1>2, <1>4, <4>1 DEF OnePlace
        <5>2. QED
          BY <2>1, <3>1, <5>1 DEF Delayed
      <4>2. CASE t \notin T
        BY <1>2, <2>1, <3>1, <4>2 DEF DelayedOnce
      <4>3. QED
        BY <4>1, <4>2
    <3>2. QED
      BY <3>1 DEF DelayedOnce, Carries
  <2>4. CarriedOnce' /\ \A t \in Turns : Carried(t)' => Carried(t)
    BY <1>2, <1>3, <1>4, <2>2, <2>3 DEF CarriedOnce, OnePlace, Carried
  <2>5. QED
    BY <1>4, <1>7, <2>4, TasksStep
<1>8. CASE timers' = timers \cup {[op |-> "create", turns |-> T]} /\ UNCHANGED asked
  <2>1. /\ [op |-> "create", turns |-> T] \in Tasks
        /\ \A t \in Turns : Carries([op |-> "create", turns |-> T], t) <=> t \in T
    BY DEF Tasks, Carries
  <2>2. QED
    BY <1>7, <1>8, <2>1
<1>9. QED
  BY <1>5, <1>6, <1>8

-----------------------------------------------------------------------------
(* The theorems. *)

LEMMA TurnInit == Init => TurnInv
<1> SUFFICES ASSUME Init PROVE TurnInv
  OBVIOUS
<1> USE DEF Init
<1>1. EventsOnce
  BY DEF EventsOnce
<1>2. \A t \in Turns : ~Uncommitted(t) /\ ~Unread(t) /\ ~Carried(t)
  BY DEF Uncommitted, Unread, Carried, Queued, Delayed, Collected, NoFrags
<1>3. CarriedOnce
  BY DEF CarriedOnce, QueuedOnce, DelayedOnce, OnePlace, Queued, Delayed, Collected, NoFrags
<1>4. Staged
  BY <1>2 DEF Staged, Stage, Untouched
<1>5. Unlinked
  BY DEF Unlinked
<1>6. QED
  BY <1>1, <1>3, <1>4, <1>5 DEF TurnInv

\* Every step keeps the invariant, and either asks for no answer, ends an
\* utterance, or answers turns that wait.
LEMMA EveryStep ==
  ASSUME TypeOK, TurnInv, [Next]_vars
  PROVE  TurnInv' /\ (Quiet \/ SomeonePauses \/ \E T \in SUBSET Turns : Answers(T))
<1>1. CASE HandleEvent
  BY <1>1, EventsPass, CommitMoves, TranscriptMoves DEF HandleEvent
<1>2. CASE MainTask
  BY <1>2, TasksPass, FragmentMoves, EvaluationMoves, DelayedCreateMoves DEF MainTask
<1>3. CASE Environment
  BY <1>3, ServerPasses, SpeakingBegins, SpeakingEnds, Transcribing DEF Environment
<1>4. CASE LinkFails \/ Start \/ Opens
  BY <1>4, LinksMove
<1>5. CASE TimerDue
  BY <1>5, DueMoves
<1>6. CASE Watcher
  BY <1>6, WatcherPostsPass, OthersKeepTurns DEF Watcher
<1>7. CASE \/ EndSession \/ Interrupt \/ PlayChunk \/ SpeakerStarves
           \/ SlowToolReturns \/ UNCHANGED vars
  BY <1>7, OthersKeepTurns
<1>8. QED
  BY <1>1, <1>2, <1>3, <1>4, <1>5, <1>6, <1>7 DEF Next

LEMMA TurnInvariant == Spec => []TurnInv
<1>1. TypeOK /\ TurnInv /\ [Next]_vars => TurnInv'
  BY EveryStep
<1>2. QED
  BY <1>1, TurnInit, TypeCorrect, PTL DEF Spec

\* No utterance draws two answers, however its commit, its transcript, the gate,
\* the talk-over it becomes part of, lost links and restarts meet.
THEOREM OneAnswer == Spec => []AnsweredAtMostOnce
<1>1. TurnInv => AnsweredAtMostOnce
  BY DEF TurnInv, Staged, Stage, AnsweredAtMostOnce
<1>2. QED
  BY <1>1, TurnInvariant, PTL

-----------------------------------------------------------------------------
(* The refinement. *)

\* The mapping of what waits.
Waiting == {t \in 1..Over : OnItsWay(t) /\ asked[t] = 0}

\* What waits are turns, and one that is not over does not.
LEMMA WaitingTurns ==
  ASSUME TypeOK, TurnInv
  PROVE  /\ Over \in 0..MaxTurns /\ 1..Over \subseteq Turns
         /\ \A t \in Turns : OnItsWay(t) => t <= Over
<1>1. Over \in 0..MaxTurns
  BY OverTyped DEF TypeOK, FlagsTyped
<1>2. \A t \in Turns : OnItsWay(t) => t <= Over
  BY <1>1, WaysOf DEF TurnInv, Staged, Stage, Untouched, Turns
<1>3. QED
  BY <1>1, <1>2 DEF Turns

LEMMA PolicyInit == Init => Policy!Init
<1> SUFFICES ASSUME Init PROVE Policy!Init
  OBVIOUS
<1>1. Over = 0 /\ asked = [t \in Turns |-> 0] /\ running = TRUE
  BY DEF Init, Over
<1>2. {t \in 1..Over : OnItsWay(t) /\ asked[t] = 0} = {}
  BY <1>1
<1>3. QED
  BY <1>1, <1>2 DEF Policy!Init

\* Nothing was asked for: what waited waits, or is dropped.
LEMMA QuietIsPolicy ==
  ASSUME TypeOK, TypeOK', TurnInv, Quiet
  PROVE  Policy!Drop \/ Policy!OpenOrClose
<1>0. 1..Over' \subseteq Turns
  <2>1. spoken' \in 0..MaxTurns
    BY DEF TypeOK, ServerTyped
  <2>2. Over' = spoken' \/ Over' = spoken' - 1
    BY DEF Over
  <2>3. QED
    BY <2>1, <2>2 DEF Turns
<1>1. Waiting' \subseteq Waiting
  <2> SUFFICES ASSUME NEW t \in Waiting' PROVE t \in Waiting
    OBVIOUS
  <2>1. t \in 1..Over' /\ OnItsWay(t)' /\ asked'[t] = 0
    BY DEF Waiting
  <2>2. t \in Turns /\ OnItsWay(t) /\ asked[t] = 0
    BY <1>0, <2>1 DEF Quiet
  <2>3. QED
    BY <2>2, WaitingTurns DEF Waiting, Turns
<1>2. Over' \in {Over, Over + 1} /\ UNCHANGED asked
  BY DEF Quiet
<1>3. running' = running \/ running' = ~running
  BY Zenon DEF TypeOK, FlagsTyped
<1>4. QED
  BY <1>1, <1>2, <1>3 DEF Policy!Drop, Policy!OpenOrClose, Waiting

\* An utterance that is over begins to wait.
LEMMA SpeakingEndsIsPolicy ==
  ASSUME TypeOK, TurnInv, SomeonePauses
  PROVE  Policy!Hear
<1>1. /\ UNCHANGED <<running, asked>> /\ Over' = Over + 1 /\ Over' \in Turns
      /\ \A t \in Turns : OnItsWay(t)' <=> OnItsWay(t) \/ t = Over'
  BY SpeakingEnds
<1>2. /\ Over \in 0..MaxTurns /\ 1..Over \subseteq Turns /\ 1..Over' = 1..Over \cup {Over'}
      /\ 1..Over' \subseteq Turns
  BY <1>1, WaitingTurns DEF Turns
<1>3. asked[Over'] = 0
  BY <1>1, <1>2 DEF TurnInv, Staged, Stage, Untouched
<1>4. Waiting' = Waiting \cup {Over'}
  <2>1. Waiting' = {t \in 1..Over' : OnItsWay(t)' /\ asked'[t] = 0}
    BY DEF Waiting
  <2>2. QED
    BY <1>1, <1>2, <1>3, <2>1 DEF Waiting
<1>5. QED
  BY <1>1, <1>4 DEF Policy!Hear, Waiting

\* An answer is for turns that wait, which then have their verdict.
LEMMA AnswersIsPolicy ==
  ASSUME TypeOK, TurnInv, NEW T \in SUBSET Turns, Answers(T)
  PROVE  Policy!Answer
<1>1. /\ running = TRUE /\ running' = running
      /\ \A t \in T : t <= Over /\ OnItsWay(t) /\ asked[t] = 0
      /\ asked' = [t \in Turns |-> IF t \in T THEN asked[t] + 1 ELSE asked[t]]
      /\ Over' = Over
      /\ \A t \in Turns : t \notin T => (OnItsWay(t)' <=> OnItsWay(t))
  BY DEF Answers, TypeOK, FlagsTyped
<1>2. Over \in 0..MaxTurns /\ 1..Over \subseteq Turns /\ asked \in [Turns -> Nat]
  BY WaitingTurns DEF TypeOK, ServerTyped
<1>3. T \subseteq Waiting
  BY <1>1, <1>2 DEF Waiting, Turns
<1>4. Waiting' = Waiting \ T
  <2>1. Waiting' = {t \in 1..Over : OnItsWay(t)' /\ asked'[t] = 0}
    BY <1>1 DEF Waiting
  <2>2. ASSUME NEW t \in 1..Over
        PROVE  OnItsWay(t)' /\ asked'[t] = 0 <=> OnItsWay(t) /\ asked[t] = 0 /\ t \notin T
    <3>1. t \in Turns
      BY <1>2
    <3>2. QED
      BY <1>1, <1>2, <3>1
  <2>3. QED
    BY <2>1, <2>2 DEF Waiting
<1>5. QED
  BY <1>1, <1>3, <1>4 DEF Policy!Answer, Waiting

\* "The server never auto-responds ... WE create responses only for deliberate
\* turns": every behaviour of the conversation, across links and conversations,
\* is one the policy allows of the utterances.
THEOREM PolicyImplemented == Spec => ImplementsPolicy
<1>1. TypeOK /\ TypeOK' /\ TurnInv /\ [Next]_vars => [Policy!Next]_(Policy!vars)
  BY EveryStep, QuietIsPolicy, SpeakingEndsIsPolicy, AnswersIsPolicy DEF Policy!Next
<1>2. QED
  BY <1>1, PolicyInit, TypeCorrect, TurnInvariant, PTL
     DEF Spec, ImplementsPolicy, Policy!Spec

=============================================================================
