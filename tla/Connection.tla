----------------------------- MODULE Connection -----------------------------
(***************************************************************************)
(* The life of RealtimeSession's conversations and of the sockets under    *)
(* them: start, stop, the socket listener, reconnects after a failure, the *)
(* idle and hard caps, typed questions, and whether there is a track to    *)
(* play on.                                                                *)
(*                                                                         *)
(* One RealtimeSession object serves all conversations in turn, so what    *)
(* one of them leaves behind meets the next: sockets that are not closed   *)
(* yet, and delayed blocks, which test little when they run. Each socket   *)
(* has a reader thread that calls the listener; taps and delayed blocks    *)
(* run on the main thread; teardowns of the track run on playExec.         *)
(*                                                                         *)
(* Time is abstract: a delay is over at any moment after it began. What a  *)
(* conversation sends is MicHandoff, what it says TurnTaking, how the      *)
(* detector and the mute slider govern its start Coordinator.              *)
(*                                                                         *)
(* Four things are one step here though a thread could come between:       *)
(* newWebSocket and the assignment of ws; the listener's test of ws and    *)
(* what follows; stop() on a socket's thread; ask()'s test and what        *)
(* follows. An onOpen is three: up to startPlayback(), up to the reading   *)
(* of pendingAsk, and the rest.                                            *)
(***************************************************************************)
EXTENDS Integers, FiniteSets

CONSTANTS
  MaxSessions,   \* conversations, a bound
  MaxSockets,    \* sockets that exist at a time, a bound
  MaxAsks,       \* typed questions, a bound
  MaxEnds,       \* stops asked for by a tool or by room chatter, a bound
  MaxRetries     \* RETRY_DELAYS_MS.size: 5

ASSUME LimitsAssumption ==
  /\ {MaxSessions, MaxSockets, MaxAsks, MaxEnds, MaxRetries} \subseteq Nat
  /\ MaxSockets > 0

Sessions == 1..MaxSessions
Sockets == 1..MaxSockets
Asks == 1..MaxAsks
None == 0

VARIABLES
  running,     \* a conversation is on
  wsReady,     \* onOpen has gone through
  ws,          \* the socket the field holds
  reconnects,  \* failures since the last open
  pendingAsk,  \* a question for the next open
  track,       \* there is an AudioTrack
  redials,     \* delayed reconnects
  lateStops,   \* delayed stops of end_conversation and of the chatter escape
  caps,        \* idleStop and hardStop, and the conversation that armed them
  askBlocks,   \* question -> blocks that will send it: posted, or 600 ms after an open
  teardowns    \* releases of the track queued on playExec

VARIABLES
  phase,       \* of each socket; "gone" before its dial and after its end
  held,        \* the question its onOpen has read and not yet taken out
  closed       \* sockets the app has called close() on

VARIABLES      \* history and bounds
  session,     \* conversations so far
  misses,      \* failures of ws since the conversation began or ws opened
  typed,       \* questions so far
  sent,        \* question -> times it was given to a socket
  ends,        \* late stops so far
  overlapped   \* an onOpen began while another was under way

linkVars == <<ws, phase, closed>>
blockVars == <<redials, lateStops, caps, askBlocks>>
askVars == <<pendingAsk, held, typed, sent>>
vars == <<running, wsReady, linkVars, reconnects, track, teardowns, blockVars,
          askVars, session, misses, ends, overlapped>>

Init ==
  /\ running = FALSE /\ wsReady = FALSE
  /\ ws = None /\ phase = [s \in Sockets |-> "gone"] /\ closed = {}
  /\ reconnects = 0 /\ misses = 0
  /\ track = FALSE /\ teardowns = 0
  /\ redials = 0 /\ lateStops = 0 /\ caps = {}
  /\ askBlocks = [a \in Asks |-> 0] /\ held = [s \in Sockets |-> None]
  /\ pendingAsk = None /\ typed = 0 /\ sent = [a \in Asks |-> 0]
  /\ session = 0 /\ ends = 0 /\ overlapped = FALSE

-----------------------------------------------------------------------------
(* Shared steps. *)

Cap(what) == [what |-> what, of |-> session]
CapsOf(n) == [what : {"hard", "idle"}, of : {n}]

\* newWebSocket. The identity of a socket that has ended is used again.
Dial ==
  LET free == {s \in Sockets : phase[s] = "gone"}
      s == CHOOSE s \in free : TRUE
  IN /\ free # {}
     /\ ws' = s
     /\ phase' = [phase EXCEPT ![s] = "dialing"]
     /\ closed' = closed \ {s}

CapsLeft == caps   \* mutant: the callbacks are not removed
CapsRemoved == {}

\* stop(), which may find nothing to stop. Delayed reconnects, late stops,
\* questions and pendingAsk stay behind.
Stop ==
  /\ running' = FALSE /\ wsReady' = FALSE
  /\ caps' = CapsRemoved
  /\ closed' = IF ws # None /\ phase[ws] # "gone" THEN closed \cup {ws} ELSE closed
  /\ ws' = None
  /\ teardowns' = teardowns + 1

-----------------------------------------------------------------------------
(* The main thread. *)

RetriesCarried == reconnects   \* mutant: start() leaves the counter alone
RetriesAfresh == 0

\* The owner starts a conversation only when none is on and the mic is not
\* muted; resetIdle() first removes an idleStop that is still armed.
Start ==
  /\ ~running /\ session < MaxSessions
  /\ running' = TRUE /\ wsReady' = FALSE
  /\ reconnects' = RetriesAfresh
  /\ session' = session + 1
  /\ caps' = {c \in caps : c.what # "idle"} \cup CapsOf(session')
  /\ track' = TRUE
  /\ Dial
  /\ misses' = 0
  /\ UNCHANGED <<redials, lateStops, askBlocks, teardowns, askVars, ends, overlapped>>

\* A tap, a closed card or the activity's end.
StopByHand ==
  /\ running
  /\ Stop
  /\ UNCHANGED <<phase, reconnects, track, redials, lateStops, askBlocks, askVars,
                 session, misses, ends, overlapped>>

\* idleStop and hardStop. Every activity arms idleStop again, for the same
\* conversation, which changes nothing here.
CapFires ==
  /\ \E c \in caps : TRUE
  /\ Stop
  /\ UNCHANGED <<phase, reconnects, track, redials, lateStops, askBlocks, askVars,
                 session, misses, ends, overlapped>>

\* end_conversation 250 ms ago, or room chatter 400 ms ago, whatever has been
\* stopped and started since.
LateStopRuns ==
  /\ lateStops > 0 /\ lateStops' = lateStops - 1
  /\ Stop
  /\ UNCHANGED <<phase, reconnects, track, redials, askBlocks, askVars, session,
                 misses, ends, overlapped>>

RedialRuns ==
  /\ redials > 0 /\ redials' = redials - 1
  /\ IF running THEN wsReady' = FALSE /\ Dial ELSE UNCHANGED <<wsReady, linkVars>>
  /\ UNCHANGED <<running, reconnects, track, teardowns, lateStops, caps, askBlocks,
                 askVars, session, misses, ends, overlapped>>

Posted(a) == [askBlocks EXCEPT ![a] = @ + 1]

\* onNewIntent: at once if the session is live, else for the next open.
AskArrives ==
  /\ typed < MaxAsks /\ typed' = typed + 1
  /\ IF running /\ wsReady
     THEN askBlocks' = Posted(typed') /\ UNCHANGED pendingAsk
     ELSE pendingAsk' = typed' /\ UNCHANGED askBlocks
  /\ UNCHANGED <<running, wsReady, linkVars, reconnects, track, teardowns, redials,
                 lateStops, caps, held, sent, session, misses, ends, overlapped>>

\* sendAsk, on the socket of the moment, which may be none or a dead one.
SendAsk ==
  /\ \E a \in Asks :
       /\ askBlocks[a] > 0 /\ askBlocks' = [askBlocks EXCEPT ![a] = @ - 1]
       /\ sent' = IF ws # None /\ phase[ws] # "gone"
                  THEN [sent EXCEPT ![a] = @ + 1] ELSE sent
  /\ UNCHANGED <<running, wsReady, linkVars, reconnects, track, teardowns, redials,
                 lateStops, caps, pendingAsk, held, typed, session, misses, ends,
                 overlapped>>

MainBlock == CapFires \/ LateStopRuns \/ RedialRuns \/ SendAsk

-----------------------------------------------------------------------------
(* The sockets' threads. *)

InOnOpen(s) == phase[s] \in {"opening", "taking"}

TrackFromStart == track   \* mutant: onOpen relies on the track of start()
TrackBuilt == TRUE

\* onOpen: up to startPlayback(). The socket may be of a conversation that has
\* ended, closed while it was dialling; that is not tested. For the socket of
\* this one, a handshake takes longer than playExec needs for a teardown.
Opens(s) ==
  /\ phase[s] = "dialing" /\ (s = ws => teardowns = 0)
  /\ phase' = [phase EXCEPT ![s] = "opening"]
  /\ reconnects' = 0
  /\ track' = TrackBuilt
  /\ misses' = IF s = ws THEN 0 ELSE misses
  /\ overlapped' = (overlapped \/ \E t \in Sockets : InOnOpen(t))
  /\ UNCHANGED <<running, wsReady, ws, closed, teardowns, blockVars, askVars,
                 session, ends>>

\* onOpen after the preroll: ready. A question that waits is read...
BecomesReady(s) ==
  /\ phase[s] = "opening"
  /\ phase' = [phase EXCEPT ![s] = IF pendingAsk = None THEN "open" ELSE "taking"]
  /\ held' = [held EXCEPT ![s] = pendingAsk]
  /\ wsReady' = TRUE
  /\ UNCHANGED <<running, ws, closed, reconnects, track, teardowns, blockVars,
                 pendingAsk, typed, sent, session, misses, ends, overlapped>>

AskKept == pendingAsk   \* mutant: the question is not taken out
AskTaken == None

\* ... taken out, without a lock, and sent 600 ms later. Meanwhile another socket's
\* onOpen may have read it too, or ask() have put a newer one in its place.
TakesAsk(s) ==
  /\ phase[s] = "taking"
  /\ phase' = [phase EXCEPT ![s] = "open"]
  /\ pendingAsk' = AskTaken
  /\ askBlocks' = Posted(held[s])
  /\ held' = [held EXCEPT ![s] = None]
  /\ UNCHANGED <<running, wsReady, ws, closed, reconnects, track, teardowns, redials,
                 lateStops, caps, typed, sent, session, misses, ends, overlapped>>

\* end_conversation, or a second response without audio, from any open socket.
AsksToEnd(s) ==
  /\ phase[s] = "open" /\ ends < MaxEnds
  /\ ends' = ends + 1
  /\ lateStops' = lateStops + 1
  /\ UNCHANGED <<running, wsReady, linkVars, reconnects, track, teardowns, redials,
                 caps, askBlocks, askVars, session, misses, overlapped>>

RetriesOnceMore == reconnects <= MaxRetries   \* mutant
MayRetry == reconnects < MaxRetries
RedialForgotten == redials   \* mutant: nothing is posted
RedialPosted == redials + 1

\* onFailure of the current socket.
LosesLink ==
  /\ misses' = IF misses > MaxRetries THEN misses ELSE misses + 1
  /\ IF MayRetry
     THEN /\ reconnects' = reconnects + 1
          /\ wsReady' = FALSE
          /\ teardowns' = teardowns + 1
          /\ redials' = RedialPosted
          /\ UNCHANGED <<running, ws, closed, caps>>
     ELSE Stop /\ UNCHANGED <<reconnects, redials>>

\* Without a conversation, or for a socket that is no longer ws: nothing.
IgnoresFailure ==
  UNCHANGED <<running, wsReady, ws, closed, reconnects, teardowns, redials, caps,
              misses>>

Fails(s) ==
  /\ phase[s] \in {"dialing", "open", "half"}
  /\ phase' = [phase EXCEPT ![s] = "gone"]
  /\ IF running /\ s = ws THEN LosesLink ELSE IgnoresFailure
  /\ UNCHANGED <<track, lateStops, askBlocks, askVars, session, ends, overlapped>>

\* The server's close frame: the app does not answer it (it has no onClosing),
\* so onClosed does not come, and the link stays until a ping or a send fails.
ServerCloses(s) ==
  /\ phase[s] = "open" /\ s \notin closed
  /\ phase' = [phase EXCEPT ![s] = "half"]
  /\ UNCHANGED <<running, wsReady, ws, closed, reconnects, track, teardowns,
                 blockVars, askVars, session, misses, ends, overlapped>>

\* onClosed, after close(): a line of text at most.
CloseCompletes(s) ==
  /\ s \in closed /\ phase[s] \in {"open", "half"}
  /\ phase' = [phase EXCEPT ![s] = "gone"]
  /\ UNCHANGED <<running, wsReady, ws, closed, reconnects, track, teardowns,
                 blockVars, askVars, session, misses, ends, overlapped>>

\* playExec releases the track.
TearsDown ==
  /\ teardowns > 0 /\ teardowns' = teardowns - 1
  /\ track' = FALSE
  /\ UNCHANGED <<running, wsReady, linkVars, reconnects, blockVars, askVars,
                 session, misses, ends, overlapped>>

Listener(s) ==
  \/ Opens(s) \/ BecomesReady(s) \/ TakesAsk(s) \/ AsksToEnd(s) \/ Fails(s)
  \/ ServerCloses(s) \/ CloseCompletes(s)

-----------------------------------------------------------------------------
Next ==
  \/ Start \/ StopByHand \/ AskArrives \/ MainBlock
  \/ \E s \in Sockets : Listener(s)
  \/ TearsDown

Spec == Init /\ [][Next]_vars

(***************************************************************************)
(* A dial succeeds or fails, onOpen goes through, a link that does not     *)
(* answer pings fails, delays end and playExec runs. Nobody has to stop    *)
(* the conversation, and neither cap has to fire.                          *)
(***************************************************************************)
Fairness ==
  /\ \A s \in Sockets :
       /\ WF_vars(Opens(s) \/ (phase[s] = "dialing" /\ Fails(s)))
       /\ WF_vars(BecomesReady(s)) /\ WF_vars(TakesAsk(s))
       /\ WF_vars(phase[s] = "half" /\ Fails(s))
       /\ WF_vars(CloseCompletes(s))
  /\ WF_vars(RedialRuns) /\ WF_vars(TearsDown)

FairSpec == Spec /\ Fairness

-----------------------------------------------------------------------------
(* Properties. *)

Phases == {"gone", "dialing", "opening", "taking", "open", "half"}

FlagsTyped == running \in BOOLEAN /\ wsReady \in BOOLEAN /\ track \in BOOLEAN
              /\ overlapped \in BOOLEAN

\* Every variable keeps its type; retries stay within the list of delays.
TypeOK ==
  /\ FlagsTyped
  /\ ws \in Sockets \cup {None}
  /\ phase \in [Sockets -> Phases] /\ closed \subseteq Sockets
  /\ reconnects \in 0..MaxRetries /\ misses \in 0..MaxRetries + 1
  /\ teardowns \in Nat /\ redials \in Nat /\ lateStops \in Nat
  /\ caps \subseteq [what : {"hard", "idle"}, of : Sessions]
  /\ session \in 0..MaxSessions /\ ends \in 0..MaxEnds
  /\ typed \in 0..MaxAsks /\ pendingAsk \in 0..typed
  /\ held \in [Sockets -> 0..typed]
  /\ askBlocks \in [Asks -> Nat] /\ sent \in [Asks -> Nat]

\* "force-close after maxSessionMs no matter what": a conversation always has its
\* own hardStop and idleStop armed, and none of an earlier one, however stops,
\* failures, reconnects and restarts follow each other.
CapsAreOwn == running => caps = CapsOf(session)

\* A typed question is given to a server at most once: not again by the open that
\* follows a reconnect, and not by two sockets that open one after the other,
\* however questions come in between. Only two onOpens at a time may both read the
\* question before either has taken it out: then it may be sent twice.
AskSentAtMostOnce == overlapped \/ \A a \in Asks : sent[a] <= 1

\* "Only give up after several failures in a row": a failure ends the
\* conversation only if it is its link's MaxRetries + 1st since it began or was
\* last open; failures of older sockets and of older conversations do not count.
GaveUp == running /\ ~running' /\ \E s \in Sockets : Fails(s)
GivesUpOnlyAfterFailuresInARow == [][GaveUp => misses' > MaxRetries]_vars

\* A conversation whose link is open has a track to play on, once playExec has
\* nothing to tear down: neither the teardown of a failure nor one of the
\* conversation before is left to take the new one's track away.
SpeakerForOpenLink ==
  running /\ ws # None /\ teardowns = 0 =>
    (InOnOpen(ws) \/ phase[ws] = "open" => track)

\* "Silently rebuild the socket and keep going": a conversation whose link is not
\* open gets an open one or ends, without waiting for a cap or a person.
LinkOpen == ws # None /\ phase[ws] = "open"
LinkRestoredOrEnded == [](running => <>(LinkOpen \/ ~running))

\* "tear down after timeout to stop billing": once no conversation is on, no
\* socket stays open that the app has not closed.
EndedKeepsNoSocket ==
  ~running => \A s \in Sockets : phase[s] = "gone" \/ s \in closed
=============================================================================
