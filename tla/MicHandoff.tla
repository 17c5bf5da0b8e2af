----------------------------- MODULE MicHandoff -----------------------------
(***************************************************************************)
(* The words said around "Hey Jarvis", on their way from the microphone to *)
(* the server, in one session.                                             *)
(*                                                                         *)
(* MicHub captures the room for ever and numbers the frames. The session's *)
(* mic thread subscribes to it, parks the wake detector and splices in     *)
(* front of its live frames a seed cut from the hub's ring, so that the    *)
(* question said in one breath with the wake word is whole. Until the      *)
(* socket is ready, and again while it is rebuilt, audio waits in preroll. *)
(*                                                                         *)
(* Four threads: the hub, the mic thread, the socket's listener and the    *)
(* main thread (stop(), the mute slider). The network is the environment.  *)
(* A frame is its number. Gain, resampling and fading are not here; which  *)
(* frames at the ends of a seed are silent enough to trim is any choice.   *)
(***************************************************************************)
EXTENDS Integers, Sequences, FiniteSets

CONSTANTS
  MaxFrames,    \* frames the hub captures, a bound
  FireFrame,    \* the hub's count when the wake word fired
  Backlog,      \* frames before the fire that belong to the seed: 32
  Recent,       \* a fire older than this many frames seeds nothing: 500
  RingFrames,   \* the hub's history: 400
  HubQCap,      \* the mic thread's queue: 32
  SendFrames,   \* frames in one message to the server: 10
  PrerollCap,   \* frames in preroll from which it refuses more
  MaxRetries,   \* failures in a row the session survives: 5
  MaxBreaks     \* times an open link breaks, a bound

ASSUME SizesAssumption ==
  /\ {MaxFrames, FireFrame, Backlog, Recent, MaxRetries, MaxBreaks} \subseteq Nat
  /\ {RingFrames, HubQCap, SendFrames, PrerollCap} \subseteq Nat \ {0}
  /\ FireFrame <= MaxFrames

Frames == 0..MaxFrames - 1

VARIABLES
  frameCount,  \* frames captured so far: the next frame's number
  handing,     \* the newest frame has not been handed to the sinks yet
  attached,    \* the session's sink is one of them
  sinkFirst,   \* frameCount at the sink's first frame, -1 before
  hubQ,        \* frames waiting for the mic thread
  micPc,       \* where the mic thread is
  until,       \* where the seed ends on the hub's timeline
  seed,        \* the seed in the mic thread's hands
  pending,     \* frames of the message being filled
  running, hardMuted,
  wsReady,     \* the mic thread may send live
  preroll,     \* frames waiting for the socket
  sock,        \* where the socket's listener is
  flushing,    \* what flushPreroll took and has not sent yet
  link,        \* what is sent arrives
  reconnects

VARIABLES      \* history
  wire,        \* frames the server got, in order
  firstSunk,   \* first frame handed to the sink, -1 before
  breaks,
  gone,        \* frames given up, of them ...
  refused,     \* ... by the sink's full queue
  crowded,     \* ... by a full preroll
  trimmed,     \* ... as silence at the ends of the seed
  silenced,    \* ... by the mute slider
  cutAt        \* frameCount at the seed's cut, -1 before

micVars  == <<hubQ, micPc, until, seed, pending>>
hubVars  == <<frameCount, handing, attached, sinkFirst, firstSunk>>
sockVars == <<sock, flushing, link, reconnects, breaks>>
lossVars == <<refused, crowded, trimmed, silenced, cutAt>>
vars == <<hubVars, micVars, running, hardMuted, wsReady, preroll, sockVars,
          wire, gone, lossVars>>

Init ==
  /\ frameCount = FireFrame /\ handing = FALSE /\ attached = FALSE
  /\ sinkFirst = -1 /\ firstSunk = -1
  /\ hubQ = <<>> /\ micPc = "attach" /\ until = -1
  /\ seed = <<>> /\ pending = <<>>
  /\ running = TRUE /\ hardMuted = FALSE /\ wsReady = FALSE /\ preroll = <<>>
  /\ sock = "dialing" /\ flushing = <<>> /\ link = "down"
  /\ reconnects = 0 /\ breaks = 0
  /\ wire = <<>> /\ gone = {}
  /\ refused = {} /\ crowded = {} /\ trimmed = {} /\ silenced = {} /\ cutAt = -1

FramesOf(q) == {q[i] : i \in 1..Len(q)}
Larger(a, b) == IF a > b THEN a ELSE b
Smaller(a, b) == IF a < b THEN a ELSE b
Span(a, b) ==   \* the frames a, ..., b - 1 in order
  [i \in 1..Larger(0, b - a) |-> a + i - 1]

-----------------------------------------------------------------------------
(* The hub. *)

\* A frame goes into the ring and is counted, under ringLock ...
Capture ==
  /\ ~handing /\ frameCount < MaxFrames
  /\ frameCount' = frameCount + 1
  /\ handing' = TRUE
  /\ UNCHANGED <<attached, sinkFirst, firstSunk, micVars, running, hardMuted, wsReady,
                 preroll, sockVars, wire, gone, lossVars>>

\* ... and is then handed to the sinks. The session's sink notes the counter at
\* its first frame and queues a copy; a full queue refuses it.
HandOut ==
  /\ handing
  /\ handing' = FALSE
  /\ IF attached
     THEN /\ sinkFirst' = IF sinkFirst = -1 THEN frameCount ELSE sinkFirst
          /\ firstSunk' = IF firstSunk = -1 THEN frameCount - 1 ELSE firstSunk
          /\ IF Len(hubQ) < HubQCap
             THEN hubQ' = Append(hubQ, frameCount - 1) /\ UNCHANGED <<gone, refused>>
             ELSE /\ gone' = gone \cup {frameCount - 1}
                  /\ refused' = refused \cup {frameCount - 1}
                  /\ UNCHANGED hubQ
     ELSE UNCHANGED <<sinkFirst, firstSunk, hubQ, gone, refused>>
  /\ UNCHANGED <<frameCount, attached, micPc, until, seed, pending, running,
                 hardMuted, wsReady, preroll, sockVars, wire, crowded, trimmed, silenced,
                 cutAt>>

-----------------------------------------------------------------------------
(* The mic thread. *)

AttachSink ==
  /\ micPc = "attach" /\ micPc' = "park"
  /\ attached' = TRUE
  /\ UNCHANGED <<frameCount, handing, sinkFirst, firstSunk, hubQ, until, seed,
                 pending, running, hardMuted, wsReady, preroll, sockVars, wire, gone,
                 lossVars>>

\* onMicAboutToOpen: the wake detector's stop() joins its loop, for up to 1.5 s.
ParkWake ==
  /\ micPc = "park"
  /\ micPc' = IF frameCount - FireFrame < Recent THEN "wait" ELSE "loop"
  /\ UNCHANGED <<hubVars, hubQ, until, seed, pending, running, hardMuted, wsReady,
                 preroll, sockVars, wire, gone, lossVars>>

\* At most 40 ms are waited for the sink's first frame; then the hub's counter
\* has to do, and it may have moved since sinkFirst was last looked at.
WaitForSink ==
  /\ micPc = "wait"
  /\ until' = sinkFirst
  /\ micPc' = IF sinkFirst >= 0 THEN "cut" ELSE "clock"
  /\ UNCHANGED <<hubVars, hubQ, seed, pending, running, hardMuted, wsReady, preroll,
                 sockVars, wire, gone, lossVars>>

SeedEndsAtFire == FireFrame   \* mutant: only what was heard before the fire
SeedEndsAtClock == frameCount

ReadClock ==
  /\ micPc = "clock" /\ micPc' = "cut"
  /\ until' = SeedEndsAtClock
  /\ UNCHANGED <<hubVars, hubQ, seed, pending, running, hardMuted, wsReady, preroll,
                 sockVars, wire, gone, lossVars>>

SeedFrom == Larger(FireFrame - Backlog, Larger(0, frameCount - RingFrames))
SeedTo == Smaller(until, frameCount)

\* snapshotRange, then writeSeed's trimming of silence at both ends.
CutSeed ==
  /\ micPc = "cut" /\ micPc' = "seed"
  /\ \E a \in SeedFrom..Larger(SeedFrom, SeedTo) :
       \E b \in a..Larger(a, SeedTo) : seed' = Span(a, b)
  /\ trimmed' = trimmed \cup ((SeedFrom..SeedTo - 1) \ FramesOf(seed'))
  /\ gone' = gone \cup trimmed'
  /\ cutAt' = frameCount
  /\ UNCHANGED <<hubVars, hubQ, until, pending, running, hardMuted, wsReady, preroll,
                 sockVars, wire, refused, crowded, silenced>>

BufferOverwrites(q, msg) == msg   \* mutant: the buffer holds one message
Buffer(q, msg) == IF Len(q) < PrerollCap THEN q \o msg ELSE q

ToPreroll(msg) ==
  /\ preroll' = Buffer(preroll, msg)
  /\ IF Len(preroll) < PrerollCap THEN UNCHANGED <<gone, crowded>>
     ELSE gone' = gone \cup FramesOf(msg) /\ crowded' = crowded \cup FramesOf(msg)

WriteSeed ==
  /\ micPc = "seed" /\ micPc' = "loop"
  /\ ToPreroll(seed)
  /\ seed' = <<>>
  /\ UNCHANGED <<hubVars, hubQ, until, pending, running, hardMuted, wsReady, sockVars,
                 wire, refused, trimmed, silenced, cutAt>>

\* One frame of the loop; a full message goes out live or waits, as wsReady
\* says now. The mute slider drops the frame and the message begun.
TakeFrame ==
  /\ micPc = "loop" /\ running /\ hubQ # <<>>
  /\ hubQ' = Tail(hubQ)
  /\ IF hardMuted
     THEN /\ pending' = <<>>
          /\ gone' = gone \cup FramesOf(pending) \cup {Head(hubQ)}
          /\ silenced' = silenced \cup FramesOf(pending) \cup {Head(hubQ)}
          /\ UNCHANGED micPc
     ELSE /\ pending' = Append(pending, Head(hubQ))
          /\ micPc' = IF Len(pending') < SendFrames THEN "loop"
                      ELSE IF wsReady THEN "send" ELSE "keep"
          /\ UNCHANGED <<gone, silenced>>
  /\ UNCHANGED <<hubVars, until, seed, running, hardMuted, wsReady, preroll, sockVars,
                 wire, refused, crowded, trimmed, cutAt>>

\* ws?.send: what is given to a dead socket is gone.
ToServer(msg) ==
  IF link = "up" THEN wire' = wire \o msg /\ UNCHANGED gone
  ELSE gone' = gone \cup FramesOf(msg) /\ UNCHANGED wire

PendingKept == pending   \* mutant: pendingLen is not reset
PendingSent == <<>>

SendLive ==
  /\ micPc = "send" /\ micPc' = "loop"
  /\ ToServer(pending)
  /\ pending' = PendingSent
  /\ UNCHANGED <<hubVars, hubQ, until, seed, running, hardMuted, wsReady, preroll,
                 sockVars, lossVars>>

KeepForLater ==
  /\ micPc = "keep" /\ micPc' = "loop"
  /\ ToPreroll(pending)
  /\ pending' = PendingSent
  /\ UNCHANGED <<hubVars, hubQ, until, seed, running, hardMuted, wsReady, sockVars,
                 wire, refused, trimmed, silenced, cutAt>>

MicLeaves ==
  /\ micPc = "loop" /\ ~running
  /\ micPc' = "left"
  /\ attached' = FALSE
  /\ UNCHANGED <<frameCount, handing, sinkFirst, firstSunk, hubQ, until, seed,
                 pending, running, hardMuted, wsReady, preroll, sockVars, wire, gone,
                 lossVars>>

-----------------------------------------------------------------------------
(* The socket's listener, and the network under it. *)

FlushKeeps == preroll        \* mutant: toByteArray() without reset()
PrerollFlushed == <<>>
ReadyEarly == TRUE           \* mutant: wsReady is set before flushPreroll
ReadyWhileFlushing == FALSE

\* onOpen, up to flushPreroll's synchronized block. After stop() the socket is
\* closing and takes nothing any more.
Opens ==
  /\ sock = "dialing" /\ sock' = "flush"
  /\ link' = IF running THEN "up" ELSE "down"
  /\ reconnects' = 0
  /\ flushing' = preroll
  /\ preroll' = PrerollFlushed
  /\ wsReady' = ReadyWhileFlushing
  /\ UNCHANGED <<hubVars, micVars, running, hardMuted, breaks, wire, gone, lossVars>>

FlushPreroll ==
  /\ sock = "flush" /\ sock' = "flushed"
  /\ ToServer(flushing)
  /\ flushing' = <<>>
  /\ UNCHANGED <<hubVars, micVars, running, hardMuted, wsReady, preroll, link,
                 reconnects, breaks, lossVars>>

BecomesReady ==
  /\ sock = "flushed" /\ sock' = "open"
  /\ wsReady' = TRUE
  /\ UNCHANGED <<hubVars, micVars, running, hardMuted, preroll, flushing, link,
                 reconnects, breaks, wire, gone, lossVars>>

\* stop(), on whichever thread calls it.
Stop ==
  /\ running' = FALSE
  /\ wsReady' = FALSE
  /\ preroll' = <<>>
  /\ link' = "down"
  /\ gone' = gone \cup FramesOf(preroll)

RetriesOnceMore == reconnects <= MaxRetries   \* mutant
MayRetry == reconnects < MaxRetries

\* onFailure: dialling failed or the open link broke. The next attempt waits
\* for its delay; after too many in a row the session ends.
Fails ==
  /\ sock = "dialing" \/ (sock = "open" /\ link = "down")
  /\ running
  /\ IF MayRetry
     THEN /\ reconnects' = reconnects + 1
          /\ sock' = "failed"
          /\ wsReady' = FALSE
          /\ UNCHANGED <<running, preroll, link, gone>>
     ELSE /\ Stop
          /\ sock' = "closed"
          /\ UNCHANGED reconnects
  /\ UNCHANGED <<hubVars, micVars, hardMuted, flushing, breaks, wire, lossVars>>

\* reconnect(), when its delay is over and the session still runs.
Redials ==
  /\ sock = "failed" /\ running
  /\ sock' = "dialing"
  /\ wsReady' = FALSE
  /\ UNCHANGED <<hubVars, micVars, running, hardMuted, preroll, flushing, link,
                 reconnects, breaks, wire, gone, lossVars>>

LinkBreaks ==
  /\ link = "up" /\ running /\ breaks < MaxBreaks
  /\ link' = "down"
  /\ breaks' = breaks + 1
  /\ UNCHANGED <<hubVars, micVars, running, hardMuted, wsReady, preroll, sock,
                 flushing, reconnects, wire, gone, lossVars>>

-----------------------------------------------------------------------------
(* The main thread. *)

EndSession ==
  /\ running
  /\ Stop
  /\ UNCHANGED <<hubVars, micVars, hardMuted, sock, flushing, reconnects, breaks,
                 wire, lossVars>>

SlideMute ==
  /\ hardMuted' = ~hardMuted
  /\ UNCHANGED <<hubVars, micVars, running, wsReady, preroll, sockVars, wire, gone,
                 lossVars>>

-----------------------------------------------------------------------------
Hub == Capture \/ HandOut
MicThread ==
  \/ AttachSink \/ ParkWake \/ WaitForSink \/ ReadClock \/ CutSeed \/ WriteSeed
  \/ TakeFrame \/ SendLive \/ KeepForLater \/ MicLeaves
Listener == Opens \/ FlushPreroll \/ BecomesReady \/ Fails \/ Redials

Next == Hub \/ MicThread \/ Listener \/ LinkBreaks \/ EndSession \/ SlideMute

Spec == Init /\ [][Next]_vars

-----------------------------------------------------------------------------
(* Properties. *)

MicStates ==
  {"attach", "park", "wait", "clock", "cut", "seed", "loop", "send", "keep", "left"}
SockStates == {"dialing", "flush", "flushed", "open", "failed", "closed"}

\* Every variable keeps its type: counters stay in range, buffers hold frames.
TypeOK ==
  /\ frameCount \in 0..MaxFrames /\ (handing => frameCount > 0)
  /\ {handing, attached, running, hardMuted, wsReady} \subseteq BOOLEAN
  /\ sinkFirst \in -1..MaxFrames /\ firstSunk \in -1..MaxFrames - 1
  /\ until \in -1..MaxFrames
  /\ micPc \in MicStates /\ sock \in SockStates /\ link \in {"up", "down"}
  /\ reconnects \in 0..MaxRetries /\ breaks \in 0..MaxBreaks
  /\ {hubQ, seed, pending, preroll, flushing, wire} \subseteq Seq(Frames)
  /\ {gone, refused, crowded, trimmed, silenced} \subseteq SUBSET Frames
  /\ cutAt \in -1..MaxFrames

\* The seed and the live frames meet ("the splice can neither drop ... audio"):
\* whenever the sink's first frame, the 40 ms wait and the reads of the hub's
\* counter happen, the seed reaches at least up to the first live frame.
Seamed == firstSunk # -1 /\ until # -1
NoHoleAtSeam == Seamed => firstSunk <= until

OnTheWay ==
  FramesOf(wire) \cup FramesOf(flushing) \cup FramesOf(preroll)
    \cup FramesOf(pending) \cup FramesOf(hubQ) \cup FramesOf(seed)

\* What a message that the mic thread put aside is worth once onOpen has emptied
\* preroll: it stays there, and only another open, if there is one, sends it.
Stranded ==
  IF sock \in {"flush", "flushed", "open"} THEN FramesOf(preroll) ELSE {}
Delivering == OnTheWay \ Stranded

Sunk == IF firstSunk = -1 THEN {}
        ELSE firstSunk..(IF handing THEN frameCount - 2 ELSE frameCount - 1)
SeedTaken == micPc \in {"loop", "send", "keep"} /\ until # -1
SeedDue == (FireFrame - Backlog..until - 1) \cap Frames
Overwritten == 0..(cutAt - RingFrames - 1)

\* A frame that the sink was handed, or that the seed is due, is on the wire or on
\* its way there, stranded in preroll, or was given up; only of the seed, the ring
\* may have lost what was too old when it was cut. And as long as no link broke,
\* frames are given up in four places: by the sink's full queue, by a full preroll,
\* as silence at the ends of the seed, and by the mute slider. The code's comments
\* promise more, "can never drop audio again" and "no words are lost": because of
\* the full queue and of stranded messages that is not true.
EveryFrameAccounted ==
  running => /\ Sunk \subseteq Delivering \cup Stranded \cup gone
             /\ SeedTaken => SeedDue \subseteq Delivering \cup Stranded \cup gone \cup Overwritten
             /\ breaks = 0 => gone \subseteq refused \cup crowded \cup trimmed \cup silenced

\* A frame is sent once: a flush, a reconnect or a race between the mic thread and
\* the listener never sends one again. Only frames that the seed shares with the live
\* audio may be on the wire twice: the sink's first, which the code always shares,
\* and if the seed had to end at the hub's clock those that the sink got meanwhile.
\* "Gapless and duplication-free", the code says: SentNoFrameTwice is that promise.
OnlySeamRepeats ==
  \A i, j \in 1..Len(wire) :
    i < j /\ wire[i] = wire[j] =>
      \/ wire[i] = firstSunk
      \/ until > sinkFirst /\ wire[i] \in firstSunk..until - 1

\* "Cut from the hub's rolling ring on ONE frame timeline - gapless and
\* duplication-free"; "the splice can neither drop nor duplicate audio". The sink
\* notes frameCount when it gets its first frame, and that counter has then moved
\* past the frame: the seed's end is one frame too late.
SentNoFrameTwice == \A i, j \in 1..Len(wire) : i < j => wire[i] # wire[j]

\* On the first connection the server hears the room in the order it was heard:
\* seed, preroll and live audio never overtake one another. The one step back
\* is from the seed to live frames that it shares.
StepBackAtSeam(a, b) == a < until /\ firstSunk <= b
InOrder(q) ==
  \A i \in 1..Len(q) - 1 : q[i] < q[i + 1] \/ StepBackAtSeam(q[i], q[i + 1])
HeardInOrder == breaks = 0 => InOrder(wire \o flushing)
=============================================================================
