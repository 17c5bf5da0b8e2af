-------------------------- MODULE MicHandoff_proofs --------------------------
(***************************************************************************)
(* Theorems about MicHandoff, for every length of the ring, the queue, the *)
(* messages and the preroll, and wherever the hub, the mic thread and the  *)
(* socket's listener are in the middle of what: the seed and the live      *)
(* audio meet, a frame is lost at a named limit or not at all, only what   *)
(* seed and live audio share is sent twice, and on the first link all is   *)
(* sent in order.                                                          *)
(***************************************************************************)
EXTENDS MicHandoff, TLAPS

\* The first frame that has not been handed to the sinks.
NextHanded == IF handing THEN frameCount - 1 ELSE frameCount

(***************************************************************************)
(* NoHoleAtSeam is not inductive: the sink may get its first frame after   *)
(* the seed's end was chosen. What makes the frames meet is that from      *)
(* AttachSink on no frame passes the sink by (SinkSees), and that the end, *)
(* once chosen, is not behind the next frame to be handed out (EndAhead).  *)
(***************************************************************************)
CountersTyped ==
  /\ frameCount \in Nat /\ sinkFirst \in Int /\ firstSunk \in Int /\ until \in Int

SinkSees ==
  /\ firstSunk = -1 <=> sinkFirst = -1
  /\ firstSunk # -1 => sinkFirst = firstSunk + 1 /\ 0 <= firstSunk
                       /\ firstSunk < frameCount

NoEndYet == micPc \in {"attach", "park", "wait", "clock"} => until = -1

Subscribed == micPc \notin {"attach", "left"} => attached

EndAhead == /\ Seamed => firstSunk <= until
            /\ until # -1 /\ firstSunk = -1 /\ attached => NextHanded <= until

SeamInv == /\ CountersTyped /\ SinkSees /\ NoEndYet /\ Subscribed /\ EndAhead
           /\ handing => frameCount > 0

USE SizesAssumption DEF SizesAssumption

LEMMA SeamInit == Init => SeamInv
BY DEF Init, SeamInv, CountersTyped, SinkSees, NoEndYet, Subscribed, EndAhead,
   Seamed, NextHanded

LEMMA SeamStutter ==
  ASSUME SeamInv, UNCHANGED <<hubVars, micPc, until>>
  PROVE  SeamInv'
BY DEF hubVars, SeamInv, CountersTyped, SinkSees, NoEndYet, Subscribed, EndAhead,
   Seamed, NextHanded

\* The hub moves on by one frame, or hands one out.
LEMMA SeamHub == SeamInv /\ Hub => SeamInv'
<1> SUFFICES ASSUME SeamInv, Hub PROVE SeamInv'
  OBVIOUS
<1> USE DEF SeamInv, CountersTyped, SinkSees, NoEndYet, Subscribed, EndAhead, Seamed,
            NextHanded
<1>1. CASE Capture
  BY <1>1 DEF Capture, micVars
<1>2. CASE HandOut
  <2>1. UNCHANGED <<frameCount, attached, micPc, until>> /\ ~handing' /\ handing
    BY <1>2 DEF HandOut
  <2>2. CASE attached /\ firstSunk = -1
    <3>1. sinkFirst' = frameCount /\ firstSunk' = frameCount - 1
      BY <1>2, <2>2 DEF HandOut
    <3>2. QED
      BY <2>1, <2>2, <3>1
  <2>3. CASE ~(attached /\ firstSunk = -1)
    <3>1. UNCHANGED <<sinkFirst, firstSunk>>
      BY <1>2, <2>3 DEF HandOut
    <3>2. QED
      BY <2>1, <2>3, <3>1
  <2>4. QED
    BY <2>2, <2>3
<1>3. QED
  BY <1>1, <1>2 DEF Hub

\* The mic thread subscribes, and then chooses the end of the seed: one behind
\* the first live frame, or at the hub's counter.
LEMMA SeamMic == SeamInv /\ MicThread => SeamInv'
<1> SUFFICES ASSUME SeamInv, MicThread PROVE SeamInv'
  OBVIOUS
<1> USE DEF SeamInv, CountersTyped, SinkSees, NoEndYet, Subscribed, EndAhead, Seamed,
            NextHanded
<1>1. CASE AttachSink
  BY <1>1 DEF AttachSink
<1>2. CASE ParkWake
  BY <1>2 DEF ParkWake, hubVars
<1>3. CASE WaitForSink
  BY <1>3 DEF WaitForSink, hubVars
<1>4. CASE ReadClock
  BY <1>4 DEF ReadClock, SeedEndsAtClock, hubVars
<1>5. CASE CutSeed \/ WriteSeed
  <2>1. UNCHANGED <<hubVars, until>> /\ micPc \in {"cut", "seed"}
    BY <1>5 DEF CutSeed, WriteSeed
  <2>2. micPc' \in {"seed", "loop"}
    BY <1>5 DEF CutSeed, WriteSeed
  <2>3. QED
    BY <2>1, <2>2 DEF hubVars
<1>6. CASE TakeFrame
  BY <1>6 DEF TakeFrame, hubVars
<1>7. CASE SendLive \/ KeepForLater
  BY <1>7 DEF SendLive, KeepForLater, hubVars
<1>8. CASE MicLeaves
  BY <1>8 DEF MicLeaves
<1>9. QED
  BY <1>1, <1>2, <1>3, <1>4, <1>5, <1>6, <1>7, <1>8 DEF MicThread

\* Neither the socket nor the main thread touches the hub or the mic thread.
LEMMA SeamOthers ==
  ASSUME SeamInv,
         Listener \/ LinkBreaks \/ EndSession \/ SlideMute \/ UNCHANGED vars
  PROVE  SeamInv'
<1>1. UNCHANGED <<hubVars, micPc, until>>
  BY DEF Listener, Opens, FlushPreroll, BecomesReady, Fails, Redials, LinkBreaks,
     EndSession, SlideMute, vars, micVars
<1>2. QED
  BY <1>1, SeamStutter

LEMMA SeamInvariant == Spec => []SeamInv
<1>1. SeamInv /\ [Next]_vars => SeamInv'
  BY SeamHub, SeamMic, SeamOthers DEF Next
<1>2. QED
  BY <1>1, SeamInit, PTL DEF Spec

\* No frame is missing between the seed and the live audio, in every run of the
\* hub, the mic thread, the socket and the main thread: attaching the sink before
\* the wake detector is parked is what makes the handoff gapless (up to what a
\* full queue refuses).
THEOREM SeamHasNoHole == Spec => []NoHoleAtSeam
<1>1. SeamInv => NoHoleAtSeam
  BY DEF SeamInv, EndAhead, NoHoleAtSeam
<1>2. QED
  BY <1>1, SeamInvariant, PTL

-----------------------------------------------------------------------------
(* What the steps on the buffers do. *)

LEMMA Sizes ==
  /\ MaxFrames \in Nat /\ FireFrame \in Nat /\ Backlog \in Nat /\ Recent \in Nat
  /\ MaxRetries \in Nat /\ MaxBreaks \in Nat /\ FireFrame <= MaxFrames
  /\ RingFrames \in Nat
OBVIOUS

LEMMA WiderSeq ==
  ASSUME NEW S, NEW T, S \subseteq T, NEW q \in Seq(S)
  PROVE  q \in Seq(T)
OBVIOUS

LEMMA InFrames ==
  ASSUME NEW q
  PROVE  \A x : x \in FramesOf(q) <=> \E i \in 1..Len(q) : x = q[i]
BY DEF FramesOf

LEMMA FramesOfParts ==
  ASSUME NEW S, NEW p \in Seq(S), NEW q \in Seq(S)
  PROVE  /\ p \o q \in Seq(S)
         /\ FramesOf(p \o q) = FramesOf(p) \cup FramesOf(q)
         /\ FramesOf(p) \subseteq S
<1>1. \A i \in 1..Len(p) : i \in 1..Len(p \o q) /\ (p \o q)[i] = p[i]
  OBVIOUS
<1>2. \A i \in 1..Len(q) : Len(p) + i \in 1..Len(p \o q) /\ (p \o q)[Len(p) + i] = q[i]
  OBVIOUS
<1>3. \A i \in 1..Len(p \o q) : \/ i \in 1..Len(p) /\ (p \o q)[i] = p[i]
                                \/ i - Len(p) \in 1..Len(q) /\ (p \o q)[i] = q[i - Len(p)]
  OBVIOUS
<1>4. \A x : x \in FramesOf(p \o q) <=> x \in FramesOf(p) \/ x \in FramesOf(q)
  <2> SUFFICES ASSUME NEW x PROVE x \in FramesOf(p \o q) <=> x \in FramesOf(p) \/ x \in FramesOf(q)
    OBVIOUS
  <2>1. ASSUME x \in FramesOf(p) PROVE x \in FramesOf(p \o q)
    <3>1. PICK i \in 1..Len(p) : x = p[i]
      BY <2>1, InFrames
    <3>2. i \in 1..Len(p \o q) /\ x = (p \o q)[i]
      BY <1>1, <3>1
    <3>3. QED
      BY <3>2, InFrames
  <2>2. ASSUME x \in FramesOf(q) PROVE x \in FramesOf(p \o q)
    <3>1. PICK i \in 1..Len(q) : x = q[i]
      BY <2>2, InFrames
    <3>2. Len(p) + i \in 1..Len(p \o q) /\ x = (p \o q)[Len(p) + i]
      BY <1>2, <3>1
    <3>3. QED
      BY <3>2, InFrames
  <2>3. ASSUME x \in FramesOf(p \o q) PROVE x \in FramesOf(p) \/ x \in FramesOf(q)
    <3>1. PICK i \in 1..Len(p \o q) : x = (p \o q)[i]
      BY <2>3, InFrames
    <3>2. CASE i \in 1..Len(p) /\ (p \o q)[i] = p[i]
      BY <3>1, <3>2, InFrames
    <3>3. CASE i - Len(p) \in 1..Len(q) /\ (p \o q)[i] = q[i - Len(p)]
      BY <3>1, <3>3, InFrames
    <3>4. QED
      BY <1>3, <3>2, <3>3
  <2>4. QED
    BY <2>1, <2>2, <2>3
<1>5. p \o q \in Seq(S) /\ \A x \in FramesOf(p) : x \in S
  BY InFrames
<1>6. QED
  BY <1>4, <1>5

LEMMA FramesOfHead ==
  ASSUME NEW S, NEW q \in Seq(S), q # <<>>
  PROVE  /\ Head(q) \in S /\ Tail(q) \in Seq(S)
         /\ FramesOf(q) = FramesOf(Tail(q)) \cup {Head(q)}
<1>1. /\ Len(Tail(q)) = Len(q) - 1 /\ Head(q) = q[1] /\ 1 \in 1..Len(q) /\ Len(q) \in Nat
      /\ Tail(q) \in Seq(S) /\ Head(q) \in S
      /\ \A i \in 1..Len(Tail(q)) : i + 1 \in 1..Len(q) /\ Tail(q)[i] = q[i + 1]
      /\ \A i \in 1..Len(q) : i # 1 => i - 1 \in 1..Len(Tail(q)) /\ Tail(q)[i - 1] = q[i]
  OBVIOUS
<1>2. \A x : x \in FramesOf(q) <=> x \in FramesOf(Tail(q)) \/ x = Head(q)
  <2> SUFFICES ASSUME NEW x PROVE x \in FramesOf(q) <=> x \in FramesOf(Tail(q)) \/ x = Head(q)
    OBVIOUS
  <2>1. Head(q) \in FramesOf(q)
    BY <1>1, InFrames
  <2>2. ASSUME x \in FramesOf(Tail(q)) PROVE x \in FramesOf(q)
    <3>1. PICK i \in 1..Len(Tail(q)) : x = Tail(q)[i]
      BY <2>2, InFrames
    <3>2. i + 1 \in 1..Len(q) /\ x = q[i + 1]
      BY <1>1, <3>1
    <3>3. QED
      BY <3>2, InFrames
  <2>3. ASSUME x \in FramesOf(q), x # Head(q) PROVE x \in FramesOf(Tail(q))
    <3>1. PICK i \in 1..Len(q) : x = q[i]
      BY <2>3, InFrames
    <3>2. i - 1 \in 1..Len(Tail(q)) /\ x = Tail(q)[i - 1]
      BY <1>1, <2>3, <3>1
    <3>3. QED
      BY <3>2, InFrames
  <2>4. QED
    BY <2>1, <2>2, <2>3
<1>3. QED
  BY <1>1, <1>2

LEMMA FramesOfAppend ==
  ASSUME NEW S, NEW q \in Seq(S), NEW f \in S
  PROVE  /\ Append(q, f) \in Seq(S)
         /\ FramesOf(Append(q, f)) = FramesOf(q) \cup {f}
<1>1. PICK n \in Nat : n = Len(q)
  OBVIOUS
<1>2. /\ Len(Append(q, f)) = n + 1 /\ Append(q, f)[n + 1] = f
      /\ \A i \in 1..n : Append(q, f)[i] = q[i]
      /\ \A i \in 1..n + 1 : i \in 1..n \/ i = n + 1
  BY <1>1
<1>3. QED
  BY <1>1, <1>2 DEF FramesOf

LEMMA NoFrames == FramesOf(<<>>) = {}
BY DEF FramesOf

\* A span has its frames in order.
LEMMA SpanFrames ==
  ASSUME NEW a \in Int, NEW b \in Int, a <= b
  PROVE  /\ Span(a, b) \in Seq(a..b - 1)
         /\ FramesOf(Span(a, b)) = a..b - 1
         /\ Len(Span(a, b)) = b - a
         /\ \A i \in 1..Len(Span(a, b)) : Span(a, b)[i] = a + i - 1
<1>1. PICK n \in Nat : n = b - a
  OBVIOUS
<1>2. Span(a, b) = [i \in 1..n |-> a + i - 1]
  BY <1>1 DEF Span, Larger
<1>3. /\ Span(a, b) \in Seq(a..b - 1) /\ Len(Span(a, b)) = n
      /\ \A i \in 1..n : Span(a, b)[i] = a + i - 1
  <2>1. \A i \in 1..n : a + i - 1 \in a..b - 1
    BY <1>1
  <2>2. QED
    BY <1>2, <2>1
<1>4. ASSUME NEW x \in a..b - 1 PROVE x - a + 1 \in 1..n /\ Span(a, b)[x - a + 1] = x
  <2>1. x - a + 1 \in 1..n /\ a + (x - a + 1) - 1 = x
    BY <1>1
  <2>2. QED
    BY <1>3, <2>1
<1>5. FramesOf(Span(a, b)) = a..b - 1
  <2>1. \A x : x \in FramesOf(Span(a, b)) <=> \E i \in 1..n : x = Span(a, b)[i]
    BY <1>3, InFrames
  <2>2. ASSUME NEW i \in 1..n PROVE Span(a, b)[i] \in a..b - 1
    <3>1. Span(a, b)[i] = a + i - 1
      BY <1>3
    <3>2. a + i - 1 \in a..b - 1
      BY <1>1
    <3>3. QED
      BY <3>1, <3>2
  <2>3. \A x : x \in FramesOf(Span(a, b)) <=> x \in a..b - 1
    BY <1>4, <2>1, <2>2
  <2>4. QED
    BY <2>3
<1>6. QED
  BY <1>1, <1>3, <1>5

LEMMA SpanEmpty ==
  ASSUME NEW a \in Int, NEW b \in Int, ~(a <= b)
  PROVE  Span(a, b) = <<>>
BY DEF Span, Larger

-----------------------------------------------------------------------------
(* Types. *)

FlagsTyped == {handing, attached, running, hardMuted, wsReady} \subseteq BOOLEAN

HubTyped ==
  /\ frameCount \in 0..MaxFrames /\ (handing => frameCount > 0)
  /\ sinkFirst \in -1..MaxFrames /\ firstSunk \in -1..MaxFrames - 1
  /\ until \in -1..MaxFrames

PlacesTyped ==
  /\ micPc \in MicStates /\ sock \in SockStates /\ link \in {"up", "down"}
  /\ reconnects \in 0..MaxRetries /\ breaks \in 0..MaxBreaks

BuffersTyped ==
  /\ hubQ \in Seq(Frames) /\ seed \in Seq(Frames) /\ pending \in Seq(Frames)
  /\ preroll \in Seq(Frames) /\ flushing \in Seq(Frames) /\ wire \in Seq(Frames)
  /\ gone \subseteq Frames

LossTyped ==
  /\ refused \subseteq Frames /\ crowded \subseteq Frames /\ trimmed \subseteq Frames
  /\ silenced \subseteq Frames /\ cutAt \in -1..MaxFrames

LEMMA TypeParts ==
  TypeOK <=> FlagsTyped /\ HubTyped /\ PlacesTyped /\ BuffersTyped /\ LossTyped
BY DEF TypeOK, FlagsTyped, HubTyped, PlacesTyped, BuffersTyped, LossTyped

LEMMA TypeInit == Init => TypeOK
<1> SUFFICES ASSUME Init PROVE TypeOK
  OBVIOUS
<1>1. FlagsTyped
  BY Zenon DEF Init, FlagsTyped
<1>2. HubTyped /\ PlacesTyped /\ BuffersTyped /\ LossTyped
  BY DEF Init, HubTyped, PlacesTyped, BuffersTyped, LossTyped, MicStates, SockStates
<1>3. QED
  BY <1>1, <1>2, TypeParts

\* The flags: every step sets a flag to a truth value or leaves it.
LEMMA TypeFlags ==
  ASSUME FlagsTyped, [Next]_vars
  PROVE  FlagsTyped'
<1> USE DEF FlagsTyped, hubVars
<1>1. CASE Hub
  BY <1>1, Zenon DEF Hub, Capture, HandOut
<1>2. CASE MicThread
  <2>1. UNCHANGED <<handing, running, hardMuted, wsReady>>
    BY <1>2, Zenon DEF MicThread, AttachSink, ParkWake, WaitForSink, ReadClock, CutSeed,
       WriteSeed, TakeFrame, SendLive, KeepForLater, MicLeaves
  <2>2. attached' = attached \/ attached' = TRUE \/ attached' = FALSE
    BY <1>2, Zenon DEF MicThread, AttachSink, ParkWake, WaitForSink, ReadClock, CutSeed,
       WriteSeed, TakeFrame, SendLive, KeepForLater, MicLeaves
  <2>3. QED
    BY <2>1, <2>2, Zenon
<1>3. CASE Listener
  <2>1. UNCHANGED <<handing, attached, hardMuted>>
    BY <1>3, Zenon DEF Listener, Opens, FlushPreroll, BecomesReady, Fails, Redials
  <2>2. running' = running \/ running' = FALSE
    BY <1>3, Zenon DEF Listener, Opens, FlushPreroll, BecomesReady, Fails, Redials, Stop
  <2>3. wsReady' = wsReady \/ wsReady' = FALSE \/ wsReady' = TRUE
    BY <1>3, Zenon DEF Listener, Opens, FlushPreroll, BecomesReady, Fails, Redials, Stop,
       ReadyWhileFlushing
  <2>4. QED
    BY <2>1, <2>2, <2>3, Zenon
<1>4. CASE LinkBreaks
  BY <1>4, Zenon DEF LinkBreaks
<1>5. CASE EndSession
  BY <1>5, Zenon DEF EndSession, Stop
<1>6. CASE SlideMute
  BY <1>6, Zenon DEF SlideMute
<1>7. CASE UNCHANGED vars
  BY <1>7, Zenon DEF vars
<1>8. QED
  BY <1>1, <1>2, <1>3, <1>4, <1>5, <1>6, <1>7 DEF Next

\* The hub's counters, and what the sink and the mic thread read of them.
LEMMA TypeHub ==
  ASSUME HubTyped, [Next]_vars
  PROVE  HubTyped'
<1> USE Sizes DEF HubTyped
<1>1. CASE Capture
  BY <1>1 DEF Capture, micVars
<1>2. CASE HandOut
  BY <1>2 DEF HandOut
<1>3. CASE MicThread
  BY <1>3 DEF MicThread, AttachSink, ParkWake, WaitForSink, ReadClock, CutSeed, WriteSeed,
     TakeFrame, SendLive, KeepForLater, MicLeaves, SeedEndsAtClock, hubVars
<1>4. CASE Listener \/ LinkBreaks \/ EndSession \/ SlideMute \/ UNCHANGED vars
  BY <1>4 DEF Listener, Opens, FlushPreroll, BecomesReady, Fails, Redials, LinkBreaks,
     EndSession, SlideMute, vars, micVars, hubVars
<1>5. QED
  BY <1>1, <1>2, <1>3, <1>4 DEF Next, Hub

\* Where the threads are, and how often the link failed.
LEMMA TypePlaces ==
  ASSUME PlacesTyped, [Next]_vars
  PROVE  PlacesTyped'
<1> USE Sizes DEF PlacesTyped, MicStates, SockStates
<1>1. CASE Hub
  BY <1>1 DEF Hub, Capture, HandOut, micVars, sockVars
<1>2. CASE MicThread
  BY <1>2 DEF MicThread, AttachSink, ParkWake, WaitForSink, ReadClock, CutSeed, WriteSeed,
     TakeFrame, SendLive, KeepForLater, MicLeaves, sockVars
<1>3. CASE Listener
  BY <1>3 DEF Listener, Opens, FlushPreroll, BecomesReady, Fails, Redials, MayRetry, Stop,
     micVars
<1>4. CASE LinkBreaks \/ EndSession \/ SlideMute \/ UNCHANGED vars
  BY <1>4 DEF LinkBreaks, EndSession, SlideMute, Stop, vars, micVars, sockVars
<1>5. QED
  BY <1>1, <1>2, <1>3, <1>4 DEF Next

LEMMA BufferTyped ==
  ASSUME NEW S, NEW q \in Seq(S), NEW msg \in Seq(S)
  PROVE  Buffer(q, msg) \in Seq(S) /\ FramesOf(msg) \subseteq S
BY FramesOfParts DEF Buffer

\* The buffers: frames only, for a frame is handed over as it was captured, and a
\* seed is cut from what the hub has captured.
LEMMA SeedFrames ==
  ASSUME HubTyped
  PROVE  /\ SeedFrom \in Nat /\ SeedTo \in Int /\ SeedTo <= until /\ SeedTo <= frameCount
         /\ SeedFrom..SeedTo - 1 \subseteq Frames
         /\ FireFrame - Backlog <= SeedFrom
         /\ \A f \in (FireFrame - Backlog..SeedFrom - 1) \cap Nat : f < frameCount - RingFrames
BY DEF HubTyped, SeedFrom, SeedTo, Larger, Smaller, Frames

\* The seed is a piece of that.
LEMMA SeedCut ==
  ASSUME HubTyped, CutSeed
  PROVE  /\ seed' \in Seq(Frames)
         /\ FramesOf(seed') \subseteq SeedFrom..SeedTo - 1
         /\ \A i, j \in 1..Len(seed') : i < j => seed'[i] < seed'[j]
<1>0. PICK a \in SeedFrom..Larger(SeedFrom, SeedTo) :
        \E b \in a..Larger(a, SeedTo) : seed' = Span(a, b)
  BY DEF CutSeed
<1>1. PICK b \in a..Larger(a, SeedTo) : seed' = Span(a, b)
  BY <1>0
<1>2. SeedFrom \in Nat /\ SeedTo \in Int /\ SeedFrom..SeedTo - 1 \subseteq Frames
  BY SeedFrames
<1>3. a \in Int /\ b \in Int /\ SeedFrom <= a /\ a <= b /\ (b = a \/ b <= SeedTo)
  BY <1>2 DEF Larger
<1>4. /\ seed' \in Seq(a..b - 1) /\ FramesOf(seed') = a..b - 1
      /\ \A i \in 1..Len(seed') : seed'[i] = a + i - 1
  BY <1>1, <1>3, SpanFrames
<1>5. a..b - 1 \subseteq SeedFrom..SeedTo - 1
  BY <1>2, <1>3
<1>6. seed' \in Seq(Frames)
  BY <1>2, <1>4, <1>5, WiderSeq
<1>7. ASSUME NEW i \in 1..Len(seed'), NEW j \in 1..Len(seed'), i < j
      PROVE  seed'[i] < seed'[j]
  <2>1. seed'[i] = a + i - 1 /\ seed'[j] = a + j - 1
    BY <1>4
  <2>2. i \in Int /\ j \in Int
    OBVIOUS
  <2>3. a + i - 1 < a + j - 1
    BY <1>3, <1>7, <2>2
  <2>4. QED
    BY <2>1, <2>3
<1>8. QED
  BY <1>4, <1>5, <1>6, <1>7

LEMMA ServerTyped ==
  ASSUME BuffersTyped, NEW msg \in Seq(Frames), ToServer(msg)
  PROVE  wire' \in Seq(Frames) /\ gone' \subseteq Frames
<1>1. wire \o msg \in Seq(Frames) /\ FramesOf(msg) \subseteq Frames
  BY FramesOfParts DEF BuffersTyped
<1>2. /\ wire' = wire \/ wire' = wire \o msg
      /\ gone' = gone \/ gone' = gone \cup FramesOf(msg)
  BY DEF ToServer
<1>3. QED
  BY <1>1, <1>2 DEF BuffersTyped

LEMMA TypeBuffers ==
  ASSUME HubTyped, BuffersTyped, LossTyped, [Next]_vars
  PROVE  BuffersTyped'
<1> USE DEF BuffersTyped
<1>1. CASE Capture
  BY <1>1 DEF Capture, micVars, sockVars
<1>2. CASE HandOut
  <2>1. frameCount > 0
    BY <1>2 DEF HandOut, HubTyped
  <2>2. frameCount - 1 \in Frames
    BY <2>1, Sizes DEF HubTyped, Frames
  <2>3. hubQ' \in Seq(Frames) /\ gone' \subseteq Frames
    <3>1. Append(hubQ, frameCount - 1) \in Seq(Frames)
      BY <2>2, FramesOfAppend
    <3>2. hubQ' = hubQ \/ hubQ' = Append(hubQ, frameCount - 1)
      BY <1>2 DEF HandOut
    <3>3. gone' = gone \/ gone' = gone \cup {frameCount - 1}
      BY <1>2 DEF HandOut
    <3>4. QED
      BY <2>2, <3>1, <3>2, <3>3
  <2>4. UNCHANGED <<seed, pending, preroll, flushing, wire>>
    BY <1>2 DEF HandOut, sockVars
  <2>5. QED
    BY <2>3, <2>4
<1>3. CASE AttachSink \/ ParkWake \/ WaitForSink \/ ReadClock \/ MicLeaves
  BY <1>3 DEF AttachSink, ParkWake, WaitForSink, ReadClock, MicLeaves, sockVars
<1>4. CASE CutSeed
  <2>1. seed' \in Seq(Frames) /\ gone' \subseteq Frames
    BY <1>4, SeedCut, SeedFrames DEF CutSeed, LossTyped
  <2>2. QED
    BY <1>4, <2>1 DEF CutSeed, sockVars
<1>5. CASE WriteSeed
  <2>1. preroll' \in Seq(Frames) /\ gone' \subseteq Frames
    BY <1>5, BufferTyped DEF WriteSeed, ToPreroll
  <2>2. QED
    BY <1>5, <2>1 DEF WriteSeed, sockVars
<1>6. CASE TakeFrame
  <2>1. Head(hubQ) \in Frames /\ hubQ' \in Seq(Frames) /\ FramesOf(pending) \subseteq Frames
    BY <1>6, FramesOfHead, FramesOfParts DEF TakeFrame
  <2>2. pending' \in Seq(Frames) /\ gone' \subseteq Frames
    <3>1. Append(pending, Head(hubQ)) \in Seq(Frames)
      BY <2>1, FramesOfAppend
    <3>2. pending' = <<>> \/ pending' = Append(pending, Head(hubQ))
      BY <1>6 DEF TakeFrame
    <3>3. gone' = gone \/ gone' = gone \cup FramesOf(pending) \cup {Head(hubQ)}
      BY <1>6 DEF TakeFrame
    <3>4. {Head(hubQ)} \subseteq Frames /\ gone \subseteq Frames
      BY <2>1
    <3>5. gone' \subseteq Frames
      BY <2>1, <3>3, <3>4
    <3>6. pending' \in Seq(Frames)
      <4>1. <<>> \in Seq(Frames)
        OBVIOUS
      <4>2. QED
        BY <3>1, <3>2, <4>1
    <3>7. QED
      BY <3>5, <3>6
  <2>3. QED
    BY <1>6, <2>1, <2>2 DEF TakeFrame, sockVars
<1>7. CASE SendLive
  <2>1. wire' \in Seq(Frames) /\ gone' \subseteq Frames
    BY <1>7, ServerTyped DEF SendLive
  <2>2. QED
    BY <1>7, <2>1 DEF SendLive, PendingSent, sockVars
<1>8. CASE KeepForLater
  <2>1. preroll' \in Seq(Frames) /\ gone' \subseteq Frames
    BY <1>8, BufferTyped DEF KeepForLater, ToPreroll
  <2>2. QED
    BY <1>8, <2>1 DEF KeepForLater, PendingSent, sockVars
<1>9. CASE Opens \/ BecomesReady \/ Redials
  <2>1. CASE Opens
    BY <2>1 DEF Opens, PrerollFlushed, micVars
  <2>2. CASE BecomesReady \/ Redials
    BY <2>2 DEF BecomesReady, Redials, micVars
  <2>3. QED
    BY <1>9, <2>1, <2>2
<1>10. CASE FlushPreroll
  <2>1. wire' \in Seq(Frames) /\ gone' \subseteq Frames
    BY <1>10, ServerTyped DEF FlushPreroll
  <2>2. QED
    BY <1>10, <2>1 DEF FlushPreroll, micVars
<1>11. CASE Fails \/ EndSession
  <2>1. FramesOf(preroll) \subseteq Frames
    BY FramesOfParts
  <2>2. /\ preroll' = preroll \/ preroll' = <<>>
        /\ gone' = gone \/ gone' = gone \cup FramesOf(preroll)
    BY <1>11 DEF Fails, EndSession, Stop
  <2>3. UNCHANGED <<hubQ, seed, pending, flushing, wire>>
    BY <1>11 DEF Fails, EndSession, micVars
  <2>4. preroll' \in Seq(Frames) /\ gone' \subseteq Frames
    <3>1. <<>> \in Seq(Frames) /\ gone \subseteq Frames
      OBVIOUS
    <3>2. QED
      BY <2>1, <2>2, <3>1
  <2>5. QED
    BY <2>3, <2>4
<1>12. CASE LinkBreaks \/ SlideMute \/ UNCHANGED vars
  BY <1>12 DEF LinkBreaks, SlideMute, vars, micVars, sockVars
<1>13. QED
  BY <1>1, <1>2, <1>3, <1>4, <1>5, <1>6, <1>7, <1>8, <1>9, <1>10, <1>11, <1>12
     DEF Next, Hub, MicThread, Listener

\* What was given up, where, and where the hub stood when the seed was cut.
LEMMA TypeLoss ==
  ASSUME HubTyped, BuffersTyped, LossTyped, [Next]_vars
  PROVE  LossTyped'
<1> USE DEF LossTyped
<1>1. CASE HandOut
  <2>1. frameCount - 1 \in Frames
    <3>1. frameCount \in 0..MaxFrames /\ frameCount > 0
      BY <1>1 DEF HandOut, HubTyped
    <3>2. QED
      BY <3>1, Sizes DEF Frames
  <2>2. refused' = refused \/ refused' = refused \cup {frameCount - 1}
    BY <1>1 DEF HandOut
  <2>3. UNCHANGED <<crowded, trimmed, silenced, cutAt>>
    BY <1>1 DEF HandOut
  <2>4. QED
    BY <2>1, <2>2, <2>3
<1>2. CASE CutSeed
  <2>1. trimmed' \subseteq Frames
    BY <1>2, SeedFrames DEF CutSeed
  <2>2. cutAt' = frameCount /\ frameCount \in 0..MaxFrames
    BY <1>2 DEF CutSeed, HubTyped
  <2>3. UNCHANGED <<refused, crowded, silenced>>
    BY <1>2 DEF CutSeed
  <2>4. QED
    BY <2>1, <2>2, <2>3, Sizes
<1>3. CASE WriteSeed \/ KeepForLater
  <2>1. FramesOf(seed) \subseteq Frames /\ FramesOf(pending) \subseteq Frames
    BY FramesOfParts DEF BuffersTyped
  <2>2. \/ crowded' = crowded \/ crowded' = crowded \cup FramesOf(seed)
        \/ crowded' = crowded \cup FramesOf(pending)
    BY <1>3 DEF WriteSeed, KeepForLater, ToPreroll
  <2>3. UNCHANGED <<refused, trimmed, silenced, cutAt>>
    BY <1>3 DEF WriteSeed, KeepForLater
  <2>4. QED
    BY <2>1, <2>2, <2>3
<1>4. CASE TakeFrame
  <2>1. Head(hubQ) \in Frames /\ FramesOf(pending) \subseteq Frames
    BY <1>4, FramesOfHead, FramesOfParts DEF TakeFrame, BuffersTyped
  <2>2. \/ silenced' = silenced
        \/ silenced' = silenced \cup FramesOf(pending) \cup {Head(hubQ)}
    BY <1>4 DEF TakeFrame
  <2>3. UNCHANGED <<refused, crowded, trimmed, cutAt>>
    BY <1>4 DEF TakeFrame
  <2>4. QED
    BY <2>1, <2>2, <2>3
<1>5. CASE ~(HandOut \/ CutSeed \/ WriteSeed \/ KeepForLater \/ TakeFrame)
  <2>1. UNCHANGED lossVars
    BY <1>5 DEF Next, Hub, MicThread, Listener, Capture, AttachSink, ParkWake, WaitForSink,
       ReadClock, SendLive, MicLeaves, Opens, FlushPreroll, BecomesReady, Fails, Redials,
       LinkBreaks, EndSession, SlideMute, vars
  <2>2. QED
    BY <2>1 DEF lossVars
<1>6. QED
  BY <1>1, <1>2, <1>3, <1>4, <1>5

LEMMA TypeStep == TypeOK /\ [Next]_vars => TypeOK'
<1> SUFFICES ASSUME TypeOK, [Next]_vars PROVE TypeOK'
  OBVIOUS
<1>1. FlagsTyped /\ HubTyped /\ PlacesTyped /\ BuffersTyped /\ LossTyped
  BY TypeParts
<1>2. FlagsTyped' /\ HubTyped' /\ PlacesTyped' /\ BuffersTyped' /\ LossTyped'
  BY <1>1, TypeFlags, TypeHub, TypePlaces, TypeBuffers, TypeLoss
<1>3. QED
  BY <1>2 DEF TypeOK, FlagsTyped, HubTyped, PlacesTyped, BuffersTyped, LossTyped

\* Every counter stays in its range and every buffer holds frames, wherever the
\* seed is cut and whatever is trimmed of it.
THEOREM HandoffTypeCorrect == Spec => []TypeOK
BY TypeStep, TypeInit, PTL DEF Spec

-----------------------------------------------------------------------------
(***************************************************************************)
(* No step makes a frame vanish (NothingLost): it is where it was, further *)
(* on, or given up. So what was ever handed to the sink or cut from the    *)
(* ring stays in sight, as long as the threads are where Placed says: the  *)
(* sink is attached before the first frame and until the session ends, a   *)
(* new seed or flush finds the old one gone, and no seed ends in the       *)
(* future. Where frames are given up is shown at the end (LimitsInv).      *)
(***************************************************************************)
Placed ==
  /\ micPc = "attach" => ~attached /\ firstSunk = -1
  /\ micPc = "left" => ~running
  /\ micPc # "seed" => seed = <<>>
  /\ sock # "flush" => flushing = <<>>
  /\ until <= frameCount

LEMMA PlacedInit == Init => Placed
BY DEF Init, Placed

\* The mic thread's and the hub's part of Placed.
LEMMA PlacedStep ==
  ASSUME SeamInv, Placed, [Next]_vars
  PROVE  Placed'
<1> USE DEF Placed
<1>1. CASE Hub
  <2>1. UNCHANGED <<micPc, attached, running, seed, sock, flushing, until>>
    BY <1>1 DEF Hub, Capture, HandOut, micVars, sockVars
  <2>2. frameCount' >= frameCount /\ frameCount \in Int /\ frameCount' \in Int /\ until \in Int
    BY <1>1 DEF Hub, Capture, HandOut, SeamInv, CountersTyped
  <2>3. ~attached => firstSunk' = firstSunk
    BY <1>1 DEF Hub, Capture, HandOut
  <2>4. until <= frameCount'
    BY <2>2
  <2>5. QED
    BY <2>1, <2>3, <2>4
<1>2. CASE MicThread
  <2>1. UNCHANGED <<frameCount, firstSunk, running, sock, flushing>>
    BY <1>2 DEF MicThread, AttachSink, ParkWake, WaitForSink, ReadClock, CutSeed, WriteSeed,
       TakeFrame, SendLive, KeepForLater, MicLeaves, hubVars, sockVars
  <2>2. micPc' # "attach" /\ (micPc' = "left" => ~running)
    BY <1>2 DEF MicThread, AttachSink, ParkWake, WaitForSink, ReadClock, CutSeed, WriteSeed,
       TakeFrame, SendLive, KeepForLater, MicLeaves
  <2>3. micPc' # "seed" => seed' = <<>>
    BY <1>2 DEF MicThread, AttachSink, ParkWake, WaitForSink, ReadClock, CutSeed, WriteSeed,
       TakeFrame, SendLive, KeepForLater, MicLeaves
  <2>4. until' = until \/ until' = sinkFirst \/ until' = frameCount
    BY <1>2 DEF MicThread, AttachSink, ParkWake, WaitForSink, ReadClock, CutSeed, WriteSeed,
       TakeFrame, SendLive, KeepForLater, MicLeaves, SeedEndsAtClock
  <2>5. sinkFirst <= frameCount
    BY DEF SeamInv, SinkSees, CountersTyped
  <2>6. QED
    BY <2>1, <2>2, <2>3, <2>4, <2>5 DEF SeamInv, CountersTyped
<1>3. CASE Listener \/ LinkBreaks \/ EndSession \/ SlideMute \/ UNCHANGED vars
  <2>1. UNCHANGED <<micPc, attached, firstSunk, frameCount, seed, until>>
    BY <1>3 DEF Listener, Opens, FlushPreroll, BecomesReady, Fails, Redials, LinkBreaks,
       EndSession, SlideMute, vars, hubVars, micVars
  <2>2. ~running => ~running'
    BY <1>3 DEF Listener, Opens, FlushPreroll, BecomesReady, Fails, Redials, LinkBreaks,
       EndSession, SlideMute, vars, Stop
  <2>3. sock' # "flush" => flushing' = <<>>
    BY <1>3 DEF Listener, Opens, FlushPreroll, BecomesReady, Fails, Redials, LinkBreaks,
       EndSession, SlideMute, vars, sockVars
  <2>4. QED
    BY <2>1, <2>2, <2>3
<1>4. QED
  BY <1>1, <1>2, <1>3 DEF Next

Held == OnTheWay \cup gone

LEMMA HeldParts ==
  ASSUME NEW x
  PROVE  x \in Held <=> \/ x \in FramesOf(wire) \/ x \in FramesOf(flushing)
                        \/ x \in FramesOf(preroll) \/ x \in FramesOf(pending)
                        \/ x \in FramesOf(hubQ) \/ x \in FramesOf(seed) \/ x \in gone
BY DEF Held, OnTheWay

\* The hub hands its newest frame to an attached sink, or gives it up.
LEMMA HubLosesNothing ==
  ASSUME TypeOK, Hub
  PROVE  /\ Held \subseteq Held'
         /\ HandOut /\ attached => frameCount - 1 \in Held'
<1>0. BuffersTyped /\ HubTyped
  BY TypeParts
<1>1. UNCHANGED <<wire, flushing, preroll, pending, seed>>
  BY DEF Hub, Capture, HandOut, micVars, sockVars
<1>2. CASE Capture
  <2>1. UNCHANGED <<hubQ, gone>> /\ ~handing
    BY <1>2 DEF Capture, micVars
  <2>2. ~HandOut
    BY <2>1 DEF HandOut
  <2>3. QED
    BY <1>1, <2>1, <2>2 DEF Held, OnTheWay
<1>3. CASE HandOut
  <2>1. frameCount > 0
    BY <1>0, <1>3 DEF HandOut, HubTyped
  <2>2. frameCount - 1 \in Frames
    BY <1>0, <2>1, Sizes DEF HubTyped, Frames
  <2>3. FramesOf(Append(hubQ, frameCount - 1)) = FramesOf(hubQ) \cup {frameCount - 1}
    BY <1>0, <2>2, FramesOfAppend DEF BuffersTyped
  <2>4. \/ hubQ' = Append(hubQ, frameCount - 1) /\ gone' = gone
        \/ hubQ' = hubQ /\ gone' = gone \cup {frameCount - 1}
        \/ ~attached /\ hubQ' = hubQ /\ gone' = gone
    BY <1>3 DEF HandOut
  <2>5. QED
    BY <1>1, <2>3, <2>4 DEF Held, OnTheWay
<1>4. QED
  BY <1>2, <1>3 DEF Hub

\* What is handed to the server is on the wire or given up.
LEMMA ServerLosesNothing ==
  ASSUME BuffersTyped, NEW msg \in Seq(Frames), ToServer(msg)
  PROVE  FramesOf(wire') \cup gone' = FramesOf(wire) \cup gone \cup FramesOf(msg)
<1>1. FramesOf(wire \o msg) = FramesOf(wire) \cup FramesOf(msg)
  BY FramesOfParts DEF BuffersTyped
<1>2. \/ wire' = wire \o msg /\ gone' = gone
      \/ wire' = wire /\ gone' = gone \cup FramesOf(msg)
  BY DEF ToServer
<1>3. QED
  BY <1>1, <1>2

\* What is buffered for later waits in preroll or is given up.
LEMMA PrerollLosesNothing ==
  ASSUME BuffersTyped, NEW msg \in Seq(Frames), ToPreroll(msg)
  PROVE  FramesOf(preroll') \cup gone' = FramesOf(preroll) \cup gone \cup FramesOf(msg)
<1>1. FramesOf(preroll \o msg) = FramesOf(preroll) \cup FramesOf(msg)
  BY FramesOfParts DEF BuffersTyped
<1>2. \/ preroll' = preroll \o msg /\ gone' = gone
      \/ preroll' = preroll /\ gone' = gone \cup FramesOf(msg)
  BY DEF ToPreroll, Buffer
<1>3. QED
  BY <1>1, <1>2

LEMMA MicLosesNothing ==
  ASSUME TypeOK, Placed, MicThread
  PROVE  Held \subseteq Held'
<1>0. BuffersTyped /\ FramesOf(<<>>) = {}
  BY TypeParts, NoFrames
<1>1. CASE AttachSink \/ ParkWake \/ WaitForSink \/ ReadClock \/ MicLeaves
  BY <1>1 DEF AttachSink, ParkWake, WaitForSink, ReadClock, MicLeaves, sockVars, Held, OnTheWay
<1>2. CASE CutSeed
  <2>1. FramesOf(seed) = {}
    BY <1>0, <1>2 DEF CutSeed, Placed
  <2>2. gone \subseteq gone' /\ UNCHANGED <<wire, flushing, preroll, pending, hubQ>>
    BY <1>2 DEF CutSeed, sockVars
  <2>3. QED
    BY <2>1, <2>2 DEF Held, OnTheWay
<1>3. CASE WriteSeed
  <2>1. FramesOf(preroll') \cup gone' = FramesOf(preroll) \cup gone \cup FramesOf(seed)
    BY <1>0, <1>3, PrerollLosesNothing DEF WriteSeed, BuffersTyped
  <2>2. UNCHANGED <<wire, flushing, pending, hubQ>>
    BY <1>3 DEF WriteSeed, sockVars
  <2>3. QED
    BY <2>1, <2>2 DEF Held, OnTheWay
<1>4. CASE TakeFrame
  <2>1. UNCHANGED <<wire, flushing, preroll, seed>>
    BY <1>4 DEF TakeFrame, sockVars
  <2>2. /\ Head(hubQ) \in Frames /\ hubQ' = Tail(hubQ)
        /\ FramesOf(hubQ) = FramesOf(Tail(hubQ)) \cup {Head(hubQ)}
    BY <1>0, <1>4, FramesOfHead DEF TakeFrame, BuffersTyped
  <2>3. FramesOf(Append(pending, Head(hubQ))) = FramesOf(pending) \cup {Head(hubQ)}
    BY <1>0, <2>2, FramesOfAppend DEF BuffersTyped
  <2>4. \/ pending' = Append(pending, Head(hubQ)) /\ gone' = gone
        \/ gone' = gone \cup FramesOf(pending) \cup {Head(hubQ)}
    BY <1>4 DEF TakeFrame
  <2>5. FramesOf(pending) \cup {Head(hubQ)} \cup gone \subseteq FramesOf(pending') \cup gone'
    BY <2>3, <2>4
  <2>6. QED
    BY <2>1, <2>2, <2>5 DEF Held, OnTheWay
<1>5. CASE SendLive
  <2>1. FramesOf(wire') \cup gone' = FramesOf(wire) \cup gone \cup FramesOf(pending)
    BY <1>0, <1>5, ServerLosesNothing DEF SendLive, BuffersTyped
  <2>2. UNCHANGED <<flushing, preroll, hubQ, seed>>
    BY <1>5 DEF SendLive, sockVars
  <2>3. QED
    BY <2>1, <2>2 DEF Held, OnTheWay
<1>6. CASE KeepForLater
  <2>1. FramesOf(preroll') \cup gone' = FramesOf(preroll) \cup gone \cup FramesOf(pending)
    BY <1>0, <1>6, PrerollLosesNothing DEF KeepForLater, BuffersTyped
  <2>2. UNCHANGED <<wire, flushing, hubQ, seed>>
    BY <1>6 DEF KeepForLater, sockVars
  <2>3. QED
    BY <2>1, <2>2 DEF Held, OnTheWay
<1>7. QED
  BY <1>1, <1>2, <1>3, <1>4, <1>5, <1>6 DEF MicThread

LEMMA ListenerLosesNothing ==
  ASSUME TypeOK, Placed,
         Listener \/ LinkBreaks \/ EndSession \/ SlideMute \/ UNCHANGED vars
  PROVE  Held \subseteq Held'
<1>0. BuffersTyped /\ FramesOf(<<>>) = {}
  BY TypeParts, NoFrames
<1>1. CASE Opens
  <2>1. FramesOf(flushing) = {} /\ flushing' = preroll
    BY <1>0, <1>1 DEF Opens, Placed
  <2>2. UNCHANGED <<wire, gone, pending, hubQ, seed>>
    BY <1>1 DEF Opens, micVars
  <2>3. QED
    BY <2>1, <2>2 DEF Held, OnTheWay
<1>2. CASE FlushPreroll
  <2>1. FramesOf(wire') \cup gone' = FramesOf(wire) \cup gone \cup FramesOf(flushing)
    BY <1>0, <1>2, ServerLosesNothing DEF FlushPreroll, BuffersTyped
  <2>2. UNCHANGED <<preroll, pending, hubQ, seed>>
    BY <1>2 DEF FlushPreroll, micVars
  <2>3. QED
    BY <2>1, <2>2 DEF Held, OnTheWay
<1>3. CASE BecomesReady \/ Redials \/ LinkBreaks \/ SlideMute \/ UNCHANGED vars
  BY <1>3 DEF BecomesReady, Redials, LinkBreaks, SlideMute, vars, micVars, sockVars, Held,
     OnTheWay
<1>4. CASE Fails \/ EndSession
  <2>1. \/ UNCHANGED <<preroll, gone>>
        \/ gone' = gone \cup FramesOf(preroll)
    BY <1>4 DEF Fails, EndSession, Stop
  <2>2. UNCHANGED <<wire, flushing, pending, hubQ, seed>>
    BY <1>4 DEF Fails, EndSession, micVars
  <2>3. QED
    BY <2>1, <2>2 DEF Held, OnTheWay
<1>5. QED
  BY <1>1, <1>2, <1>3, <1>4 DEF Listener

\* No step of any thread loses a frame without giving it up by name.
LEMMA NothingLost ==
  ASSUME TypeOK, Placed, [Next]_vars
  PROVE  Held \subseteq Held'
BY HubLosesNothing, MicLosesNothing, ListenerLosesNothing DEF Next

\* While the session runs, every frame handed to the sink is held or given up.
SunkHeld == running => Sunk \subseteq Held

\* Once the seed is cut, so is every frame it was to bring, unless the ring had
\* overwritten it by then.
SeedCutDone == micPc \in {"seed", "loop", "send", "keep", "left"} /\ until # -1
SeedHeld == SeedCutDone => SeedDue \subseteq Held \cup Overwritten

HeldInv == SeamInv /\ TypeOK /\ Placed /\ SunkHeld /\ SeedHeld

LEMMA HeldInit == Init => HeldInv
BY SeamInit, TypeInit, PlacedInit DEF HeldInv, SunkHeld, SeedHeld, SeedCutDone, Init, Sunk

LEMMA SunkStep ==
  ASSUME HeldInv, [Next]_vars
  PROVE  SunkHeld'
<1> SUFFICES ASSUME running' PROVE Sunk' \subseteq Held'
  BY DEF SunkHeld
<1>1. running
  BY Zenon DEF Next, Hub, MicThread, Listener, Capture, HandOut, AttachSink, ParkWake,
     WaitForSink, ReadClock, CutSeed, WriteSeed, TakeFrame, SendLive, KeepForLater,
     MicLeaves, Opens, FlushPreroll, BecomesReady, Fails, Redials, LinkBreaks, EndSession,
     SlideMute, Stop, vars
<1>2. Sunk \subseteq Held /\ Held \subseteq Held'
  BY <1>1, NothingLost DEF HeldInv, SunkHeld
<1>3. CASE HandOut
  <2>1. frameCount' = frameCount /\ ~handing' /\ handing /\ frameCount \in Int
    BY <1>3 DEF HandOut, HeldInv, SeamInv, CountersTyped
  <2>2. CASE attached
    <3>1. frameCount - 1 \in Held'
      BY <1>3, <2>2, HubLosesNothing DEF HeldInv, Hub
    <3>2. firstSunk' = IF firstSunk = -1 THEN frameCount - 1 ELSE firstSunk
      BY <1>3, <2>2 DEF HandOut
    <3>3. CASE firstSunk = -1
      <4>1. Sunk' = firstSunk'..frameCount - 1 \/ Sunk' = {}
        BY <2>1 DEF Sunk
      <4>2. firstSunk'..frameCount - 1 = {frameCount - 1}
        BY <2>1, <3>2, <3>3
      <4>3. QED
        BY <3>1, <4>1, <4>2
    <3>4. CASE firstSunk # -1
      <4>1. firstSunk' = firstSunk /\ firstSunk \in Int
        BY <3>2, <3>4 DEF HeldInv, SeamInv, CountersTyped
      <4>2. Sunk' = firstSunk..frameCount - 1 /\ Sunk = firstSunk..frameCount - 2
        BY <2>1, <3>4, <4>1 DEF Sunk
      <4>3. firstSunk..frameCount - 1 \subseteq firstSunk..frameCount - 2 \cup {frameCount - 1}
        BY <2>1, <4>1
      <4>4. QED
        BY <1>2, <3>1, <4>2, <4>3
    <3>5. QED
      BY <3>3, <3>4
  <2>3. CASE ~attached
    <3>1. firstSunk = -1 /\ firstSunk' = -1
      BY <1>1, <1>3, <2>3 DEF HandOut, HeldInv, SeamInv, Subscribed, Placed
    <3>2. QED
      BY <3>1 DEF Sunk
  <2>4. QED
    BY <2>2, <2>3
<1>4. CASE Capture
  <2>1. frameCount' = frameCount + 1 /\ handing' /\ ~handing /\ firstSunk' = firstSunk
        /\ frameCount \in Int /\ firstSunk \in Int
    BY <1>4 DEF Capture, HeldInv, SeamInv, CountersTyped
  <2>2. frameCount' - 2 = frameCount - 1
    BY <2>1
  <2>3. Sunk' = Sunk
    BY <2>1, <2>2 DEF Sunk
  <2>4. QED
    BY <1>2, <2>3
<1>5. CASE MicThread \/ Listener \/ LinkBreaks \/ EndSession \/ SlideMute \/ UNCHANGED vars
  <2>1. UNCHANGED <<frameCount, handing, firstSunk>>
    BY <1>5 DEF MicThread, Listener, AttachSink, ParkWake, WaitForSink, ReadClock, CutSeed,
       WriteSeed, TakeFrame, SendLive, KeepForLater, MicLeaves, Opens, FlushPreroll,
       BecomesReady, Fails, Redials, LinkBreaks, EndSession, SlideMute, vars, hubVars
  <2>2. QED
    BY <1>2, <2>1 DEF Sunk
<1>6. QED
  BY <1>3, <1>4, <1>5 DEF Next, Hub

\* When the seed is cut its end is not ahead of the hub, so what it should bring
\* is cut, trimmed, or overwritten in the ring.
LEMMA SeedStep ==
  ASSUME HeldInv, [Next]_vars
  PROVE  SeedHeld'
<1> SUFFICES ASSUME SeedCutDone'
             PROVE  (FireFrame - Backlog..until' - 1) \cap Frames
                       \subseteq Held' \cup 0..(cutAt' - RingFrames - 1)
  BY DEF SeedHeld, SeedDue, Overwritten
<1>1. CASE CutSeed
  <2>1. until' = until /\ cutAt' = frameCount /\ SeedTo = until
    <3>1. until \in Int /\ frameCount \in Int /\ until <= frameCount
      BY DEF HeldInv, SeamInv, CountersTyped, Placed
    <3>2. QED
      BY <1>1, <3>1 DEF CutSeed, hubVars, SeedTo, Smaller
  <2>2. (SeedFrom..SeedTo - 1) \subseteq FramesOf(seed') \cup gone'
    BY <1>1 DEF CutSeed
  <2>3. SeedFrom..until - 1 \subseteq Held'
    BY <2>1, <2>2 DEF Held, OnTheWay
  <2>4. HubTyped /\ until \in Int /\ frameCount \in Int
    BY TypeParts DEF HeldInv, SeamInv, CountersTyped
  <2>5. /\ SeedFrom \in Nat
        /\ \A f \in (FireFrame - Backlog..SeedFrom - 1) \cap Nat : f < frameCount - RingFrames
    BY <2>4, SeedFrames
  <2>6. ASSUME NEW f \in (FireFrame - Backlog..until - 1) \cap Frames
        PROVE  f \in Held' \cup 0..(frameCount - RingFrames - 1)
    <3>1. f \in Nat /\ FireFrame - Backlog <= f /\ f <= until - 1 /\ FireFrame - Backlog \in Int
      BY Sizes, <2>4 DEF Frames
    <3>2. CASE SeedFrom <= f
      BY <2>3, <2>4, <2>5, <3>1, <3>2
    <3>3. CASE ~(SeedFrom <= f)
      <4>1. f \in FireFrame - Backlog..SeedFrom - 1
        BY <2>5, <3>1, <3>3
      <4>2. f < frameCount - RingFrames
        BY <2>5, <3>1, <4>1
      <4>3. QED
        BY <2>4, <3>1, <4>2, Sizes
    <3>4. QED
      BY <3>2, <3>3
  <2>7. QED
    BY <2>1, <2>6
<1>2. CASE ~CutSeed
  <2>1. SeedCutDone /\ until' = until
    <3>1. CASE MicThread
      BY <1>2, <3>1 DEF SeedCutDone, MicThread, AttachSink, ParkWake, WaitForSink, ReadClock,
         WriteSeed, TakeFrame, SendLive, KeepForLater, MicLeaves, HeldInv, SeamInv, NoEndYet
    <3>2. CASE ~MicThread
      <4>1. UNCHANGED <<micPc, until>>
        BY <3>2 DEF Next, Hub, Listener, Capture, HandOut, Opens, FlushPreroll,
           BecomesReady, Fails, Redials, LinkBreaks, EndSession, SlideMute, vars, micVars
      <4>2. QED
        BY <4>1 DEF SeedCutDone
    <3>3. QED
      BY <3>1, <3>2
  <2>2. cutAt' = cutAt
    BY <1>2 DEF Next, Hub, MicThread, Listener, Capture, HandOut, AttachSink, ParkWake,
       WaitForSink, ReadClock, WriteSeed, TakeFrame, SendLive, KeepForLater, MicLeaves,
       Opens, FlushPreroll, BecomesReady, Fails, Redials, LinkBreaks, EndSession, SlideMute,
       vars, lossVars
  <2>3. (FireFrame - Backlog..until - 1) \cap Frames
           \subseteq Held \cup 0..(cutAt - RingFrames - 1)
    BY <2>1 DEF HeldInv, SeedHeld, SeedDue, Overwritten
  <2>5. Held \subseteq Held'
    BY NothingLost DEF HeldInv
  <2>6. /\ (FireFrame - Backlog..until' - 1) \cap Frames
             = (FireFrame - Backlog..until - 1) \cap Frames
        /\ 0..(cutAt' - RingFrames - 1) = 0..(cutAt - RingFrames - 1)
    BY <2>1, <2>2
  <2>7. QED
    BY <2>3, <2>5, <2>6, Zenon
<1>3. QED
  BY <1>1, <1>2

LEMMA HeldInvariant == Spec => []HeldInv
<1>1. SeamInv /\ [Next]_vars => SeamInv'
  BY SeamHub, SeamMic, SeamOthers DEF Next
<1>2. TypeOK /\ [Next]_vars => TypeOK'
  BY TypeStep
<1>3. HeldInv /\ [Next]_vars => HeldInv'
  BY <1>1, <1>2, PlacedStep, SunkStep, SeedStep DEF HeldInv
<1>4. QED
  BY <1>3, HeldInit, PTL DEF Spec

-----------------------------------------------------------------------------
(***************************************************************************)
(* Audio is sent once. A frame outside the seam (Seam: what seed and live  *)
(* audio share) is in one place only and there once, from the hub's queue  *)
(* to the wire. What enters is new: the sink's frame is one no buffer has  *)
(* seen unless a seed ran ahead of it (Old), and the seed shares with the  *)
(* queue only frames from firstSunk on (Live).                             *)
(***************************************************************************)
Seam == IF Seamed THEN firstSunk..until - 1 ELSE {}

OnceBut(q, V) == \A i, j \in 1..Len(q) : i # j /\ q[i] = q[j] => q[i] \in V

Alone(x) ==
  /\ x \in FramesOf(wire) =>
       x \notin FramesOf(flushing) \cup FramesOf(preroll) \cup FramesOf(pending)
                  \cup FramesOf(hubQ) \cup FramesOf(seed)
  /\ x \in FramesOf(flushing) =>
       x \notin FramesOf(preroll) \cup FramesOf(pending) \cup FramesOf(hubQ) \cup FramesOf(seed)
  /\ x \in FramesOf(preroll) => x \notin FramesOf(pending) \cup FramesOf(hubQ) \cup FramesOf(seed)
  /\ x \in FramesOf(pending) => x \notin FramesOf(hubQ) \cup FramesOf(seed)
  /\ x \in FramesOf(hubQ) => x \notin FramesOf(seed)

Starting == micPc \in {"attach", "park", "wait", "clock", "cut", "seed"}
NothingYet ==
  /\ Starting => wire = <<>> /\ flushing = <<>> /\ preroll = <<>> /\ pending = <<>>
  /\ firstSunk = -1 => hubQ = <<>> /\ pending = <<>>

Live ==
  /\ firstSunk # -1 => firstSunk < NextHanded
  /\ \A x \in FramesOf(hubQ) \cup FramesOf(pending) : firstSunk <= x /\ x < NextHanded

Old == \A x \in OnTheWay : x < NextHanded \/ x < until

EachOnce ==
  /\ OnceBut(wire, Seam) /\ OnceBut(flushing, Seam) /\ OnceBut(preroll, Seam)
  /\ OnceBut(pending, Seam) /\ OnceBut(hubQ, Seam) /\ OnceBut(seed, Seam)

OnePlace == \A x : x \in Frames /\ x \notin Seam => Alone(x)

LEMMA OnceParts ==
  ASSUME NEW S, NEW p \in Seq(S), NEW q \in Seq(S), NEW V,
         OnceBut(p, V), OnceBut(q, V), FramesOf(p) \cap FramesOf(q) \subseteq V
  PROVE  OnceBut(p \o q, V)
<1> SUFFICES ASSUME NEW i \in 1..Len(p \o q), NEW j \in 1..Len(p \o q), i # j,
                    (p \o q)[i] = (p \o q)[j]
             PROVE  (p \o q)[i] \in V
  BY DEF OnceBut
<1>1. \A k \in 1..Len(p \o q) : \/ k \in 1..Len(p) /\ (p \o q)[k] = p[k]
                                \/ k - Len(p) \in 1..Len(q) /\ (p \o q)[k] = q[k - Len(p)]
  OBVIOUS
<1>2. CASE i \in 1..Len(p) /\ (p \o q)[i] = p[i] /\ j \in 1..Len(p) /\ (p \o q)[j] = p[j]
  BY <1>2 DEF OnceBut
<1>3. CASE /\ i - Len(p) \in 1..Len(q) /\ (p \o q)[i] = q[i - Len(p)]
           /\ j - Len(p) \in 1..Len(q) /\ (p \o q)[j] = q[j - Len(p)]
  <2>1. i - Len(p) # j - Len(p)
    OBVIOUS
  <2>2. QED
    BY <1>3, <2>1 DEF OnceBut
<1>4. CASE /\ i \in 1..Len(p) /\ (p \o q)[i] = p[i]
           /\ j - Len(p) \in 1..Len(q) /\ (p \o q)[j] = q[j - Len(p)]
  <2>1. (p \o q)[i] \in FramesOf(p) /\ (p \o q)[i] \in FramesOf(q)
    BY <1>4, InFrames
  <2>2. QED
    BY <2>1
<1>5. CASE /\ j \in 1..Len(p) /\ (p \o q)[j] = p[j]
           /\ i - Len(p) \in 1..Len(q) /\ (p \o q)[i] = q[i - Len(p)]
  <2>1. (p \o q)[i] \in FramesOf(p) /\ (p \o q)[i] \in FramesOf(q)
    BY <1>5, InFrames
  <2>2. QED
    BY <2>1
<1>6. QED
  BY <1>1, <1>2, <1>3, <1>4, <1>5

LEMMA OnceHead ==
  ASSUME NEW S, NEW q \in Seq(S), NEW V, q # <<>>, OnceBut(q, V)
  PROVE  /\ OnceBut(Tail(q), V)
         /\ Head(q) \in FramesOf(Tail(q)) => Head(q) \in V
<1>1. /\ Head(q) = q[1] /\ 1 \in 1..Len(q)
      /\ \A i \in 1..Len(Tail(q)) : i + 1 \in 1..Len(q) /\ Tail(q)[i] = q[i + 1] /\ i + 1 # 1
      /\ \A i, j \in 1..Len(Tail(q)) : i # j => i + 1 # j + 1
  OBVIOUS
<1>2. OnceBut(Tail(q), V)
  BY <1>1 DEF OnceBut
<1>3. ASSUME Head(q) \in FramesOf(Tail(q)) PROVE Head(q) \in V
  <2>1. PICK i \in 1..Len(Tail(q)) : Head(q) = Tail(q)[i]
    BY <1>3, InFrames
  <2>2. QED
    BY <1>1, <2>1 DEF OnceBut
<1>4. QED
  BY <1>2, <1>3

LEMMA OnceAppend ==
  ASSUME NEW S, NEW q \in Seq(S), NEW f \in S, NEW V, OnceBut(q, V),
         f \in FramesOf(q) => f \in V
  PROVE  OnceBut(Append(q, f), V)
<1>1. PICK n \in Nat : n = Len(q)
  OBVIOUS
<1>2. /\ Len(Append(q, f)) = n + 1 /\ Append(q, f)[n + 1] = f
      /\ \A i \in 1..n : Append(q, f)[i] = q[i]
      /\ \A i \in 1..n + 1 : i \in 1..n \/ i = n + 1
  BY <1>1
<1>3. \A i \in 1..n : q[i] \in FramesOf(q)
  BY <1>1, InFrames
<1>4. QED
  BY <1>1, <1>2, <1>3 DEF OnceBut

LEMMA OnceWider ==
  ASSUME NEW q, NEW V, NEW W, V \subseteq W, OnceBut(q, V)
  PROVE  OnceBut(q, W)
BY DEF OnceBut

LEMMA OnceEmpty == ASSUME NEW V PROVE OnceBut(<<>>, V)
BY DEF OnceBut

RepeatInv == /\ SeamInv /\ TypeOK /\ Placed
             /\ NothingYet /\ Live /\ Old /\ EachOnce /\ OnePlace

LEMMA RepeatInit == Init => RepeatInv
<1> SUFFICES ASSUME Init PROVE RepeatInv
  OBVIOUS
<1>1. /\ wire = <<>> /\ flushing = <<>> /\ preroll = <<>> /\ pending = <<>> /\ hubQ = <<>>
      /\ seed = <<>> /\ firstSunk = -1 /\ FramesOf(<<>>) = {}
  BY NoFrames DEF Init
<1>2. NothingYet /\ Live /\ Old /\ OnePlace
  BY <1>1 DEF NothingYet, Live, Old, OnTheWay, OnePlace, Alone
<1>3. EachOnce
  BY <1>1, OnceEmpty DEF EachOnce
<1>4. QED
  BY <1>2, <1>3, SeamInit, TypeInit, PlacedInit DEF RepeatInv

\* Once they are set the first live frame and the seed's end stay, and the hub
\* only moves on.
LEMMA SeamGrows ==
  ASSUME SeamInv, [Next]_vars
  PROVE  /\ firstSunk' = firstSunk \/ firstSunk = -1
         /\ until' = until \/ until = -1
         /\ Seam \subseteq Seam'
         /\ NextHanded \in Int /\ NextHanded' \in Int /\ NextHanded <= NextHanded'
         /\ \A x \in Frames : x < until => x < until'
<1>0. frameCount \in Nat /\ firstSunk \in Int /\ until \in Int
  BY DEF SeamInv, CountersTyped
<1>1. firstSunk' = firstSunk \/ firstSunk = -1
  BY DEF Next, Hub, MicThread, Listener, Capture, HandOut, AttachSink, ParkWake, WaitForSink,
     ReadClock, CutSeed, WriteSeed, TakeFrame, SendLive, KeepForLater, MicLeaves, Opens,
     FlushPreroll, BecomesReady, Fails, Redials, LinkBreaks, EndSession, SlideMute, vars,
     hubVars
<1>2. until' = until \/ until = -1
  BY DEF Next, Hub, MicThread, Listener, Capture, HandOut, AttachSink, ParkWake, WaitForSink,
     ReadClock, CutSeed, WriteSeed, TakeFrame, SendLive, KeepForLater, MicLeaves, Opens,
     FlushPreroll, BecomesReady, Fails, Redials, LinkBreaks, EndSession, SlideMute, vars,
     micVars, SeamInv, NoEndYet
<1>3. Seam \subseteq Seam'
  BY <1>1, <1>2 DEF Seam, Seamed
<1>4. NextHanded \in Int /\ NextHanded' \in Int /\ NextHanded <= NextHanded'
  <2>1. \/ frameCount' = frameCount /\ handing' = handing
        \/ frameCount' = frameCount + 1 /\ handing' /\ ~handing
        \/ frameCount' = frameCount /\ ~handing' /\ handing
    BY DEF Next, Hub, MicThread, Listener, Capture, HandOut, AttachSink, ParkWake,
       WaitForSink, ReadClock, CutSeed, WriteSeed, TakeFrame, SendLive, KeepForLater,
       MicLeaves, Opens, FlushPreroll, BecomesReady, Fails, Redials, LinkBreaks, EndSession,
       SlideMute, vars, hubVars
  <2>2. QED
    BY <1>0, <2>1 DEF NextHanded
<1>5. ASSUME NEW x \in Frames, x < until PROVE x < until'
  <2>1. x \in Nat
    BY Sizes DEF Frames
  <2>2. until # -1
    BY <1>0, <1>5, <2>1
  <2>3. QED
    BY <1>2, <1>5, <2>2
<1>6. QED
  BY <1>1, <1>2, <1>3, <1>4, <1>5

\* What the buffers are known to be, in the form the steps need it.
LEMMA RepeatFacts ==
  ASSUME RepeatInv
  PROVE  /\ BuffersTyped
         /\ OnTheWay \subseteq Frames
         /\ FramesOf(wire) \cap FramesOf(flushing) \subseteq Seam
         /\ FramesOf(wire) \cap FramesOf(pending) \subseteq Seam
         /\ FramesOf(preroll) \cap FramesOf(seed) \subseteq Seam
         /\ FramesOf(preroll) \cap FramesOf(pending) \subseteq Seam
         /\ FramesOf(pending) \cap FramesOf(hubQ) \subseteq Seam
<1>1. BuffersTyped
  BY TypeParts DEF RepeatInv
<1>2. OnTheWay \subseteq Frames
  BY <1>1, FramesOfParts DEF BuffersTyped, OnTheWay
<1>3. \A x \in OnTheWay : x \notin Seam => Alone(x)
  BY <1>2 DEF RepeatInv, OnePlace
<1>4. QED
  BY <1>1, <1>2, <1>3, Zenon DEF Alone, OnTheWay

\* A step that brings no frame in keeps Old.
LEMMA OldStep ==
  ASSUME RepeatInv, [Next]_vars, OnTheWay' \subseteq OnTheWay
  PROVE  Old'
<1> SUFFICES ASSUME NEW x \in OnTheWay' PROVE x < NextHanded' \/ x < until'
  BY DEF Old
<1>1. x \in Frames /\ (x < NextHanded \/ x < until)
  BY RepeatFacts DEF RepeatInv, Old
<1>2. x \in Int
  BY <1>1 DEF Frames
<1>3. NextHanded \in Int /\ NextHanded' \in Int /\ NextHanded <= NextHanded'
      /\ (x < until => x < until')
  BY <1>1, SeamGrows DEF RepeatInv
<1>4. QED
  BY <1>1, <1>2, <1>3

\* A step that moves no frame anywhere.
LEMMA RepeatStill ==
  ASSUME RepeatInv, [Next]_vars, UNCHANGED <<wire, flushing, preroll, pending, hubQ, seed>>
  PROVE  Old' /\ EachOnce' /\ OnePlace'
<1>1. Seam \subseteq Seam'
  BY SeamGrows DEF RepeatInv
<1>2. OnTheWay' = OnTheWay
  BY DEF OnTheWay
<1>3. EachOnce'
  BY <1>1, OnceWider DEF RepeatInv, EachOnce
<1>4. OnePlace'
  BY <1>1 DEF RepeatInv, OnePlace, Alone
<1>5. QED
  BY <1>2, <1>3, <1>4, OldStep

\* What the listener takes from preroll, flushes, or drops when the session ends.
LEMMA RepeatFlush ==
  ASSUME RepeatInv, [Next]_vars, UNCHANGED <<pending, hubQ, seed>>,
         \/ UNCHANGED <<wire, flushing>> /\ preroll' = <<>>
         \/ UNCHANGED wire /\ flushing' = preroll /\ preroll' = <<>>
         \/ wire' \in {wire, wire \o flushing} /\ flushing' = <<>> /\ preroll' = preroll
  PROVE  Old' /\ EachOnce' /\ OnePlace'
<1>0. BuffersTyped /\ FramesOf(<<>>) = {}
  BY RepeatFacts, NoFrames
<1>1. Seam \subseteq Seam'
  BY SeamGrows DEF RepeatInv
<1>2. FramesOf(wire \o flushing) = FramesOf(wire) \cup FramesOf(flushing)
  BY <1>0, FramesOfParts DEF BuffersTyped
<1>3. OnceBut(wire \o flushing, Seam)
  BY <1>0, RepeatFacts, OnceParts DEF RepeatInv, EachOnce, BuffersTyped
<1>4. EachOnce'
  <2>1. OnceBut(wire', Seam) /\ OnceBut(flushing', Seam) /\ OnceBut(preroll', Seam)
        /\ OnceBut(pending', Seam) /\ OnceBut(hubQ', Seam) /\ OnceBut(seed', Seam)
    BY <1>3, OnceEmpty DEF RepeatInv, EachOnce
  <2>2. QED
    BY <1>1, <2>1, OnceWider DEF EachOnce
<1>5. \/ /\ FramesOf(wire') = FramesOf(wire) /\ FramesOf(flushing') = FramesOf(flushing)
         /\ FramesOf(preroll') = {}
      \/ /\ FramesOf(wire') = FramesOf(wire) /\ FramesOf(flushing') = FramesOf(preroll)
         /\ FramesOf(preroll') = {}
      \/ /\ FramesOf(wire') \subseteq FramesOf(wire) \cup FramesOf(flushing)
         /\ FramesOf(flushing') = {} /\ FramesOf(preroll') = FramesOf(preroll)
  BY <1>0, <1>2
<1>6. OnTheWay' \subseteq OnTheWay
  BY <1>0, <1>5 DEF OnTheWay
<1>7. OnePlace'
  BY <1>0, <1>1, <1>5 DEF RepeatInv, OnePlace, Alone
<1>8. QED
  BY <1>4, <1>6, <1>7, OldStep

\* The mic thread hands its message or its seed on, to the wire or to preroll.
LEMMA RepeatMessage ==
  ASSUME RepeatInv, [Next]_vars, UNCHANGED <<flushing, hubQ>>,
         \/ /\ wire' \in {wire, wire \o pending} /\ pending' = <<>>
            /\ UNCHANGED <<preroll, seed>>
         \/ /\ preroll' \in {preroll, preroll \o pending} /\ pending' = <<>>
            /\ UNCHANGED <<wire, seed>>
         \/ /\ preroll' \in {preroll, preroll \o seed} /\ seed' = <<>>
            /\ UNCHANGED <<wire, pending>>
  PROVE  Old' /\ EachOnce' /\ OnePlace'
<1>0. BuffersTyped /\ FramesOf(<<>>) = {}
  BY RepeatFacts, NoFrames
<1>1. Seam \subseteq Seam'
  BY SeamGrows DEF RepeatInv
<1>2. /\ FramesOf(wire \o pending) = FramesOf(wire) \cup FramesOf(pending)
      /\ FramesOf(preroll \o pending) = FramesOf(preroll) \cup FramesOf(pending)
      /\ FramesOf(preroll \o seed) = FramesOf(preroll) \cup FramesOf(seed)
  BY <1>0, FramesOfParts DEF BuffersTyped
<1>3. /\ OnceBut(wire \o pending, Seam) /\ OnceBut(preroll \o pending, Seam)
      /\ OnceBut(preroll \o seed, Seam)
  BY <1>0, RepeatFacts, OnceParts DEF RepeatInv, EachOnce, BuffersTyped
<1>4. EachOnce'
  <2>1. OnceBut(wire', Seam) /\ OnceBut(flushing', Seam) /\ OnceBut(preroll', Seam)
        /\ OnceBut(pending', Seam) /\ OnceBut(hubQ', Seam) /\ OnceBut(seed', Seam)
    BY <1>3, OnceEmpty DEF RepeatInv, EachOnce
  <2>2. QED
    BY <1>1, <2>1, OnceWider DEF EachOnce
<1>5. \/ /\ FramesOf(wire') \subseteq FramesOf(wire) \cup FramesOf(pending)
         /\ FramesOf(pending') = {} /\ FramesOf(preroll') = FramesOf(preroll)
         /\ FramesOf(seed') = FramesOf(seed)
      \/ /\ FramesOf(preroll') \subseteq FramesOf(preroll) \cup FramesOf(pending)
         /\ FramesOf(pending') = {} /\ FramesOf(wire') = FramesOf(wire)
         /\ FramesOf(seed') = FramesOf(seed)
      \/ /\ FramesOf(preroll') \subseteq FramesOf(preroll) \cup FramesOf(seed)
         /\ FramesOf(seed') = {} /\ FramesOf(wire') = FramesOf(wire)
         /\ FramesOf(pending') = FramesOf(pending)
  BY <1>0, <1>2
<1>6. OnTheWay' \subseteq OnTheWay
  BY <1>0, <1>5 DEF OnTheWay
<1>7. OnePlace'
  BY <1>0, <1>1, <1>5 DEF RepeatInv, OnePlace, Alone
<1>8. QED
  BY <1>4, <1>6, <1>7, OldStep

\* The mic thread takes a frame from its queue.
LEMMA RepeatTake ==
  ASSUME RepeatInv, TakeFrame
  PROVE  Old' /\ EachOnce' /\ OnePlace'
<1>0. /\ BuffersTyped /\ FramesOf(<<>>) = {} /\ hubQ # <<>> /\ [Next]_vars
      /\ UNCHANGED <<wire, flushing, preroll, seed>> /\ hubQ' = Tail(hubQ)
  BY RepeatFacts, NoFrames DEF TakeFrame, sockVars, Next, MicThread
<1>1. Seam \subseteq Seam'
  BY SeamGrows, <1>0 DEF RepeatInv
<1>2. /\ Head(hubQ) \in Frames /\ OnceBut(Tail(hubQ), Seam)
      /\ Head(hubQ) \in FramesOf(Tail(hubQ)) => Head(hubQ) \in Seam
      /\ FramesOf(hubQ) = FramesOf(Tail(hubQ)) \cup {Head(hubQ)}
  BY <1>0, OnceHead, FramesOfHead DEF RepeatInv, EachOnce, BuffersTyped
<1>3. Head(hubQ) \in FramesOf(pending) => Head(hubQ) \in Seam
  BY <1>2, RepeatFacts
<1>4. /\ OnceBut(Append(pending, Head(hubQ)), Seam)
      /\ FramesOf(Append(pending, Head(hubQ))) = FramesOf(pending) \cup {Head(hubQ)}
  BY <1>0, <1>2, <1>3, OnceAppend, FramesOfAppend DEF RepeatInv, EachOnce, BuffersTyped
<1>5. pending' \in {<<>>, Append(pending, Head(hubQ))}
  BY DEF TakeFrame
<1>6. EachOnce'
  <2>1. OnceBut(wire', Seam) /\ OnceBut(flushing', Seam) /\ OnceBut(preroll', Seam)
        /\ OnceBut(pending', Seam) /\ OnceBut(hubQ', Seam) /\ OnceBut(seed', Seam)
    BY <1>0, <1>2, <1>4, <1>5, OnceEmpty DEF RepeatInv, EachOnce
  <2>2. QED
    BY <1>1, <2>1, OnceWider DEF EachOnce
<1>7. /\ FramesOf(pending') \subseteq FramesOf(pending) \cup {Head(hubQ)}
      /\ Head(hubQ) \in FramesOf(hubQ)
      /\ FramesOf(hubQ') \subseteq FramesOf(hubQ)
      /\ Head(hubQ) \in FramesOf(hubQ') => Head(hubQ) \in Seam
  BY <1>0, <1>2, <1>4, <1>5
<1>8. OnTheWay' \subseteq OnTheWay
  BY <1>0, <1>7 DEF OnTheWay
<1>9. OnePlace'
  BY <1>0, <1>1, <1>7 DEF RepeatInv, OnePlace, Alone
<1>10. QED
  BY <1>0, <1>6, <1>8, <1>9, OldStep

\* A seed meets an empty line: what it shares with the queue is the seam.
LEMMA RepeatCut ==
  ASSUME RepeatInv, CutSeed
  PROVE  Old' /\ EachOnce' /\ OnePlace'
<1>0. /\ BuffersTyped /\ FramesOf(<<>>) = {} /\ [Next]_vars /\ HubTyped
      /\ UNCHANGED <<hubVars, wire, flushing, preroll, pending, hubQ, until>>
      /\ micPc = "cut"
  BY RepeatFacts, NoFrames, TypeParts DEF CutSeed, sockVars, Next, MicThread, RepeatInv
<1>1. Seam \subseteq Seam' /\ NextHanded' = NextHanded
  BY SeamGrows, <1>0 DEF RepeatInv, NextHanded, hubVars
<1>2. /\ seed' \in Seq(Frames) /\ FramesOf(seed') \subseteq SeedFrom..SeedTo - 1
      /\ \A i, j \in 1..Len(seed') : i < j => seed'[i] < seed'[j]
  BY <1>0, SeedCut
<1>3. SeedFrom \in Nat /\ SeedTo \in Int /\ SeedTo <= until /\ until \in Int
  BY <1>0, SeedFrames DEF RepeatInv, SeamInv, CountersTyped
<1>4. \A x \in FramesOf(seed') : x \in Nat /\ x < until /\ x <= until - 1
  BY <1>2, <1>3
<1>5. OnceBut(seed', Seam)
  <2>1. \A i \in 1..Len(seed') : seed'[i] \in Int
    BY <1>2 DEF Frames
  <2>2. \A i, j \in 1..Len(seed') : i # j => i < j \/ j < i
    OBVIOUS
  <2>3. \A i, j \in 1..Len(seed') : i # j => seed'[i] # seed'[j]
    BY <1>2, <2>1, <2>2
  <2>4. QED
    BY <2>3 DEF OnceBut
<1>6. EachOnce'
  <2>1. OnceBut(wire', Seam) /\ OnceBut(flushing', Seam) /\ OnceBut(preroll', Seam)
        /\ OnceBut(pending', Seam) /\ OnceBut(hubQ', Seam) /\ OnceBut(seed', Seam)
    BY <1>0, <1>5 DEF RepeatInv, EachOnce
  <2>2. QED
    BY <1>1, <2>1, OnceWider DEF EachOnce
<1>7. /\ FramesOf(wire) = {} /\ FramesOf(flushing) = {} /\ FramesOf(preroll) = {}
      /\ FramesOf(pending) = {}
  BY <1>0 DEF RepeatInv, NothingYet, Starting
<1>8. FramesOf(hubQ) \cap FramesOf(seed') \subseteq Seam
  <2> SUFFICES ASSUME NEW x \in FramesOf(hubQ), x \in FramesOf(seed') PROVE x \in Seam
    OBVIOUS
  <2>1. firstSunk # -1
    BY <1>0 DEF RepeatInv, NothingYet
  <2>2. firstSunk <= x
    BY DEF RepeatInv, Live
  <2>3. x \in Nat /\ x <= until - 1 /\ firstSunk \in Int
    BY <1>4 DEF RepeatInv, SeamInv, CountersTyped
  <2>4. until # -1
    BY <1>3, <2>3
  <2>5. QED
    BY <1>3, <2>1, <2>2, <2>3, <2>4 DEF Seam, Seamed
<1>9. OnePlace'
  BY <1>0, <1>1, <1>7, <1>8 DEF OnePlace, Alone
<1>10. Old'
  <2> SUFFICES ASSUME NEW x \in OnTheWay' PROVE x < NextHanded' \/ x < until'
    BY DEF Old
  <2>1. CASE x \in FramesOf(seed')
    BY <1>0, <1>4, <2>1
  <2>2. CASE x \notin FramesOf(seed')
    <3>1. x \in OnTheWay
      BY <1>0, <2>2 DEF OnTheWay
    <3>2. QED
      BY <1>0, <1>1, <3>1 DEF RepeatInv, Old
  <2>3. QED
    BY <2>1, <2>2
<1>11. QED
  BY <1>6, <1>9, <1>10

\* A frame handed to the sink is on no buffer yet, unless the seed had it.
LEMMA RepeatHandOut ==
  ASSUME RepeatInv, HandOut, hubQ' = Append(hubQ, frameCount - 1), attached
  PROVE  Old' /\ EachOnce' /\ OnePlace'
<1>0. /\ BuffersTyped /\ HubTyped /\ [Next]_vars /\ handing /\ ~handing'
      /\ UNCHANGED <<wire, flushing, preroll, pending, seed, until, frameCount>>
      /\ firstSunk' = IF firstSunk = -1 THEN frameCount - 1 ELSE firstSunk
  BY RepeatFacts, TypeParts DEF HandOut, sockVars, Next, Hub, RepeatInv
<1>1. Seam \subseteq Seam'
  BY SeamGrows, <1>0 DEF RepeatInv
<1>2. PICK f \in Int : f = frameCount - 1
  BY <1>0 DEF HubTyped
<1>3. f \in Frames /\ NextHanded = f /\ NextHanded' = f + 1
  <2>1. frameCount \in 0..MaxFrames /\ frameCount > 0
    BY <1>0 DEF HubTyped
  <2>2. QED
    BY <1>0, <1>2, <2>1, Sizes DEF Frames, NextHanded
<1>4. f \in OnTheWay => f \in Seam'
  <2> SUFFICES ASSUME f \in OnTheWay PROVE f \in Seam'
    OBVIOUS
  <2>1. f < until /\ f \in Nat /\ until \in Int /\ firstSunk \in Int
    <3>1. f < f \/ f < until
      BY <1>3 DEF RepeatInv, Old
    <3>2. f \in Nat
      BY <1>3, Sizes DEF Frames
    <3>3. QED
      BY <3>1, <3>2 DEF RepeatInv, SeamInv, CountersTyped
  <2>2. firstSunk' \in Int /\ firstSunk' <= f /\ firstSunk' # -1
    <3>1. firstSunk # -1 => firstSunk < f
      BY <1>3 DEF RepeatInv, Live
    <3>2. firstSunk' = IF firstSunk = -1 THEN f ELSE firstSunk
      BY <1>0, <1>2
    <3>3. QED
      BY <2>1, <3>1, <3>2
  <2>3. QED
    BY <1>0, <2>1, <2>2 DEF Seam, Seamed
<1>5. FramesOf(hubQ') = FramesOf(hubQ) \cup {f}
  BY <1>0, <1>2, <1>3, FramesOfAppend DEF BuffersTyped
<1>6. OnceBut(hubQ', Seam')
  <2>1. OnceBut(hubQ, Seam')
    BY <1>1, OnceWider DEF RepeatInv, EachOnce
  <2>2. f \in FramesOf(hubQ) => f \in Seam'
    BY <1>4 DEF OnTheWay
  <2>3. QED
    BY <1>0, <1>2, <1>3, <2>1, <2>2, OnceAppend DEF BuffersTyped
<1>7. EachOnce'
  BY <1>0, <1>1, <1>6, OnceWider DEF RepeatInv, EachOnce
<1>8. OnePlace'
  <2> SUFFICES ASSUME NEW x \in Frames, x \notin Seam' PROVE Alone(x)'
    BY DEF OnePlace
  <2>1. Alone(x) /\ (x = f => x \notin OnTheWay)
    BY <1>1, <1>4 DEF RepeatInv, OnePlace
  <2>2. QED
    <3>1. x \in FramesOf(hubQ') => x \in FramesOf(hubQ) \/ x = f
      BY <1>5, Zenon
    <3>2. /\ FramesOf(wire') = FramesOf(wire) /\ FramesOf(flushing') = FramesOf(flushing)
          /\ FramesOf(preroll') = FramesOf(preroll) /\ FramesOf(pending') = FramesOf(pending)
          /\ FramesOf(seed') = FramesOf(seed)
      BY <1>0, Zenon
    <3>3. CASE x = f
      <4>1. /\ x \notin FramesOf(wire') /\ x \notin FramesOf(flushing')
            /\ x \notin FramesOf(preroll') /\ x \notin FramesOf(pending')
            /\ x \notin FramesOf(seed')
        BY <2>1, <3>2, <3>3, Zenon DEF OnTheWay
      <4>2. QED
        BY <4>1, Zenon DEF Alone
    <3>4. CASE x # f
      BY <2>1, <3>1, <3>2, <3>4 DEF Alone
    <3>5. QED
      BY <3>3, <3>4
<1>9. Old'
  <2> SUFFICES ASSUME NEW x \in OnTheWay' PROVE x < NextHanded' \/ x < until'
    BY DEF Old
  <2>1. x \in OnTheWay \/ x = f
    BY <1>0, <1>5, Zenon DEF OnTheWay
  <2>2. CASE x \in OnTheWay
    <3>1. x \in Frames /\ (x < f \/ x < until)
      BY <1>3, <2>2, RepeatFacts DEF RepeatInv, Old
    <3>2. QED
      BY <1>0, <1>3, <3>1 DEF Frames
  <2>3. CASE x = f
    BY <1>3, <2>3
  <2>4. QED
    BY <2>1, <2>2, <2>3
<1>10. QED
  BY <1>7, <1>8, <1>9

\* Every step keeps frames apart.
LEMMA ApartStep ==
  ASSUME RepeatInv, [Next]_vars
  PROVE  Old' /\ EachOnce' /\ OnePlace'
<1>1. CASE HandOut
  <2>1. CASE hubQ' = Append(hubQ, frameCount - 1) /\ attached
    BY <1>1, <2>1, RepeatHandOut
  <2>2. CASE ~(hubQ' = Append(hubQ, frameCount - 1) /\ attached)
    <3>1. UNCHANGED <<wire, flushing, preroll, pending, hubQ, seed>>
      BY <1>1, <2>2 DEF HandOut, sockVars
    <3>2. QED
      BY <3>1, RepeatStill
  <2>3. QED
    BY <2>1, <2>2
<1>2. CASE CutSeed
  BY <1>2, RepeatCut
<1>3. CASE TakeFrame
  BY <1>3, RepeatTake
<1>4. CASE WriteSeed
  <2>1. UNCHANGED <<flushing, hubQ, wire, pending>> /\ seed' = <<>>
    BY <1>4 DEF WriteSeed, sockVars
  <2>2. preroll' \in {preroll, preroll \o seed}
    BY <1>4 DEF WriteSeed, ToPreroll, Buffer
  <2>3. QED
    BY <2>1, <2>2, RepeatMessage
<1>5. CASE KeepForLater
  <2>1. UNCHANGED <<flushing, hubQ, wire, seed>> /\ pending' = <<>>
    BY <1>5 DEF KeepForLater, sockVars, PendingSent
  <2>2. preroll' \in {preroll, preroll \o pending}
    BY <1>5 DEF KeepForLater, ToPreroll, Buffer
  <2>3. QED
    BY <2>1, <2>2, RepeatMessage
<1>6. CASE SendLive
  <2>1. UNCHANGED <<flushing, hubQ, preroll, seed>> /\ pending' = <<>>
    BY <1>6 DEF SendLive, sockVars, PendingSent
  <2>2. wire' \in {wire, wire \o pending}
    BY <1>6 DEF SendLive, ToServer
  <2>3. QED
    BY <2>1, <2>2, RepeatMessage
<1>7. CASE Opens
  <2>1. UNCHANGED <<pending, hubQ, seed, wire>> /\ flushing' = preroll /\ preroll' = <<>>
    BY <1>7 DEF Opens, micVars, PrerollFlushed
  <2>2. QED
    BY <2>1, RepeatFlush
<1>8. CASE FlushPreroll
  <2>1. UNCHANGED <<pending, hubQ, seed, preroll>> /\ flushing' = <<>>
    BY <1>8 DEF FlushPreroll, micVars
  <2>2. wire' \in {wire, wire \o flushing}
    BY <1>8 DEF FlushPreroll, ToServer
  <2>3. QED
    BY <2>1, <2>2, RepeatFlush
<1>9. CASE Fails \/ EndSession
  <2>1. UNCHANGED <<pending, hubQ, seed, wire, flushing>>
    BY <1>9 DEF Fails, EndSession, micVars
  <2>2. preroll' = <<>> \/ preroll' = preroll
    BY <1>9 DEF Fails, EndSession, Stop
  <2>3. QED
    BY <2>1, <2>2, RepeatFlush, RepeatStill
<1>10. CASE \/ Capture \/ AttachSink \/ ParkWake \/ WaitForSink \/ ReadClock \/ MicLeaves
            \/ BecomesReady \/ Redials \/ LinkBreaks \/ SlideMute \/ UNCHANGED vars
  <2>1. UNCHANGED <<wire, flushing, preroll, pending, hubQ, seed>>
    BY <1>10 DEF Capture, AttachSink, ParkWake, WaitForSink, ReadClock, MicLeaves,
       BecomesReady, Redials, LinkBreaks, SlideMute, vars, micVars, sockVars
  <2>2. QED
    BY <2>1, RepeatStill
<1>11. QED
  BY <1>1, <1>2, <1>3, <1>4, <1>5, <1>6, <1>7, <1>8, <1>9, <1>10
     DEF Next, Hub, MicThread, Listener

\* Until the seed is in preroll nothing else is on its way but what the hub queues,
\* and that is nothing before the sink's first frame.
LEMMA NothingYetStep ==
  ASSUME RepeatInv, [Next]_vars
  PROVE  NothingYet'
<1>0. <<>> \o <<>> = <<>> /\ Tail(<<>>) = <<>>
  OBVIOUS
<1> USE DEF RepeatInv, NothingYet, Starting
<1>1. CASE Capture
  BY <1>1 DEF Capture, micVars, sockVars
<1>2. CASE HandOut
  <2>1. UNCHANGED <<micPc, wire, flushing, preroll, pending>>
    BY <1>2 DEF HandOut, sockVars
  <2>2. firstSunk' = -1 => firstSunk = -1 /\ hubQ' = hubQ
    <3>1. frameCount - 1 # -1
      BY <1>2 DEF HandOut, SeamInv, CountersTyped
    <3>2. QED
      BY <1>2, <3>1 DEF HandOut
  <2>3. QED
    BY <2>1, <2>2
<1>3. CASE AttachSink \/ ParkWake \/ WaitForSink \/ ReadClock \/ CutSeed \/ MicLeaves
  <2>1. UNCHANGED <<firstSunk, wire, flushing, preroll, pending, hubQ>>
    BY <1>3 DEF AttachSink, ParkWake, WaitForSink, ReadClock, CutSeed, MicLeaves, sockVars,
       hubVars
  <2>2. Starting' => Starting
    BY <1>3 DEF AttachSink, ParkWake, WaitForSink, ReadClock, CutSeed, MicLeaves
  <2>3. QED
    BY <2>1, <2>2
<1>4. CASE WriteSeed \/ TakeFrame \/ SendLive \/ KeepForLater
  <2>1. ~Starting' /\ firstSunk' = firstSunk
    BY <1>4 DEF WriteSeed, TakeFrame, SendLive, KeepForLater, hubVars
  <2>2. firstSunk = -1 => hubQ' = hubQ /\ pending' = <<>>
    BY <1>4 DEF WriteSeed, TakeFrame, SendLive, KeepForLater, PendingSent
  <2>3. QED
    BY <2>1, <2>2
<1>5. CASE Listener \/ LinkBreaks \/ EndSession \/ SlideMute \/ UNCHANGED vars
  <2>1. UNCHANGED <<micPc, firstSunk, pending, hubQ>>
    BY <1>5 DEF Listener, Opens, FlushPreroll, BecomesReady, Fails, Redials, LinkBreaks,
       EndSession, SlideMute, vars, hubVars, micVars
  <2>2. preroll' = preroll \/ preroll' = <<>>
    BY <1>5 DEF Listener, Opens, FlushPreroll, BecomesReady, Fails, Redials, LinkBreaks,
       EndSession, SlideMute, vars, Stop, PrerollFlushed
  <2>3. flushing' = flushing \/ flushing' = <<>> \/ flushing' = preroll
    BY <1>5 DEF Listener, Opens, FlushPreroll, BecomesReady, Fails, Redials, LinkBreaks,
       EndSession, SlideMute, vars, sockVars
  <2>4. wire' = wire \/ wire' = wire \o flushing
    BY <1>5 DEF Listener, Opens, FlushPreroll, BecomesReady, Fails, Redials, LinkBreaks,
       EndSession, SlideMute, vars, ToServer
  <2>5. QED
    BY <1>0, <2>1, <2>2, <2>3, <2>4
<1>6. QED
  BY <1>1, <1>2, <1>3, <1>4, <1>5 DEF Next, Hub, MicThread

\* The queue and the message hold what came through the sink.
LEMMA LiveStep ==
  ASSUME RepeatInv, [Next]_vars
  PROVE  Live'
<1>0. /\ NextHanded \in Int /\ NextHanded' \in Int /\ NextHanded <= NextHanded'
      /\ (firstSunk' = firstSunk \/ firstSunk = -1) /\ firstSunk \in Int
      /\ BuffersTyped /\ FramesOf(<<>>) = {}
  BY SeamGrows, RepeatFacts, NoFrames DEF RepeatInv, SeamInv, CountersTyped
<1>1. CASE HandOut /\ attached
  <2>1. PICK f \in Int : f = frameCount - 1
    BY DEF RepeatInv, SeamInv, CountersTyped
  <2>2. f \in Frames /\ f \in Nat /\ NextHanded = f /\ NextHanded' = f + 1
    <3>1. frameCount \in 0..MaxFrames /\ frameCount > 0 /\ handing /\ ~handing'
          /\ frameCount' = frameCount
      BY <1>1, TypeParts DEF RepeatInv, HandOut, HubTyped
    <3>2. QED
      BY <2>1, <3>1, Sizes DEF Frames, NextHanded
  <2>3. firstSunk' = IF firstSunk = -1 THEN f ELSE firstSunk
    BY <1>1, <2>1 DEF HandOut
  <2>4. firstSunk # -1 => firstSunk < f
    BY <2>2 DEF RepeatInv, Live
  <2>5. firstSunk' \in Int /\ firstSunk' <= f /\ firstSunk' < f + 1
    BY <1>0, <2>2, <2>3, <2>4
  <2>6. FramesOf(Append(hubQ, f)) = FramesOf(hubQ) \cup {f}
    BY <1>0, <2>2, FramesOfAppend DEF BuffersTyped
  <2>7. hubQ' = Append(hubQ, f) \/ hubQ' = hubQ
    BY <1>1, <2>1 DEF HandOut
  <2>8. pending' = pending
    BY <1>1 DEF HandOut
  <2>9. ASSUME NEW x \in FramesOf(hubQ') \cup FramesOf(pending')
        PROVE  firstSunk' <= x /\ x < NextHanded'
    <3>1. x = f \/ x \in FramesOf(hubQ) \cup FramesOf(pending)
      BY <2>6, <2>7, <2>8
    <3>2. CASE x = f
      BY <2>2, <2>5, <3>2
    <3>3. CASE x \in FramesOf(hubQ) \cup FramesOf(pending)
      <4>1. firstSunk <= x /\ x < f
        BY <2>2, <3>3 DEF RepeatInv, Live
      <4>2. firstSunk # -1
        BY <1>0, <3>3 DEF RepeatInv, NothingYet
      <4>3. x \in Frames
        BY <1>0, <3>3, FramesOfParts DEF BuffersTyped
      <4>4. x \in Int
        BY <4>3 DEF Frames
      <4>5. QED
        BY <2>2, <2>3, <4>1, <4>2, <4>4
    <3>4. QED
      BY <3>1, <3>2, <3>3
  <2>10. QED
    BY <2>2, <2>5, <2>9 DEF Live
<1>2. CASE ~(HandOut /\ attached)
  <2>1. firstSunk' = firstSunk
    BY <1>2 DEF Next, Hub, MicThread, Listener, Capture, HandOut, AttachSink, ParkWake,
       WaitForSink, ReadClock, CutSeed, WriteSeed, TakeFrame, SendLive, KeepForLater,
       MicLeaves, Opens, FlushPreroll, BecomesReady, Fails, Redials, LinkBreaks, EndSession,
       SlideMute, vars, hubVars
  <2>2. FramesOf(hubQ') \cup FramesOf(pending') \subseteq FramesOf(hubQ) \cup FramesOf(pending)
    <3>1. CASE TakeFrame
      <4>1. /\ Head(hubQ) \in Frames /\ hubQ' = Tail(hubQ)
            /\ FramesOf(hubQ) = FramesOf(Tail(hubQ)) \cup {Head(hubQ)}
        BY <1>0, <3>1, FramesOfHead DEF TakeFrame, BuffersTyped
      <4>2. FramesOf(Append(pending, Head(hubQ))) = FramesOf(pending) \cup {Head(hubQ)}
        <5>1. pending \in Seq(Frames)
          BY <1>0 DEF BuffersTyped
        <5>2. QED
          BY <4>1, <5>1, FramesOfAppend
      <4>3. pending' = <<>> \/ pending' = Append(pending, Head(hubQ))
        BY <3>1 DEF TakeFrame
      <4>4. QED
        BY <1>0, <4>1, <4>2, <4>3
    <3>2. CASE ~TakeFrame
      <4>1. hubQ' = hubQ
        BY <1>2, <3>2 DEF Next, Hub, MicThread, Listener, Capture, HandOut, AttachSink,
           ParkWake, WaitForSink, ReadClock, CutSeed, WriteSeed, SendLive, KeepForLater,
           MicLeaves, Opens, FlushPreroll, BecomesReady, Fails, Redials, LinkBreaks,
           EndSession, SlideMute, vars, micVars
      <4>2. pending' = pending \/ pending' = <<>>
        BY <1>2, <3>2 DEF Next, Hub, MicThread, Listener, Capture, HandOut, AttachSink,
           ParkWake, WaitForSink, ReadClock, CutSeed, WriteSeed, SendLive, KeepForLater,
           MicLeaves, Opens, FlushPreroll, BecomesReady, Fails, Redials, LinkBreaks,
           EndSession, SlideMute, vars, micVars, PendingSent
      <4>3. QED
        BY <1>0, <4>1, <4>2
    <3>3. QED
      BY <3>1, <3>2
  <2>3. FramesOf(hubQ) \cup FramesOf(pending) \subseteq Frames
    BY <1>0, FramesOfParts DEF BuffersTyped
  <2>4. ASSUME NEW x \in FramesOf(hubQ') \cup FramesOf(pending')
        PROVE  firstSunk' <= x /\ x < NextHanded'
    <3>1. x \in Int /\ firstSunk <= x /\ x < NextHanded
      BY <2>2, <2>3 DEF RepeatInv, Live, Frames
    <3>2. QED
      BY <1>0, <2>1, <3>1
  <2>5. firstSunk' # -1 => firstSunk' < NextHanded'
    <3>1. firstSunk # -1 => firstSunk < NextHanded
      BY DEF RepeatInv, Live
    <3>2. QED
      BY <1>0, <2>1, <3>1
  <2>6. QED
    BY <2>4, <2>5 DEF Live
<1>3. QED
  BY <1>1, <1>2

LEMMA RepeatStep == RepeatInv /\ [Next]_vars => RepeatInv'
<1> SUFFICES ASSUME RepeatInv, [Next]_vars PROVE RepeatInv'
  OBVIOUS
<1>1. SeamInv' /\ TypeOK' /\ Placed'
  BY SeamHub, SeamMic, SeamOthers, TypeStep, PlacedStep DEF Next, RepeatInv
<1>2. NothingYet' /\ Live'
  BY NothingYetStep, LiveStep
<1>3. Old' /\ EachOnce' /\ OnePlace'
  BY ApartStep
<1>4. QED
  BY <1>1, <1>2, <1>3 DEF RepeatInv

LEMMA RepeatInvariant == Spec => []RepeatInv
BY RepeatInit, RepeatStep, PTL DEF Spec

\* No flush, reconnect or race of the mic thread and the listener sends a frame
\* again, but for what seed and live audio share. That is the sink's first frame,
\* which is always sent twice unless it was trimmed, and more only if the seed had
\* to end at the hub's clock.
THEOREM SentOnce == Spec => []OnlySeamRepeats
<1>1. RepeatInv => OnlySeamRepeats
  <2> SUFFICES ASSUME RepeatInv, NEW i \in 1..Len(wire), NEW j \in 1..Len(wire), i < j,
                      wire[i] = wire[j]
               PROVE  wire[i] = firstSunk \/ (until > sinkFirst /\ wire[i] \in firstSunk..until - 1)
    BY DEF OnlySeamRepeats
  <2>1. i # j
    OBVIOUS
  <2>2. wire[i] \in Seam
    BY <2>1 DEF RepeatInv, EachOnce, OnceBut
  <2>3. PICK x : x = wire[i]
    OBVIOUS
  <2>4. x \in firstSunk..until - 1 /\ firstSunk # -1
    BY <2>2, <2>3 DEF Seam, Seamed
  <2>5. sinkFirst = firstSunk + 1 /\ firstSunk \in Int /\ until \in Int
    BY <2>4 DEF RepeatInv, SeamInv, SinkSees, CountersTyped
  <2>6. until > sinkFirst \/ x = firstSunk
    BY <2>4, <2>5
  <2>7. QED
    BY <2>3, <2>4, <2>6
<1>2. QED
  BY <1>1, RepeatInvariant, PTL

-----------------------------------------------------------------------------
(***************************************************************************)
(* The server hears the room in order. Not only neighbours: any two frames *)
(* on their way stand in order, all along the line from the wire over what *)
(* is flushed, preroll, seed and message to the hub's queue (Line). Each   *)
(* step moves the line on, and none overtakes: live messages are sent only *)
(* when the flush is over (ReadyOnlyOpen), and what a message left in      *)
(* preroll after that is out of the line (Waiting) until a link breaks.    *)
(***************************************************************************)
SeamOrder ==
  {p \in Frames \X Frames :
     p[1] < p[2] \/ (Seamed /\ p[1] < until /\ firstSunk <= p[2])}

InLine(q, R) == \A i, j \in 1..Len(q) : i < j => <<q[i], q[j]>> \in R
Before(A, B, R) == \A x \in A, y \in B : <<x, y>> \in R

Line(w, f, k, s, m, q, R) ==
  /\ InLine(w, R) /\ InLine(f, R) /\ InLine(k, R)
  /\ InLine(s, R) /\ InLine(m, R) /\ InLine(q, R)
  /\ Before(FramesOf(w), FramesOf(f) \cup FramesOf(k) \cup FramesOf(s) \cup FramesOf(m)
                           \cup FramesOf(q), R)
  /\ Before(FramesOf(f), FramesOf(k) \cup FramesOf(s) \cup FramesOf(m) \cup FramesOf(q), R)
  /\ Before(FramesOf(k), FramesOf(s) \cup FramesOf(m) \cup FramesOf(q), R)
  /\ Before(FramesOf(s), FramesOf(m) \cup FramesOf(q), R)
  /\ Before(FramesOf(m), FramesOf(q), R)

LEMMA LineParts ==
  ASSUME NEW S, NEW p \in Seq(S), NEW q \in Seq(S), NEW R,
         InLine(p, R), InLine(q, R), Before(FramesOf(p), FramesOf(q), R)
  PROVE  InLine(p \o q, R)
<1> SUFFICES ASSUME NEW i \in 1..Len(p \o q), NEW j \in 1..Len(p \o q), i < j
             PROVE  <<(p \o q)[i], (p \o q)[j]>> \in R
  BY DEF InLine
<1>0. Len(p) \in Nat /\ Len(q) \in Nat /\ Len(p \o q) = Len(p) + Len(q)
  OBVIOUS
<1>1. \A k \in 1..Len(p \o q) : \/ k \in 1..Len(p) /\ (p \o q)[k] = p[k]
                                \/ /\ k - Len(p) \in 1..Len(q) /\ k > Len(p)
                                   /\ (p \o q)[k] = q[k - Len(p)]
  <2> SUFFICES ASSUME NEW k \in 1..Len(p \o q)
               PROVE  \/ k \in 1..Len(p) /\ (p \o q)[k] = p[k]
                      \/ /\ k - Len(p) \in 1..Len(q) /\ k > Len(p)
                         /\ (p \o q)[k] = q[k - Len(p)]
    OBVIOUS
  <2>1. CASE k <= Len(p)
    <3>1. k \in 1..Len(p)
      BY <1>0, <2>1
    <3>2. (p \o q)[k] = p[k]
      BY <3>1
    <3>3. QED
      BY <3>1, <3>2
  <2>2. CASE k > Len(p)
    <3>1. k - Len(p) \in 1..Len(q)
      BY <1>0, <2>2
    <3>2. (p \o q)[k] = q[k - Len(p)]
      BY <1>0, <2>2
    <3>3. QED
      BY <2>2, <3>1, <3>2
  <2>3. QED
    BY <1>0, <2>1, <2>2
<1>2. CASE i \in 1..Len(p) /\ (p \o q)[i] = p[i] /\ j \in 1..Len(p) /\ (p \o q)[j] = p[j]
  BY <1>2 DEF InLine
<1>3. CASE /\ i - Len(p) \in 1..Len(q) /\ (p \o q)[i] = q[i - Len(p)]
           /\ j - Len(p) \in 1..Len(q) /\ (p \o q)[j] = q[j - Len(p)]
  <2>1. i - Len(p) < j - Len(p)
    OBVIOUS
  <2>2. QED
    BY <1>3, <2>1 DEF InLine
<1>4. CASE /\ i \in 1..Len(p) /\ (p \o q)[i] = p[i]
           /\ j - Len(p) \in 1..Len(q) /\ (p \o q)[j] = q[j - Len(p)]
  <2>1. (p \o q)[i] \in FramesOf(p) /\ (p \o q)[j] \in FramesOf(q)
    BY <1>4, InFrames
  <2>2. QED
    BY <2>1 DEF Before
<1>5. ~(j \in 1..Len(p) /\ i > Len(p))
  OBVIOUS
<1>6. QED
  BY <1>1, <1>2, <1>3, <1>4, <1>5

LEMMA LineHead ==
  ASSUME NEW S, NEW q \in Seq(S), NEW R, q # <<>>, InLine(q, R)
  PROVE  /\ InLine(Tail(q), R)
         /\ Before({Head(q)}, FramesOf(Tail(q)), R)
<1>1. /\ Head(q) = q[1] /\ 1 \in 1..Len(q)
      /\ \A i \in 1..Len(Tail(q)) : i + 1 \in 1..Len(q) /\ Tail(q)[i] = q[i + 1] /\ 1 < i + 1
      /\ \A i, j \in 1..Len(Tail(q)) : i < j => i + 1 < j + 1
  OBVIOUS
<1>2. InLine(Tail(q), R)
  BY <1>1 DEF InLine
<1>3. ASSUME NEW y \in FramesOf(Tail(q)) PROVE <<Head(q), y>> \in R
  <2>1. PICK i \in 1..Len(Tail(q)) : y = Tail(q)[i]
    BY <1>3, InFrames
  <2>2. QED
    BY <1>1, <2>1 DEF InLine
<1>4. QED
  BY <1>2, <1>3 DEF Before

LEMMA LineAppend ==
  ASSUME NEW S, NEW q \in Seq(S), NEW f \in S, NEW R, InLine(q, R),
         Before(FramesOf(q), {f}, R)
  PROVE  InLine(Append(q, f), R)
<1>1. PICK n \in Nat : n = Len(q)
  OBVIOUS
<1>2. /\ Len(Append(q, f)) = n + 1 /\ Append(q, f)[n + 1] = f
      /\ \A i \in 1..n : Append(q, f)[i] = q[i]
      /\ \A i \in 1..n + 1 : i \in 1..n \/ i = n + 1
      /\ \A i, j \in 1..n + 1 : i < j => i \in 1..n
  BY <1>1
<1>3. \A i \in 1..n : <<q[i], f>> \in R
  BY <1>1, InFrames DEF Before
<1>4. QED
  BY <1>1, <1>2, <1>3 DEF InLine

LEMMA LineEmpty == ASSUME NEW R PROVE InLine(<<>>, R) /\ FramesOf(<<>>) = {}
BY NoFrames DEF InLine

\* A wider order keeps the line.
LEMMA LineWider ==
  ASSUME NEW w, NEW f, NEW k, NEW s, NEW m, NEW q, NEW R, NEW T, R \subseteq T,
         Line(w, f, k, s, m, q, R)
  PROVE  Line(w, f, k, s, m, q, T)
BY DEF Line, InLine, Before

\* A part of the line may go.
LEMMA LineDrops ==
  ASSUME NEW w, NEW f, NEW k, NEW s, NEW m, NEW q, NEW R, Line(w, f, k, s, m, q, R)
  PROVE  /\ Line(w, <<>>, k, s, m, q, R) /\ Line(w, f, <<>>, s, m, q, R)
         /\ Line(w, f, k, <<>>, m, q, R) /\ Line(w, f, k, s, <<>>, q, R)
<1>1. InLine(<<>>, R) /\ FramesOf(<<>>) = {}
  BY LineEmpty
<1>2. QED
  BY <1>1 DEF Line, Before

\* What is flushed reaches the wire.
LEMMA LineFlush ==
  ASSUME NEW w \in Seq(Frames), NEW f \in Seq(Frames), NEW k, NEW s, NEW m, NEW q, NEW R,
         Line(w, f, k, s, m, q, R)
  PROVE  Line(w \o f, <<>>, k, s, m, q, R)
<1>1. InLine(<<>>, R) /\ FramesOf(<<>>) = {}
  BY LineEmpty
<1>2. FramesOf(w \o f) = FramesOf(w) \cup FramesOf(f)
  BY FramesOfParts
<1>3. Before(FramesOf(w), FramesOf(f), R)
  BY DEF Line, Before
<1>4. InLine(w \o f, R)
  BY <1>3, LineParts DEF Line
<1>5. QED
  BY <1>1, <1>2, <1>4 DEF Line, Before

\* The listener takes preroll, when nothing is being flushed.
LEMMA LineOpens ==
  ASSUME NEW w, NEW k, NEW s, NEW m, NEW q, NEW R, Line(w, <<>>, k, s, m, q, R)
  PROVE  Line(w, k, <<>>, s, m, q, R)
<1>1. InLine(<<>>, R) /\ FramesOf(<<>>) = {}
  BY LineEmpty
<1>2. QED
  BY <1>1 DEF Line, Before

\* The seed goes behind preroll.
LEMMA LineSeed ==
  ASSUME NEW w, NEW f, NEW k \in Seq(Frames), NEW s \in Seq(Frames), NEW m, NEW q, NEW R,
         Line(w, f, k, s, m, q, R)
  PROVE  Line(w, f, k \o s, <<>>, m, q, R)
<1>1. InLine(<<>>, R) /\ FramesOf(<<>>) = {}
  BY LineEmpty
<1>2. FramesOf(k \o s) = FramesOf(k) \cup FramesOf(s)
  BY FramesOfParts
<1>3. Before(FramesOf(k), FramesOf(s), R)
  BY DEF Line, Before
<1>4. InLine(k \o s, R)
  BY <1>3, LineParts DEF Line
<1>5. QED
  BY <1>1, <1>2, <1>4 DEF Line, Before

\* A message goes behind preroll, when there is no seed any more.
LEMMA LineKept ==
  ASSUME NEW w, NEW f, NEW k \in Seq(Frames), NEW m \in Seq(Frames), NEW q, NEW R,
         Line(w, f, k, <<>>, m, q, R)
  PROVE  Line(w, f, k \o m, <<>>, <<>>, q, R)
<1>1. InLine(<<>>, R) /\ FramesOf(<<>>) = {}
  BY LineEmpty
<1>2. FramesOf(k \o m) = FramesOf(k) \cup FramesOf(m)
  BY FramesOfParts
<1>3. Before(FramesOf(k), FramesOf(m), R)
  BY DEF Line, Before
<1>4. InLine(k \o m, R)
  BY <1>3, LineParts DEF Line
<1>5. QED
  BY <1>1, <1>2, <1>4 DEF Line, Before

\* A message is sent live, when nothing is in front of it.
LEMMA LineSent ==
  ASSUME NEW w \in Seq(Frames), NEW m \in Seq(Frames), NEW q, NEW R,
         Line(w, <<>>, <<>>, <<>>, m, q, R)
  PROVE  Line(w \o m, <<>>, <<>>, <<>>, <<>>, q, R)
<1>1. InLine(<<>>, R) /\ FramesOf(<<>>) = {}
  BY LineEmpty
<1>2. FramesOf(w \o m) = FramesOf(w) \cup FramesOf(m)
  BY FramesOfParts
<1>3. Before(FramesOf(w), FramesOf(m), R)
  BY DEF Line, Before
<1>4. InLine(w \o m, R)
  BY <1>3, LineParts DEF Line
<1>5. QED
  BY <1>1, <1>2, <1>4 DEF Line, Before

\* The message grows by the head of the queue.
LEMMA LineTaken ==
  ASSUME NEW w, NEW f, NEW k, NEW s, NEW m \in Seq(Frames), NEW q \in Seq(Frames), NEW R,
         q # <<>>, Line(w, f, k, s, m, q, R)
  PROVE  /\ Line(w, f, k, s, Append(m, Head(q)), Tail(q), R)
         /\ Line(w, f, k, s, <<>>, Tail(q), R)
<1>1. InLine(<<>>, R) /\ FramesOf(<<>>) = {}
  BY LineEmpty
<1>2. Head(q) \in Frames /\ FramesOf(q) = FramesOf(Tail(q)) \cup {Head(q)}
  BY FramesOfHead
<1>3. FramesOf(Append(m, Head(q))) = FramesOf(m) \cup {Head(q)}
  BY <1>2, FramesOfAppend
<1>4. InLine(Tail(q), R) /\ Before({Head(q)}, FramesOf(Tail(q)), R)
  BY LineHead DEF Line
<1>5. Before(FramesOf(m), {Head(q)}, R)
  BY <1>2 DEF Line, Before
<1>6. InLine(Append(m, Head(q)), R)
  BY <1>2, <1>5, LineAppend DEF Line
<1>7. QED
  BY <1>1, <1>2, <1>3, <1>4, <1>6 DEF Line, Before

\* A frame queues up behind all the others.
LEMMA LineQueued ==
  ASSUME NEW w, NEW f, NEW k, NEW s, NEW m, NEW q \in Seq(Frames), NEW R, NEW x \in Frames,
         Line(w, f, k, s, m, q, R),
         Before(FramesOf(w) \cup FramesOf(f) \cup FramesOf(k) \cup FramesOf(s)
                  \cup FramesOf(m) \cup FramesOf(q), {x}, R)
  PROVE  Line(w, f, k, s, m, Append(q, x), R)
<1>1. FramesOf(Append(q, x)) = FramesOf(q) \cup {x}
  BY FramesOfAppend
<1>2. Before(FramesOf(q), {x}, R)
  BY DEF Before
<1>3. InLine(Append(q, x), R)
  BY <1>2, LineAppend DEF Line
<1>4. QED
  BY <1>1, <1>3 DEF Line, Before

Flushed == sock \in {"flushed", "open"}
Waiting == IF Flushed THEN <<>> ELSE preroll

ReadyOnlyOpen == /\ wsReady \/ micPc = "send" => sock = "open"
                 /\ ~Flushed => wire = <<>>
                 /\ Flushed \/ sock = "flush" => ~running \/ link = "up"

OrderInv == breaks = 0 => /\ ReadyOnlyOpen
                          /\ Line(wire, flushing, Waiting, seed, pending, hubQ, SeamOrder)

LEMMA OrderInit == Init => OrderInv
<1> SUFFICES ASSUME Init PROVE OrderInv
  OBVIOUS
<1>1. /\ wire = <<>> /\ flushing = <<>> /\ preroll = <<>> /\ pending = <<>> /\ hubQ = <<>>
      /\ seed = <<>> /\ Waiting = <<>>
  BY DEF Init, Waiting
<1>2. InLine(<<>>, SeamOrder) /\ FramesOf(<<>>) = {}
  BY LineEmpty
<1>3. Line(<<>>, <<>>, <<>>, <<>>, <<>>, <<>>, SeamOrder)
  BY <1>2 DEF Line, Before
<1>4. ReadyOnlyOpen
  BY DEF Init, ReadyOnlyOpen, Flushed
<1>5. QED
  BY <1>1, <1>3, <1>4 DEF OrderInv

LEMMA OrderGrows ==
  ASSUME SeamInv, [Next]_vars
  PROVE  SeamOrder \subseteq SeamOrder'
<1>1. Seamed => UNCHANGED <<firstSunk, until>>
  BY SeamGrows DEF Seamed
<1>2. Seamed => Seamed'
  BY <1>1 DEF Seamed
<1>3. QED
  BY <1>1, <1>2 DEF SeamOrder

LEMMA FirstLink ==
  ASSUME TypeOK, [Next]_vars, breaks' = 0
  PROVE  breaks = 0 /\ ~LinkBreaks
<1>1. breaks \in Nat
  BY Sizes DEF TypeOK
<1>2. breaks' = breaks \/ LinkBreaks
  BY DEF Next, Hub, MicThread, Listener, Capture, HandOut, AttachSink, ParkWake, WaitForSink,
     ReadClock, CutSeed, WriteSeed, TakeFrame, SendLive, KeepForLater, MicLeaves, Opens,
     FlushPreroll, BecomesReady, Fails, Redials, EndSession, SlideMute, vars, sockVars
<1>3. LinkBreaks => breaks' = breaks + 1
  BY DEF LinkBreaks
<1>4. QED
  BY <1>1, <1>2, <1>3

\* Until the link breaks, only what opens the socket lets the mic thread send.
LEMMA ReadyStep ==
  ASSUME ReadyOnlyOpen, [Next]_vars, ~LinkBreaks
  PROVE  ReadyOnlyOpen'
<1> USE DEF ReadyOnlyOpen, Flushed
<1>1. CASE Hub
  <2>1. UNCHANGED <<wsReady, micPc, sock, wire, running, link>>
    BY <1>1 DEF Hub, Capture, HandOut, micVars, sockVars
  <2>2. QED
    BY <2>1
<1>2. CASE MicThread
  <2>1. UNCHANGED <<wsReady, sock, running, link>>
    BY <1>2 DEF MicThread, AttachSink, ParkWake, WaitForSink, ReadClock, CutSeed, WriteSeed,
       TakeFrame, SendLive, KeepForLater, MicLeaves, sockVars
  <2>2. wire' = wire \/ micPc = "send"
    BY <1>2 DEF MicThread, AttachSink, ParkWake, WaitForSink, ReadClock, CutSeed, WriteSeed,
       TakeFrame, SendLive, KeepForLater, MicLeaves
  <2>3. micPc' = "send" => wsReady \/ micPc = "send"
    BY <1>2 DEF MicThread, AttachSink, ParkWake, WaitForSink, ReadClock, CutSeed, WriteSeed,
       TakeFrame, SendLive, KeepForLater, MicLeaves
  <2>4. QED
    BY <2>1, <2>2, <2>3
<1>3. CASE Opens
  BY <1>3 DEF Opens, micVars, ReadyWhileFlushing
<1>4. CASE FlushPreroll
  BY <1>4 DEF FlushPreroll, micVars
<1>5. CASE BecomesReady
  BY <1>5 DEF BecomesReady, micVars
<1>6. CASE Fails
  <2>1. sock = "dialing" /\ UNCHANGED <<micPc, wire>> /\ sock' \in {"failed", "closed"}
        /\ ~wsReady'
    BY <1>6 DEF Fails, micVars, Stop
  <2>2. QED
    BY <2>1
<1>7. CASE Redials
  BY <1>7 DEF Redials, micVars
<1>8. CASE EndSession \/ SlideMute \/ UNCHANGED vars
  <2>1. UNCHANGED <<micPc, sock, wire>> /\ (wsReady' => wsReady)
        /\ (running' => running /\ link' = link)
    BY <1>8 DEF EndSession, SlideMute, Stop, vars, micVars, sockVars
  <2>2. QED
    BY <2>1
<1>9. QED
  BY <1>1, <1>2, <1>3, <1>4, <1>5, <1>6, <1>7, <1>8 DEF Next, Listener

\* A frame handed to the sink comes after all that is on its way.
LEMMA QueuedLast ==
  ASSUME RepeatInv, HandOut, attached
  PROVE  /\ frameCount - 1 \in Frames
         /\ \A x \in OnTheWay : <<x, frameCount - 1>> \in SeamOrder'
<1>0. /\ HubTyped /\ handing /\ firstSunk \in Int /\ until \in Int
      /\ UNCHANGED <<until, frameCount>>
      /\ firstSunk' = IF firstSunk = -1 THEN frameCount - 1 ELSE firstSunk
  BY TypeParts DEF HandOut, RepeatInv, SeamInv, CountersTyped
<1>1. PICK f \in Int : f = frameCount - 1
  BY <1>0 DEF HubTyped
<1>2. f \in Frames /\ f \in Nat /\ NextHanded = f
  <2>1. frameCount \in 0..MaxFrames /\ frameCount > 0
    BY <1>0 DEF HubTyped
  <2>2. QED
    BY <1>0, <1>1, <2>1, Sizes DEF Frames, NextHanded
<1>3. firstSunk' \in Int /\ firstSunk' <= f /\ firstSunk' # -1
  <2>1. firstSunk # -1 => firstSunk < f
    BY <1>2 DEF RepeatInv, Live
  <2>2. firstSunk' = IF firstSunk = -1 THEN f ELSE firstSunk
    BY <1>0, <1>1
  <2>3. QED
    BY <1>0, <1>2, <2>1, <2>2
<1>4. ASSUME NEW x \in OnTheWay PROVE <<x, f>> \in SeamOrder'
  <2>1. x \in Frames /\ (x < f \/ x < until)
    BY <1>2, RepeatFacts DEF RepeatInv, Old
  <2>2. x \in Nat
    BY <2>1, Sizes DEF Frames
  <2>3. x < until => until # -1
    BY <1>0, <2>2
  <2>4. x < f \/ (Seamed' /\ x < until' /\ firstSunk' <= f)
    BY <1>0, <1>3, <2>1, <2>3 DEF Seamed
  <2>5. QED
    BY <1>2, <2>1, <2>4 DEF SeamOrder
<1>5. QED
  BY <1>1, <1>2, <1>4

\* A seed is in order, and before what the hub queued while it was awaited.
LEMMA SeedInLine ==
  ASSUME RepeatInv, CutSeed, Line(wire, flushing, Waiting, seed, pending, hubQ, SeamOrder)
  PROVE  Line(<<>>, <<>>, <<>>, seed', <<>>, hubQ, SeamOrder)
<1>0. /\ BuffersTyped /\ HubTyped /\ micPc = "cut"
  BY RepeatFacts, TypeParts DEF CutSeed, RepeatInv
<1>1. InLine(<<>>, SeamOrder) /\ FramesOf(<<>>) = {}
  BY LineEmpty
<1>2. /\ seed' \in Seq(Frames) /\ FramesOf(seed') \subseteq SeedFrom..SeedTo - 1
      /\ \A i, j \in 1..Len(seed') : i < j => seed'[i] < seed'[j]
  BY <1>0, SeedCut
<1>3. SeedFrom \in Nat /\ SeedTo \in Int /\ SeedTo <= until /\ until \in Int
  BY <1>0, SeedFrames DEF RepeatInv, SeamInv, CountersTyped
<1>4. \A x \in FramesOf(seed') : x \in Nat /\ x < until
  BY <1>2, <1>3
<1>5. InLine(seed', SeamOrder)
  <2>1. \A i \in 1..Len(seed') : seed'[i] \in Frames
    BY <1>2
  <2>2. QED
    BY <1>2, <2>1 DEF InLine, SeamOrder
<1>6. Before(FramesOf(seed'), FramesOf(hubQ), SeamOrder)
  <2> SUFFICES ASSUME NEW x \in FramesOf(seed'), NEW y \in FramesOf(hubQ)
               PROVE  <<x, y>> \in SeamOrder
    BY DEF Before
  <2>1. firstSunk # -1
    BY <1>1 DEF RepeatInv, NothingYet
  <2>2. firstSunk <= y
    BY DEF RepeatInv, Live
  <2>3. x < until /\ until # -1
    BY <1>3, <1>4
  <2>4. x \in Frames /\ y \in Frames
    BY <1>0, <1>2, FramesOfParts DEF BuffersTyped
  <2>5. QED
    BY <2>1, <2>2, <2>3, <2>4 DEF SeamOrder, Seamed
<1>7. QED
  BY <1>1, <1>5, <1>6 DEF Line, Before

LEMMA LineStep ==
  ASSUME RepeatInv, [Next]_vars, ReadyOnlyOpen, ~LinkBreaks,
         Line(wire, flushing, Waiting, seed, pending, hubQ, SeamOrder)
  PROVE  Line(wire, flushing, Waiting, seed, pending, hubQ, SeamOrder)'
<1>0. /\ wire \in Seq(Frames) /\ flushing \in Seq(Frames) /\ preroll \in Seq(Frames)
      /\ pending \in Seq(Frames) /\ hubQ \in Seq(Frames) /\ seed \in Seq(Frames)
      /\ Waiting \in Seq(Frames)
  <2>1. BuffersTyped
    BY RepeatFacts
  <2>2. <<>> \in Seq(Frames)
    OBVIOUS
  <2>3. QED
    BY <2>1, <2>2 DEF BuffersTyped, Waiting
<1> SUFFICES Line(wire', flushing', Waiting', seed', pending', hubQ', SeamOrder')
  OBVIOUS
<1>1. SeamOrder \subseteq SeamOrder'
  BY OrderGrows DEF RepeatInv
<1>2. CASE HandOut
  <2>1. UNCHANGED <<wire, flushing, Waiting, seed, pending>>
    BY <1>2 DEF HandOut, sockVars, Waiting, Flushed
  <2>2. Line(wire, flushing, Waiting, seed, pending, hubQ, SeamOrder')
    BY <1>1, LineWider
  <2>3. CASE hubQ' = hubQ
    BY <2>1, <2>2, <2>3
  <2>4. CASE hubQ' = Append(hubQ, frameCount - 1) /\ attached
    <3>1. /\ frameCount - 1 \in Frames
          /\ \A x \in OnTheWay : <<x, frameCount - 1>> \in SeamOrder'
      BY <1>2, <2>4, QueuedLast
    <3>2. FramesOf(Waiting) \subseteq FramesOf(preroll)
      BY NoFrames DEF Waiting
    <3>3. Before(FramesOf(wire) \cup FramesOf(flushing) \cup FramesOf(Waiting)
                   \cup FramesOf(seed) \cup FramesOf(pending) \cup FramesOf(hubQ),
                 {frameCount - 1}, SeamOrder')
      BY <3>1, <3>2 DEF Before, OnTheWay
    <3>4. Line(wire, flushing, Waiting, seed, pending, Append(hubQ, frameCount - 1), SeamOrder')
      BY <1>0, <2>2, <3>1, <3>3, LineQueued
    <3>5. QED
      BY <2>1, <2>4, <3>4
  <2>5. QED
    BY <1>2, <2>3, <2>4 DEF HandOut
<1>3. CASE ~HandOut
  <2> SUFFICES Line(wire', flushing', Waiting', seed', pending', hubQ', SeamOrder)
    BY <1>1, LineWider
  <2>1. CASE CutSeed
    <3>1. /\ UNCHANGED <<wire, flushing, preroll, pending, hubQ>>
          /\ wire = <<>> /\ flushing = <<>> /\ preroll = <<>> /\ pending = <<>>
      BY <2>1 DEF CutSeed, sockVars, RepeatInv, NothingYet, Starting
    <3>2. Waiting' = <<>>
      BY <3>1 DEF Waiting
    <3>3. Line(<<>>, <<>>, <<>>, seed', <<>>, hubQ, SeamOrder)
      BY <2>1, SeedInLine
    <3>4. QED
      BY <3>1, <3>2, <3>3
  <2>2. CASE TakeFrame
    <3>1. /\ UNCHANGED <<wire, flushing, Waiting, seed>> /\ hubQ # <<>> /\ hubQ' = Tail(hubQ)
          /\ pending' \in {<<>>, Append(pending, Head(hubQ))}
      BY <2>2 DEF TakeFrame, sockVars, Waiting, Flushed
    <3>2. QED
      BY <1>0, <3>1, LineTaken
  <2>3. CASE WriteSeed
    <3>1. UNCHANGED <<wire, flushing, pending, hubQ, sock>> /\ seed' = <<>>
      BY <2>3 DEF WriteSeed, sockVars
    <3>2. Waiting' = Waiting \/ Waiting' = Waiting \o seed
      BY <2>3, <3>1 DEF WriteSeed, ToPreroll, Buffer, Waiting, Flushed
    <3>3. /\ Line(wire, flushing, Waiting \o seed, <<>>, pending, hubQ, SeamOrder)
          /\ Line(wire, flushing, Waiting, <<>>, pending, hubQ, SeamOrder)
      BY <1>0, LineSeed, LineDrops
    <3>4. QED
      BY <3>1, <3>2, <3>3
  <2>4. CASE KeepForLater
    <3>1. UNCHANGED <<wire, flushing, seed, hubQ, sock>> /\ seed = <<>> /\ pending' = <<>>
      BY <2>4 DEF KeepForLater, sockVars, PendingSent, RepeatInv, Placed
    <3>2. Waiting' = Waiting \/ Waiting' = Waiting \o pending
      BY <2>4, <3>1 DEF KeepForLater, ToPreroll, Buffer, Waiting, Flushed
    <3>3. /\ Line(wire, flushing, Waiting \o pending, <<>>, <<>>, hubQ, SeamOrder)
          /\ Line(wire, flushing, Waiting, <<>>, <<>>, hubQ, SeamOrder)
      BY <1>0, <3>1, LineKept, LineDrops
    <3>4. QED
      BY <3>1, <3>2, <3>3
  <2>5. CASE SendLive
    <3>1. /\ UNCHANGED <<flushing, seed, hubQ, sock, Waiting>> /\ pending' = <<>>
          /\ seed = <<>> /\ sock = "open"
      BY <2>5 DEF SendLive, sockVars, PendingSent, RepeatInv, Placed, ReadyOnlyOpen, Waiting,
         Flushed
    <3>2. flushing = <<>> /\ Waiting = <<>>
      BY <3>1 DEF Waiting, Flushed, RepeatInv, Placed
    <3>3. wire' = wire \/ wire' = wire \o pending
      BY <2>5 DEF SendLive, ToServer
    <3>4. Line(wire, <<>>, <<>>, <<>>, pending, hubQ, SeamOrder)
      BY <3>1, <3>2
    <3>5. /\ Line(wire \o pending, <<>>, <<>>, <<>>, <<>>, hubQ, SeamOrder)
          /\ Line(wire, <<>>, <<>>, <<>>, <<>>, hubQ, SeamOrder)
      BY <1>0, <3>4, LineSent, LineDrops
    <3>6. QED
      BY <3>1, <3>2, <3>3, <3>5
  <2>6. CASE Opens
    <3>1. /\ UNCHANGED <<wire, seed, pending, hubQ>> /\ flushing' = preroll /\ preroll' = <<>>
          /\ sock = "dialing" /\ sock' = "flush"
      BY <2>6 DEF Opens, micVars, PrerollFlushed
    <3>2. flushing = <<>> /\ Waiting = preroll /\ Waiting' = <<>>
      BY <3>1 DEF RepeatInv, Placed, Waiting, Flushed
    <3>3. Line(wire, preroll, <<>>, seed, pending, hubQ, SeamOrder)
      BY <3>2, LineOpens
    <3>4. QED
      BY <3>1, <3>2, <3>3
  <2>7. CASE FlushPreroll
    <3>1. /\ UNCHANGED <<seed, pending, hubQ>> /\ flushing' = <<>>
          /\ sock' = "flushed"
      BY <2>7 DEF FlushPreroll, micVars
    <3>2. Waiting' = <<>>
      BY <3>1 DEF Waiting, Flushed
    <3>3. wire' = wire \/ wire' = wire \o flushing
      BY <2>7 DEF FlushPreroll, ToServer
    <3>4. /\ Line(wire \o flushing, <<>>, <<>>, seed, pending, hubQ, SeamOrder)
          /\ Line(wire, <<>>, <<>>, seed, pending, hubQ, SeamOrder)
      BY <1>0, LineFlush, LineDrops
    <3>5. QED
      BY <3>1, <3>2, <3>3, <3>4
  <2>8. CASE \/ Capture \/ AttachSink \/ ParkWake \/ WaitForSink \/ ReadClock \/ MicLeaves
             \/ BecomesReady \/ Redials \/ SlideMute \/ UNCHANGED vars \/ Fails \/ EndSession
    <3>1. UNCHANGED <<wire, flushing, seed, pending, hubQ>>
      BY <2>8 DEF Capture, AttachSink, ParkWake, WaitForSink, ReadClock, MicLeaves,
         BecomesReady, Redials, SlideMute, vars, micVars, sockVars, Fails, EndSession
    <3>2. Waiting' = Waiting \/ Waiting' = <<>>
      <4>1. preroll' = preroll \/ preroll' = <<>>
        BY <2>8 DEF Capture, AttachSink, ParkWake, WaitForSink, ReadClock, MicLeaves,
           BecomesReady, Redials, SlideMute, vars, Fails, EndSession, Stop
      <4>2. Flushed => Flushed' \/ preroll' = <<>> \/ Fails
        BY <2>8 DEF Capture, AttachSink, ParkWake, WaitForSink, ReadClock, MicLeaves,
           BecomesReady, Redials, SlideMute, vars, sockVars, EndSession, Flushed
      <4>3. Fails => ~Flushed
        BY DEF Fails, ReadyOnlyOpen, Flushed
      <4>4. QED
        BY <4>1, <4>2, <4>3 DEF Waiting
    <3>3. Line(wire, flushing, <<>>, seed, pending, hubQ, SeamOrder)
      BY LineDrops
    <3>4. QED
      BY <3>1, <3>2, <3>3
  <2>9. QED
    BY <1>3, <2>1, <2>2, <2>3, <2>4, <2>5, <2>6, <2>7, <2>8
       DEF Next, Hub, MicThread, Listener
<1>4. QED
  BY <1>2, <1>3

LEMMA OrderInvariant == Spec => []OrderInv
<1>1. RepeatInv /\ OrderInv /\ [Next]_vars => OrderInv'
  <2> SUFFICES ASSUME RepeatInv, OrderInv, [Next]_vars, breaks' = 0
               PROVE  /\ ReadyOnlyOpen'
                      /\ Line(wire, flushing, Waiting, seed, pending, hubQ, SeamOrder)'
    BY DEF OrderInv
  <2>1. breaks = 0 /\ ~LinkBreaks
    BY FirstLink DEF RepeatInv
  <2>2. ReadyOnlyOpen /\ Line(wire, flushing, Waiting, seed, pending, hubQ, SeamOrder)
    BY <2>1 DEF OrderInv
  <2>3. QED
    BY <2>1, <2>2, ReadyStep, LineStep
<1>2. QED
  BY <1>1, OrderInit, RepeatInvariant, PTL DEF Spec

\* On the first connection the server hears the room in the order it was heard:
\* flushed and live audio never overtake one another, whenever the socket opens
\* in the middle of a message, and the one step back is into what the seed and the
\* live audio share.
THEOREM InOrderOnFirstLink == Spec => []HeardInOrder
<1>1. RepeatInv /\ OrderInv => HeardInOrder
  <2> SUFFICES ASSUME RepeatInv, OrderInv, breaks = 0 PROVE InOrder(wire \o flushing)
    BY DEF HeardInOrder
  <2>1. /\ wire \in Seq(Frames) /\ flushing \in Seq(Frames)
        /\ Line(wire, flushing, Waiting, seed, pending, hubQ, SeamOrder)
    BY RepeatFacts DEF BuffersTyped, OrderInv
  <2>2. Before(FramesOf(wire), FramesOf(flushing), SeamOrder)
    BY <2>1 DEF Line, Before
  <2>3. InLine(wire \o flushing, SeamOrder)
    BY <2>1, <2>2, LineParts DEF Line
  <2> DEFINE q == wire \o flushing
  <2>4. ASSUME NEW i \in 1..Len(q) - 1 PROVE q[i] < q[i + 1] \/ StepBackAtSeam(q[i], q[i + 1])
    <3>1. i \in 1..Len(q) /\ i + 1 \in 1..Len(q) /\ i < i + 1
      BY <2>1
    <3>2. <<q[i], q[i + 1]>> \in SeamOrder
      BY <2>3, <3>1 DEF InLine
    <3>3. QED
      BY <3>2 DEF SeamOrder, StepBackAtSeam
  <2>5. QED
    BY <2>4 DEF InOrder
<1>2. QED
  BY <1>1, RepeatInvariant, OrderInvariant, PTL

-----------------------------------------------------------------------------
(***************************************************************************)
(* Where frames are given up. Until a link breaks the mic thread sends     *)
(* only over an open one (ReadyOnlyOpen), and so does the flush: nothing   *)
(* is given to a dead socket, and what is given up is given up at one of   *)
(* the named limits (Limits). stop() drops preroll, but ends the session.  *)
(***************************************************************************)
Limits == refused \cup crowded \cup trimmed \cup silenced

LimitsInv == running /\ breaks = 0 => gone \subseteq Limits

LEMMA LimitsInit == Init => LimitsInv
BY DEF Init, LimitsInv

\* Nothing but stop() ends the session, and no step brings it back.
LEMMA StillRunning ==
  ASSUME [Next]_vars, running'
  PROVE  running
BY Zenon DEF Next, Hub, MicThread, Listener, Capture, HandOut, AttachSink, ParkWake,
   WaitForSink, ReadClock, CutSeed, WriteSeed, TakeFrame, SendLive, KeepForLater,
   MicLeaves, Opens, FlushPreroll, BecomesReady, Fails, Redials, LinkBreaks, EndSession,
   SlideMute, Stop, vars

LEMMA LimitsStep ==
  ASSUME TypeOK, OrderInv, LimitsInv, [Next]_vars
  PROVE  LimitsInv'
<1> SUFFICES ASSUME running', breaks' = 0 PROVE gone' \subseteq Limits'
  BY DEF LimitsInv
<1>1. running /\ breaks = 0 /\ ~LinkBreaks
  BY StillRunning, FirstLink
<1>2. gone \subseteq Limits /\ ReadyOnlyOpen
  BY <1>1 DEF LimitsInv, OrderInv
<1>3. CASE HandOut
  BY <1>2, <1>3 DEF HandOut, Limits
<1>4. CASE CutSeed
  BY <1>2, <1>4 DEF CutSeed, Limits
<1>5. CASE WriteSeed \/ KeepForLater
  BY <1>2, <1>5 DEF WriteSeed, KeepForLater, ToPreroll, Limits
<1>6. CASE TakeFrame
  BY <1>2, <1>6 DEF TakeFrame, Limits
<1>7. CASE SendLive \/ FlushPreroll
  <2>1. link = "up"
    BY <1>1, <1>2, <1>7 DEF SendLive, FlushPreroll, ReadyOnlyOpen, Flushed
  <2>2. gone' = gone
    BY <1>7, <2>1 DEF SendLive, FlushPreroll, ToServer
  <2>3. UNCHANGED lossVars
    BY <1>7 DEF SendLive, FlushPreroll
  <2>4. QED
    BY <1>2, <2>2, <2>3 DEF lossVars, Limits
<1>8. CASE Fails \/ EndSession
  <2>1. gone' = gone /\ UNCHANGED lossVars
    BY <1>8 DEF Fails, EndSession, Stop
  <2>2. QED
    BY <1>2, <2>1 DEF lossVars, Limits
<1>9. CASE \/ Capture \/ AttachSink \/ ParkWake \/ WaitForSink \/ ReadClock \/ MicLeaves
           \/ Opens \/ BecomesReady \/ Redials \/ SlideMute \/ UNCHANGED vars
  <2>1. gone' = gone /\ UNCHANGED lossVars
    BY <1>9 DEF Capture, AttachSink, ParkWake, WaitForSink, ReadClock, MicLeaves, Opens,
       BecomesReady, Redials, SlideMute, vars
  <2>2. QED
    BY <1>2, <2>1 DEF lossVars, Limits
<1>10. QED
  BY <1>1, <1>3, <1>4, <1>5, <1>6, <1>7, <1>8, <1>9 DEF Next, Hub, MicThread, Listener

LEMMA LimitsInvariant == Spec => []LimitsInv
<1>1. TypeOK /\ OrderInv /\ LimitsInv /\ [Next]_vars => LimitsInv'
  BY LimitsStep
<1>2. QED
  BY <1>1, LimitsInit, HandoffTypeCorrect, OrderInvariant, PTL DEF Spec

\* Where the audio of a running session may be, and where it may be lost. A frame
\* that was handed to the sink, or that the seed was to bring and the ring still had
\* when it was cut, is on the wire, on its way, stranded in preroll, or given up;
\* and before any link breaks it is given up only by the full queue of the sink, by
\* a full preroll, as silence at the ends of the seed, or by the mute slider. It is
\* NOT shown that no word is lost: the code does lose some at the first two limits,
\* and a stranded message is sent only if the socket opens again.
THEOREM LostOnlyAtLimits == Spec => []EveryFrameAccounted
<1>1. HeldInv /\ LimitsInv => EveryFrameAccounted
  <2> SUFFICES ASSUME HeldInv, LimitsInv, running
               PROVE  /\ Sunk \subseteq Delivering \cup Stranded \cup gone
                      /\ SeedTaken =>
                           SeedDue \subseteq Delivering \cup Stranded \cup gone \cup Overwritten
                      /\ breaks = 0 =>
                           gone \subseteq refused \cup crowded \cup trimmed \cup silenced
    BY DEF EveryFrameAccounted
  <2>1. Held \subseteq Delivering \cup Stranded \cup gone
    BY DEF Held, Delivering
  <2>2. Sunk \subseteq Held
    BY DEF HeldInv, SunkHeld
  <2>3. SeedTaken => SeedDue \subseteq Held \cup Overwritten
    BY DEF HeldInv, SeedHeld, SeedCutDone, SeedTaken
  <2>4. breaks = 0 => gone \subseteq refused \cup crowded \cup trimmed \cup silenced
    BY DEF LimitsInv, Limits
  <2>5. QED
    BY <2>1, <2>2, <2>3, <2>4, Zenon
<1>2. QED
  BY <1>1, HeldInvariant, LimitsInvariant, PTL

=============================================================================
