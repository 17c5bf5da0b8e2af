--------------------------- MODULE Playback_proofs ---------------------------
(***************************************************************************)
(* Theorems about Playback, for every cap, prime, chunk, stall and bound.  *)
(*                                                                         *)
(* The properties are about the speaker, which the code does not see. What *)
(* carries them from step to step is IInv: how far the clock can be from   *)
(* the speaker at each place of playExec (ClockHolds), how far the writes  *)
(* can be ahead of the clock (PacingHolds) and hence of the speaker        *)
(* (TrackHolds, LateWrite), and that no write meets a track another        *)
(* conversation left (StopsFirst, GensAreOld).                             *)
(***************************************************************************)
EXTENDS Playback, TLAPS

LEMMA Lengths ==
  /\ Cap \in Nat /\ Prime \in Nat /\ WaitCap \in Nat /\ MaxChunk \in Nat
  /\ MaxStall \in Nat /\ MaxTime \in Nat /\ MaxDeltas \in Nat /\ MaxGen \in Nat
  /\ Prime < Cap /\ 0 < MaxChunk /\ MaxChunk <= WaitCap
BY LengthsAssumption DEF LengthsAssumption

\* A conversation that has ended keeps no track that is not about to go.
StopsFirst ==
  /\ stopping => ~running
  /\ ~running /\ track => stopping \/ TeardownQueued

\* No chunk is of a generation to come, and none of the present one has a
\* teardown behind it.
GensAreOld ==
  /\ \A i \in 1..Len(playQ) : playQ[i].gen <= flushGen
  /\ cur.gen <= flushGen
  /\ \A i, j \in 1..Len(playQ) :
       i < j /\ playQ[i] # Teardown /\ playQ[i].gen = flushGen => playQ[j] # Teardown
  /\ pc # "idle" /\ cur.gen = flushGen => ~TeardownQueued

Behind == framesWritten - heard

\* Between the epoch's mark and the write the clock may run ahead of the frames,
\* but only by the time that thread was held up.
ClockHolds ==
  /\ ~InWrite => stall = 0
  /\ track => /\ heard <= Modelled + MaxStall
              /\ Modelled <= heard + MaxStall \/ Behind <= MaxStall
              /\ oldEnd <= framesWritten
  /\ track /\ pc = "write" =>
       /\ Modelled <= framesWritten + stall
       /\ Modelled <= heard + MaxStall

\* Every tick waited is a frame less to wait for.
PacingHolds ==
  Playing =>
    /\ framesWritten - Modelled <= Cap - 1 + MaxChunk
    /\ pc = "pace" /\ cur.gen = flushGen =>
         \/ framesWritten - Modelled < Cap
         \/ framesWritten - Modelled <= Cap - 1 + MaxChunk - waited
    /\ pc = "sleep" /\ cur.gen = flushGen =>
         \/ framesWritten - Modelled < Cap
         \/ framesWritten - Modelled <= Cap + MaxChunk - waited
    /\ InWrite => framesWritten - Modelled < Cap /\ Behind < Cap + MaxStall

TrackHolds ==
  Playing =>
    /\ Behind <= Longest
    /\ Silent \/ Behind <= Longest - (now - lastWriteAt)
    /\ oldEnd <= heard \/ oldEnd - heard <= Longest - (now - flushAt)

\* A write that a flush came too late for.
LateWrite ==
  InWrite /\ cur.gen # flushGen =>
    /\ now - flushAt <= stall
    /\ Playing => heard = framesWritten
                  \/ Behind < Cap + MaxStall - (now - flushAt)

IInv == /\ TypeOK /\ StopsFirst /\ GensAreOld
        /\ ClockHolds /\ PacingHolds /\ TrackHolds /\ LateWrite

-----------------------------------------------------------------------------
(* Lemmas about types and the queue. *)

LEMMA TypeFacts ==
  ASSUME TypeOK
  PROVE  /\ framesWritten \in Nat /\ epochFrames \in Nat /\ heard \in Nat
         /\ oldEnd \in Nat /\ now \in Nat /\ epochTime \in Nat
         /\ lastWriteAt \in Nat /\ flushAt \in Nat /\ flushGen \in Nat
         /\ epochTime <= now /\ lastWriteAt <= now /\ flushAt <= now
         /\ waited \in Nat /\ stall \in 0..MaxStall
         /\ track => heard <= framesWritten /\ epochFrames <= framesWritten
         /\ playQ \in Seq(Chunk \cup {Teardown})
         /\ cur \in Chunk \cup {Teardown} /\ (pc # "idle" => cur \in Chunk)
         /\ Modelled \in Int /\ speakerFrames \in Int
BY Lengths DEF TypeOK, Modelled, speakerFrames

LEMMA NumberFacts ==
  ASSUME TypeOK
  PROVE  /\ framesWritten \in Nat /\ heard \in Nat /\ oldEnd \in Nat /\ now \in Nat
         /\ stall \in Nat /\ stall <= MaxStall /\ MaxStall \in Nat
         /\ Modelled \in Int /\ (track => heard <= framesWritten)
BY TypeFacts, Lengths

LEMMA ChunkFacts ==
  /\ Teardown \notin Chunk
  /\ Teardown.gen = 0
  /\ \A c \in Chunk : c.gen \in Nat /\ c.len \in 1..MaxChunk
BY Lengths DEF Chunk, Teardown

LEMMA AppendQueue ==
  ASSUME NEW S, NEW q \in Seq(S), NEW c \in S
  PROVE  /\ Append(q, c) \in Seq(S) /\ Len(Append(q, c)) = Len(q) + 1
         /\ \A i \in 1..Len(q) : Append(q, c)[i] = q[i]
         /\ Append(q, c)[Len(q) + 1] = c
OBVIOUS

LEMMA TailQueue ==
  ASSUME NEW S, NEW q \in Seq(S), q # <<>>
  PROVE  /\ Tail(q) \in Seq(S) /\ Len(Tail(q)) = Len(q) - 1 /\ Len(q) > 0
         /\ \A i \in 1..Len(Tail(q)) : Tail(q)[i] = q[i + 1] /\ i + 1 \in 1..Len(q)
         /\ Head(q) = q[1] /\ Head(q) \in S
OBVIOUS

\* What a handler does to the queue, for the teardowns in it.
LEMMA ChunkQueued ==
  ASSUME TypeOK, NEW c \in Chunk, playQ' = Append(playQ, c)
  PROVE  TeardownQueued' = TeardownQueued
<1>1. c # Teardown
  BY ChunkFacts
<1>2. playQ \in Seq(Chunk \cup {Teardown})
  BY DEF TypeOK
<1>3. QED
  BY <1>1, <1>2, AppendQueue DEF TeardownQueued, Teardown

LEMMA TeardownAdded ==
  ASSUME TypeOK, playQ' = Append(playQ, Teardown)
  PROVE  TeardownQueued'
<1>1. playQ \in Seq(Chunk \cup {Teardown})
  BY DEF TypeOK
<1>2. playQ'[Len(playQ')] = Teardown /\ Len(playQ') \in 1..Len(playQ')
  BY <1>1, AppendQueue
<1>3. QED
  BY <1>2 DEF TeardownQueued, Teardown

LEMMA ChunkTaken ==
  ASSUME TypeOK, playQ # <<>>, Head(playQ) # Teardown, playQ' = Tail(playQ)
  PROVE  TeardownQueued' = TeardownQueued
<1>1. playQ \in Seq(Chunk \cup {Teardown})
  BY DEF TypeOK
<1> DEFINE q == Tail(playQ)
<1>2. /\ Len(q) = Len(playQ) - 1
      /\ \A i \in 1..Len(q) : q[i] = playQ[i + 1] /\ i + 1 \in 1..Len(playQ)
      /\ playQ[1] # Teardown
  BY <1>1, TailQueue
<1>3. ASSUME NEW i \in 1..Len(playQ), playQ[i] = Teardown
      PROVE  i - 1 \in 1..Len(q) /\ q[i - 1] = Teardown
  BY <1>1, <1>2, <1>3
<1>4. QED
  BY <1>2, <1>3 DEF TeardownQueued, Teardown

-----------------------------------------------------------------------------
(* Every variable keeps its type. *)

LEMMA TypeInit == Init => TypeOK
<1> SUFFICES ASSUME Init PROVE TypeOK
  OBVIOUS
<1>1. playQ \in Seq(Chunk \cup {Teardown}) /\ cur \in Chunk \cup {Teardown}
  BY DEF Init
<1>2. FlagsTyped
  BY DEF Init, FlagsTyped
<1>3. QED
  BY <1>1, <1>2, Lengths DEF Init, TypeOK

\* A new track starts at its prime, an old one goes on.
LEMMA Started ==
  ASSUME TypeOK, StartPlayback
  PROVE  /\ track' = TRUE
         /\ lastWriteAt' = lastWriteAt
         /\ track => /\ framesWritten' = framesWritten /\ oldEnd' = oldEnd
                     /\ epochFrames' = epochFrames /\ epochTime' = epochTime
                     /\ heard' = heard
         /\ ~track => /\ framesWritten' = Prime /\ oldEnd' = 0
                      /\ epochFrames' = 0 /\ epochTime' = now
                      /\ heard' \in 0..Prime /\ heard' <= MaxStall
BY DEF TypeOK, FlagsTyped, StartPlayback, EpochAfresh, clockVars

LEMMA FlagSteps == FlagsTyped /\ [Next]_vars => FlagsTyped'
<1> SUFFICES ASSUME FlagsTyped, [Next]_vars PROVE FlagsTyped'
  OBVIOUS
<1> USE DEF FlagsTyped, sessionVars
<1>1. CASE DeltaArrives \/ SilenceNow \/ SpeechStarted \/ UNCHANGED vars
  BY <1>1, Zenon DEF DeltaArrives, SilenceNow, SpeechStarted, vars
<1>2. CASE Start \/ Opens
  BY <1>2, Zenon DEF Start, Opens, StartPlayback
<1>3. CASE Fails \/ StopBegins \/ StopFlushes
  BY <1>3, Zenon DEF Fails, StopBegins, StopFlushes
<1>4. CASE TakesChunk \/ TearsDown \/ KeepsWaiting
  BY <1>4, Zenon DEF TakesChunk, TearsDown, KeepsWaiting
<1>5. CASE LeavesLoop \/ MarksEpoch \/ Writes \/ Tick
  BY <1>5, Zenon DEF LeavesLoop, MarksEpoch, Writes, Tick
<1>6. QED
  BY <1>1, <1>2, <1>3, <1>4, <1>5 DEF Next, PlayExec

LEMMA TypeSteps == TypeOK /\ [Next]_vars => TypeOK'
<1> SUFFICES ASSUME TypeOK, [Next]_vars PROVE TypeOK'
  OBVIOUS
<1> USE Lengths
<1>0. FlagsTyped'
  BY FlagSteps DEF TypeOK
<1>1. CASE DeltaArrives
  <2>1. PICK n \in 1..MaxChunk : playQ' = Append(playQ, [gen |-> flushGen, len |-> n])
    BY <1>1 DEF DeltaArrives
  <2>2. [gen |-> flushGen, len |-> n] \in Chunk
    BY DEF TypeOK, Chunk
  <2>3. playQ' \in Seq(Chunk \cup {Teardown})
    BY <2>1, <2>2 DEF TypeOK
  <2>4. QED
    BY <1>0, <1>1, <2>3 DEF TypeOK, DeltaArrives, sessionVars, clockVars, flushVars,
       execVars
<1>2. CASE SilenceNow \/ SpeechStarted
  <2>1. Abandon /\ UNCHANGED <<track, clockVars, playQ, execVars, now, heard, deltas>>
    BY <1>2 DEF SilenceNow, SpeechStarted
  <2>2. QED
    BY <1>0, <2>1 DEF TypeOK, Abandon, clockVars, execVars
<1>3. CASE Start \/ Opens
  <2>1. StartPlayback /\ UNCHANGED <<flushGen, flushAt, playQ, execVars, now, deltas>>
    BY <1>3 DEF Start, Opens
  <2>2. /\ framesWritten' \in Nat /\ epochFrames' \in Nat /\ heard' \in Nat
        /\ oldEnd' \in Nat /\ epochTime' \in 0..now /\ lastWriteAt' \in 0..now
        /\ epochFrames' <= framesWritten' /\ heard' <= framesWritten'
    <3>1. CASE track
      BY <2>1, <3>1, Started DEF TypeOK
    <3>2. CASE ~track
      <4>1. /\ framesWritten' = Prime /\ oldEnd' = 0 /\ epochFrames' = 0
            /\ epochTime' = now /\ lastWriteAt' = lastWriteAt /\ heard' \in 0..Prime
        BY <2>1, <3>2, Started
      <4>2. now \in Nat /\ now \in 0..now /\ lastWriteAt \in 0..now
        BY DEF TypeOK
      <4>3. QED
        BY <4>1, <4>2
    <3>3. QED
      BY <3>1, <3>2
  <2>3. QED
    BY <1>0, <2>1, <2>2 DEF TypeOK, execVars
<1>4. CASE Fails \/ StopFlushes
  <2>1. /\ playQ' = Append(playQ, Teardown) /\ Abandon
        /\ UNCHANGED <<track, clockVars, execVars, now, heard, deltas>>
    BY <1>4 DEF Fails, StopFlushes
  <2>2. playQ' \in Seq(Chunk \cup {Teardown})
    BY <2>1 DEF TypeOK
  <2>3. QED
    BY <1>0, <2>1, <2>2 DEF TypeOK, Abandon, clockVars, execVars
<1>5. CASE StopBegins
  BY <1>0, <1>5 DEF TypeOK, StopBegins, clockVars, flushVars, execVars
<1>6. CASE TakesChunk
  <2>1. /\ playQ' \in Seq(Chunk \cup {Teardown})
        /\ Head(playQ) \in Chunk \cup {Teardown} /\ Head(playQ) # Teardown
    BY <1>6 DEF TypeOK, TakesChunk
  <2>2. QED
    BY <1>0, <1>6, <2>1 DEF TypeOK, TakesChunk, sessionVars, clockVars, flushVars
<1>7. CASE TearsDown
  <2>1. playQ' \in Seq(Chunk \cup {Teardown})
    BY <1>7 DEF TypeOK, TearsDown
  <2>2. QED
    BY <1>0, <1>7, <2>1 DEF TypeOK, TearsDown, sessionVars, clockVars, flushVars,
       execVars
<1>8. CASE KeepsWaiting
  BY <1>0, <1>8 DEF TypeOK, KeepsWaiting, sessionVars, clockVars, flushVars
<1>9. CASE LeavesLoop
  <2>1. CASE StillWanted
    BY <1>0, <1>9, <2>1 DEF TypeOK, LeavesLoop, sessionVars, clockVars,
       flushVars
  <2>2. CASE ~StillWanted
    BY <1>0, <1>9, <2>2 DEF TypeOK, LeavesLoop, Finishes, sessionVars, clockVars,
       flushVars
  <2>3. QED
    BY <2>1, <2>2
<1>10. CASE MarksEpoch
  BY <1>0, <1>10 DEF TypeOK, MarksEpoch, EpochDue, sessionVars, flushVars
<1>11. CASE Writes
  <2>0. pc = "write" /\ cur \in Chunk
    BY <1>11 DEF TypeOK, Writes
  <2>1. cur.len \in Nat
    BY <2>0, ChunkFacts
  <2>2. framesWritten' \in Nat /\ oldEnd' \in Nat /\ framesWritten' >= framesWritten
    BY <1>11, <2>1 DEF TypeOK, Writes, Frames
  <2>3. QED
    BY <1>0, <1>11, <2>2 DEF TypeOK, Writes, Stamp, Finishes, sessionVars
<1>12. CASE Tick
  <2>1. heard' \in Nat /\ (track => heard' <= framesWritten)
    BY <1>12 DEF TypeOK, Tick
  <2>2. QED
    BY <1>0, <1>12, <2>1 DEF TypeOK, Tick, sessionVars, clockVars, flushVars
<1>13. CASE UNCHANGED vars
  BY <1>0, <1>13 DEF TypeOK, vars, sessionVars, clockVars, flushVars, execVars
<1>14. QED
  BY <1>1, <1>2, <1>3, <1>4, <1>5, <1>6, <1>7, <1>8, <1>9, <1>10, <1>11, <1>12,
     <1>13 DEF Next, PlayExec

\* Every variable keeps its type, and no track begins with the epoch of another.
THEOREM PlaybackTypeCorrect == Spec => []TypeOK
BY TypeInit, TypeSteps, PTL DEF Spec

-----------------------------------------------------------------------------
(* No track is left behind, no old chunk is fresh. *)

LEMMA SameQueue ==
  ASSUME playQ' = playQ
  PROVE  TeardownQueued' = TeardownQueued
BY DEF TeardownQueued, Teardown

LEMMA DeltaQueued ==
  ASSUME TypeOK, DeltaArrives
  PROVE  TeardownQueued' = TeardownQueued
<1>1. PICK n \in 1..MaxChunk : playQ' = Append(playQ, [gen |-> flushGen, len |-> n])
  BY DEF DeltaArrives
<1>2. [gen |-> flushGen, len |-> n] \in Chunk
  BY Lengths DEF TypeOK, Chunk
<1>3. QED
  BY <1>1, <1>2, ChunkQueued

LEMMA StopsFirstSteps == TypeOK /\ StopsFirst /\ [Next]_vars => StopsFirst'
<1> SUFFICES ASSUME TypeOK, StopsFirst, [Next]_vars PROVE StopsFirst'
  OBVIOUS
<1> USE DEF StopsFirst
<1>1. CASE DeltaArrives
  BY <1>1, DeltaQueued DEF DeltaArrives, sessionVars
<1>2. CASE SilenceNow \/ SpeechStarted
  BY <1>2, SameQueue DEF SilenceNow, SpeechStarted, sessionVars
<1>3. CASE Start \/ Opens
  BY <1>3 DEF Start, Opens
<1>4. CASE Fails
  BY <1>4 DEF Fails
<1>5. CASE StopBegins
  BY <1>5 DEF StopBegins
<1>6. CASE StopFlushes
  <2>1. TeardownQueued'
    BY <1>6, TeardownAdded DEF StopFlushes
  <2>2. QED
    BY <1>6, <2>1 DEF StopFlushes
<1>7. CASE TakesChunk
  BY <1>7, ChunkTaken DEF TakesChunk, sessionVars
<1>8. CASE TearsDown
  BY <1>8 DEF TearsDown, sessionVars
<1>9. CASE KeepsWaiting \/ LeavesLoop
  BY <1>9, SameQueue DEF KeepsWaiting, LeavesLoop, sessionVars
<1>10. CASE MarksEpoch \/ Writes
  BY <1>10, SameQueue DEF MarksEpoch, Writes, sessionVars
<1>11. CASE Tick
  BY <1>11, SameQueue DEF Tick, sessionVars
<1>12. CASE UNCHANGED vars
  BY <1>12, SameQueue DEF vars, sessionVars
<1>13. QED
  BY <1>1, <1>2, <1>3, <1>4, <1>5, <1>6, <1>7, <1>8, <1>9, <1>10, <1>11, <1>12
     DEF Next, PlayExec

\* A new generation is ahead of everything queued and in hand.
LEMMA AbandonAges ==
  ASSUME TypeOK, GensAreOld, Abandon, cur' = cur,
         playQ' = playQ \/ playQ' = Append(playQ, Teardown)
  PROVE  GensAreOld'
<1>1. /\ flushGen \in Nat /\ flushGen' = flushGen + 1
      /\ cur.gen \in Nat /\ cur.gen <= flushGen
  BY TypeFacts, ChunkFacts DEF GensAreOld, Abandon
<1>2. playQ \in Seq(Chunk \cup {Teardown})
  BY DEF TypeOK
<1>3. \A i \in 1..Len(playQ) : playQ[i].gen \in Nat /\ playQ[i].gen <= flushGen
  BY <1>2, ChunkFacts DEF GensAreOld
<1>4. \A i \in 1..Len(playQ') : playQ'[i].gen \in Nat /\ playQ'[i].gen < flushGen'
  <2>1. CASE playQ' = playQ
    BY <1>1, <1>3, <2>1
  <2>2. CASE playQ' = Append(playQ, Teardown)
    BY <1>1, <1>2, <1>3, <2>2, AppendQueue, ChunkFacts
  <2>3. QED
    BY <2>1, <2>2
<1>5. cur'.gen < flushGen'
  BY <1>1
<1>6. QED
  BY <1>1, <1>4, <1>5 DEF GensAreOld

LEMMA SameGens ==
  ASSUME GensAreOld, playQ' = playQ, flushGen' = flushGen, cur' = cur,
         pc # "idle" \/ pc' = "idle"
  PROVE  GensAreOld'
BY SameQueue DEF GensAreOld, Teardown

LEMMA TakenAges ==
  ASSUME TypeOK, GensAreOld, playQ # <<>>, playQ' = Tail(playQ),
         flushGen' = flushGen, pc = "idle",
         \/ pc' = "idle" /\ cur' = cur
         \/ cur' = Head(playQ) /\ Head(playQ) # Teardown
  PROVE  GensAreOld'
<1>1. playQ \in Seq(Chunk \cup {Teardown})
  BY DEF TypeOK
<1>2. /\ Len(playQ') = Len(playQ) - 1 /\ Len(playQ) > 0 /\ Head(playQ) = playQ[1]
      /\ \A i \in 1..Len(playQ') : playQ'[i] = playQ[i + 1] /\ i + 1 \in 1..Len(playQ)
  BY <1>1, TailQueue
<1>3. /\ \A i \in 1..Len(playQ') : playQ'[i].gen <= flushGen'
      /\ cur'.gen <= flushGen'
  BY <1>1, <1>2 DEF GensAreOld
<1>4. \A i, j \in 1..Len(playQ') :
        i < j /\ playQ'[i] # Teardown /\ playQ'[i].gen = flushGen' => playQ'[j] # Teardown
  BY <1>1, <1>2 DEF GensAreOld
<1>5. pc' # "idle" /\ cur'.gen = flushGen' => ~TeardownQueued'
  <2>1. SUFFICES ASSUME pc' # "idle", cur'.gen = flushGen',
                        NEW i \in 1..Len(playQ')
                 PROVE  playQ'[i] # Teardown
    BY DEF TeardownQueued, Teardown
  <2>2. playQ[1] # Teardown /\ playQ[1].gen = flushGen
    BY <1>2, <2>1
  <2>3. 1 \in 1..Len(playQ) /\ i + 1 \in 1..Len(playQ) /\ 1 < i + 1
    BY <1>1, <1>2, <2>1
  <2>4. playQ[i + 1] # Teardown
    BY <2>2, <2>3 DEF GensAreOld
  <2>5. QED
    BY <1>2, <2>4
<1>6. QED
  BY <1>3, <1>4, <1>5 DEF GensAreOld, Teardown

LEMMA DeltaAges ==
  ASSUME TypeOK, GensAreOld, DeltaArrives
  PROVE  GensAreOld'
<1>1. PICK n \in 1..MaxChunk : playQ' = Append(playQ, [gen |-> flushGen, len |-> n])
  BY DEF DeltaArrives
<1> DEFINE c == [gen |-> flushGen, len |-> n]
<1>2. c \in Chunk /\ c.gen = flushGen /\ flushGen \in Nat
  BY Lengths DEF TypeOK, Chunk
<1>3. c # Teardown
  BY <1>2, ChunkFacts
<1>4. playQ \in Seq(Chunk \cup {Teardown})
  BY DEF TypeOK
<1> HIDE DEF c
<1>5. /\ Len(playQ') = Len(playQ) + 1 /\ playQ'[Len(playQ) + 1] = c
      /\ \A i \in 1..Len(playQ) : playQ'[i] = playQ[i]
  BY <1>1, <1>2, <1>4, AppendQueue DEF c
<1>6. UNCHANGED <<flushGen, cur, pc>>
  BY DEF DeltaArrives, flushVars, execVars
<1>7. \A i \in 1..Len(playQ') : playQ'[i].gen <= flushGen'
  BY <1>2, <1>4, <1>5, <1>6 DEF GensAreOld
<1>8. ASSUME NEW i \in 1..Len(playQ'), NEW j \in 1..Len(playQ'),
             i < j, playQ'[i] # Teardown, playQ'[i].gen = flushGen'
      PROVE  playQ'[j] # Teardown
  BY <1>3, <1>4, <1>5, <1>6, <1>8 DEF GensAreOld
<1>9. QED
  BY <1>6, <1>7, <1>8, DeltaQueued DEF GensAreOld, Teardown

LEMMA GensSteps == TypeOK /\ GensAreOld /\ [Next]_vars => GensAreOld'
<1> SUFFICES ASSUME TypeOK, GensAreOld, [Next]_vars PROVE GensAreOld'
  OBVIOUS
<1>1. CASE DeltaArrives
  BY <1>1, DeltaAges
<1>2. CASE SilenceNow \/ SpeechStarted
  BY <1>2, AbandonAges DEF SilenceNow, SpeechStarted, execVars
<1>3. CASE Fails \/ StopFlushes
  BY <1>3, AbandonAges DEF Fails, StopFlushes, execVars
<1>4. CASE Start \/ Opens
  BY <1>4, SameGens DEF Start, Opens, execVars
<1>5. CASE StopBegins
  BY <1>5, SameGens DEF StopBegins, flushVars, execVars
<1>6. CASE TakesChunk
  BY <1>6, TakenAges DEF TakesChunk, flushVars
<1>7. CASE TearsDown
  BY <1>7, TakenAges DEF TearsDown, flushVars, execVars
<1>8. CASE KeepsWaiting \/ MarksEpoch
  BY <1>8, SameGens DEF KeepsWaiting, MarksEpoch, flushVars
<1>9. CASE LeavesLoop \/ Writes
  <2>1. /\ playQ' = playQ /\ flushGen' = flushGen
        /\ \/ cur' = cur /\ pc # "idle"
           \/ cur' = Teardown /\ pc' = "idle"
    BY <1>9 DEF LeavesLoop, Writes, Finishes, flushVars
  <2>2. CASE cur' = cur /\ pc # "idle"
    BY <2>1, <2>2, SameGens
  <2>3. CASE cur' = Teardown /\ pc' = "idle"
    BY <2>1, <2>3, ChunkFacts, TypeFacts, SameQueue DEF GensAreOld, Teardown
  <2>4. QED
    BY <2>1, <2>2, <2>3
<1>10. CASE Tick
  BY <1>10, SameGens DEF Tick, flushVars
<1>11. CASE UNCHANGED vars
  BY <1>11, SameGens DEF vars, flushVars, execVars
<1>12. QED
  BY <1>1, <1>2, <1>3, <1>4, <1>5, <1>6, <1>7, <1>8, <1>9, <1>10, <1>11
     DEF Next, PlayExec

-----------------------------------------------------------------------------
(* The clock and the speaker. *)

LEMMA ClockQuiet ==
  ASSUME TypeOK, ClockHolds,
         UNCHANGED <<track, framesWritten, epochFrames, epochTime, now, heard>>,
         oldEnd' = oldEnd \/ oldEnd' = framesWritten,
         \/ pc' = pc /\ stall' = stall
         \/ pc' \notin {"mark", "write"} /\ stall' = 0
         \/ pc' = "mark" /\ pc # "write" /\ stall' = stall
  PROVE  ClockHolds'
<1>1. Modelled' = Modelled /\ Behind' = Behind
  BY DEF Modelled, Behind
<1>2. framesWritten \in Nat
  BY TypeFacts
<1>3. QED
  BY <1>1, <1>2 DEF ClockHolds, InWrite

LEMMA ClockSteps == TypeOK /\ ClockHolds /\ [Next]_vars => ClockHolds'
<1> SUFFICES ASSUME TypeOK, ClockHolds, [Next]_vars PROVE ClockHolds'
  OBVIOUS
<1>1. CASE DeltaArrives \/ StopBegins \/ UNCHANGED vars
  BY <1>1, ClockQuiet DEF DeltaArrives, StopBegins, vars, clockVars, flushVars,
     execVars
<1>2. CASE SilenceNow \/ SpeechStarted \/ Fails \/ StopFlushes
  BY <1>2, ClockQuiet DEF SilenceNow, SpeechStarted, Fails, StopFlushes, Abandon,
     clockVars, execVars
<1>3. CASE Start \/ Opens
  <2>1. StartPlayback /\ UNCHANGED <<pc, stall, now>>
    BY <1>3 DEF Start, Opens, execVars
  <2>2. CASE track
    <3>1. UNCHANGED <<track, framesWritten, epochFrames, epochTime, heard, oldEnd>>
      BY <2>1, <2>2, Started DEF TypeOK, FlagsTyped
    <3>2. QED
      BY <2>1, <3>1, ClockQuiet
  <2>3. CASE ~track
    <3>1. PICK h \in 0..Prime : heard' = h /\ h <= MaxStall
      BY <2>1, <2>3, Started
    <3>2. framesWritten' = Prime /\ oldEnd' = 0 /\ epochFrames' = 0 /\ epochTime' = now
      BY <2>1, <2>3, Started
    <3>3. now \in Nat /\ stall \in Nat
      BY TypeFacts
    <3>4. Modelled' = 0
      BY <2>1, <3>2, <3>3 DEF Modelled
    <3>5. /\ heard' <= Modelled' + MaxStall /\ Modelled' <= heard' + MaxStall
          /\ Modelled' <= framesWritten' + stall' /\ oldEnd' <= framesWritten'
      BY <2>1, <3>1, <3>2, <3>3, <3>4, Lengths
    <3>6. QED
      BY <2>1, <3>5 DEF ClockHolds, InWrite
  <2>4. QED
    BY <2>2, <2>3
<1>4. CASE TakesChunk \/ KeepsWaiting
  <2>1. stall' = 0 /\ pc' \notin {"mark", "write"}
    BY <1>4 DEF TakesChunk, KeepsWaiting, ClockHolds, InWrite
  <2>2. QED
    BY <1>4, <2>1, ClockQuiet DEF TakesChunk, KeepsWaiting, clockVars, flushVars
<1>5. CASE LeavesLoop
  BY <1>5, ClockQuiet DEF LeavesLoop, Finishes, clockVars, flushVars
<1>6. CASE TearsDown
  BY <1>6 DEF TearsDown, ClockHolds, execVars, InWrite
<1>7. CASE MarksEpoch
  <2>1. /\ UNCHANGED <<track, framesWritten, heard, now, stall, oldEnd>>
        /\ pc = "mark" /\ pc' = "write"
    BY <1>7 DEF MarksEpoch, flushVars
  <2>2. CASE EpochDue
    <3>1. Modelled' = framesWritten /\ Modelled >= framesWritten
      BY <1>7, <2>1, <2>2, TypeFacts DEF MarksEpoch, Modelled, EpochDue, speakerFrames
    <3>2. ASSUME track
          PROVE  /\ heard' <= Modelled' + MaxStall /\ Modelled' <= heard' + MaxStall
                 /\ Modelled' <= framesWritten' + stall' /\ oldEnd' <= framesWritten'
      BY <2>1, <3>1, <3>2, NumberFacts DEF ClockHolds, Behind
    <3>3. QED
      BY <2>1, <3>2 DEF ClockHolds, InWrite
  <2>3. CASE ~EpochDue
    <3>1. Modelled' = Modelled /\ Modelled < framesWritten
      BY <1>7, <2>1, <2>3, TypeFacts DEF MarksEpoch, Modelled, EpochDue, speakerFrames
    <3>2. ASSUME track
          PROVE  /\ heard' <= Modelled' + MaxStall /\ Modelled' <= heard' + MaxStall
                 /\ Modelled' <= framesWritten' + stall' /\ oldEnd' <= framesWritten'
      BY <2>1, <3>1, <3>2, NumberFacts DEF ClockHolds, Behind
    <3>3. QED
      BY <2>1, <3>2 DEF ClockHolds, InWrite
  <2>4. QED
    BY <2>2, <2>3
<1>8. CASE Writes
  <2>1. /\ UNCHANGED <<track, epochFrames, epochTime, heard, now>>
        /\ pc = "write" /\ pc' = "idle" /\ stall' = 0
    BY <1>8 DEF Writes, Finishes
  <2>2. Modelled' = Modelled
    BY <2>1 DEF Modelled
  <2>3. cur.len \in Nat
    BY <2>1, TypeFacts, ChunkFacts
  <2>4. ASSUME track
        PROVE  framesWritten' >= framesWritten /\ framesWritten' \in Nat
               /\ (oldEnd' = oldEnd \/ oldEnd' = framesWritten')
    <3>1. /\ framesWritten' = framesWritten + cur.len
          /\ oldEnd' = oldEnd \/ oldEnd' = framesWritten'
      BY <1>8, <2>4 DEF Writes, Frames
    <3>2. framesWritten \in Nat
      BY TypeFacts
    <3>3. QED
      BY <2>3, <3>1, <3>2
  <2>5. ASSUME track
        PROVE  /\ heard' <= Modelled' + MaxStall /\ Modelled' <= heard' + MaxStall
               /\ oldEnd' <= framesWritten'
    <3>1. heard' <= Modelled' + MaxStall /\ Modelled' <= heard' + MaxStall
      BY <2>1, <2>2, <2>5 DEF ClockHolds
    <3>2. oldEnd <= framesWritten
      BY <2>5 DEF ClockHolds
    <3>3. oldEnd' <= framesWritten'
      BY <2>4, <2>5, <3>2, NumberFacts
    <3>4. QED
      BY <3>1, <3>3
  <2>6. QED
    BY <2>1, <2>5 DEF ClockHolds
<1>9. CASE Tick
  <2>1. /\ UNCHANGED <<track, framesWritten, oldEnd>> /\ now' = now + 1
        /\ InWrite => stall < MaxStall /\ stall' = stall + 1
        /\ ~InWrite => stall' = stall
        /\ InWrite' = InWrite /\ (pc' = "write" => pc = "write")
    BY <1>9 DEF Tick, clockVars, flushVars, InWrite
  <2>2. Modelled' = Modelled + 1
    <3>1. now' = now + 1 /\ UNCHANGED <<epochFrames, epochTime>>
      BY <1>9 DEF Tick, clockVars
    <3>2. epochFrames \in Nat /\ epochTime \in Nat /\ now \in Nat
      BY TypeFacts
    <3>3. QED
      BY <3>1, <3>2 DEF Modelled
  <2>3. ASSUME track
        PROVE  \/ heard < framesWritten /\ heard' = heard + 1
               \/ heard = framesWritten /\ heard' = heard
    BY <1>9, <2>3, TypeFacts DEF Tick
  <2>4. ASSUME track
        PROVE  /\ heard' <= Modelled' + MaxStall
               /\ Modelled' <= heard' + MaxStall \/ Behind' <= MaxStall
               /\ oldEnd' <= framesWritten'
    BY <2>1, <2>2, <2>3, <2>4, NumberFacts DEF ClockHolds, Behind
  <2>5. ASSUME track, pc = "write"
        PROVE  Modelled' <= framesWritten' + stall' /\ Modelled' <= heard' + MaxStall
    <3>1. InWrite
      BY <2>5 DEF InWrite
    <3>2. QED
      BY <2>1, <2>2, <2>3, <2>5, <3>1, NumberFacts DEF ClockHolds
  <2>6. QED
    BY <2>1, <2>4, <2>5 DEF ClockHolds
<1>10. QED
  BY <1>1, <1>2, <1>3, <1>4, <1>5, <1>6, <1>7, <1>8, <1>9 DEF Next, PlayExec

-----------------------------------------------------------------------------
(* Pacing, and what the speaker still has. *)

SpeakerHolds == PacingHolds /\ TrackHolds /\ LateWrite

\* The numbers SpeakerHolds compares.
heardVars == <<framesWritten, epochFrames, epochTime, lastWriteAt, now, heard, waited,
               stall, pc>>

LEMMA SpeakerQuiet ==
  ASSUME SpeakerHolds, UNCHANGED <<heardVars, flushGen, flushAt, oldEnd>>,
         cur' = cur, Playing' => Playing
  PROVE  SpeakerHolds'
<1>1. /\ Modelled' = Modelled /\ Behind' = Behind
      /\ InWrite' = InWrite /\ Silent' = Silent
  BY DEF heardVars, Modelled, Behind, InWrite, Silent
<1>2. QED
  BY <1>1 DEF SpeakerHolds, PacingHolds, TrackHolds, LateWrite, heardVars, Longest

\* A flush only moves the line between old and new.
LEMMA SpeakerAbandons ==
  ASSUME TypeOK, GensAreOld, SpeakerHolds, Abandon, UNCHANGED heardVars, cur' = cur,
         Playing' => Playing
  PROVE  SpeakerHolds'
<1>1. /\ Modelled' = Modelled /\ Behind' = Behind
      /\ InWrite' = InWrite /\ Silent' = Silent
  BY DEF heardVars, Modelled, Behind, InWrite, Silent
<1>2. cur'.gen # flushGen'
  BY TypeFacts, ChunkFacts DEF GensAreOld, Abandon
<1>3. /\ now' = now /\ flushAt' = now /\ oldEnd' = framesWritten /\ heard' = heard
      /\ framesWritten' = framesWritten /\ lastWriteAt' = lastWriteAt /\ stall' = stall
  BY DEF Abandon, heardVars
<1>4. PacingHolds'
  BY <1>1, <1>2, <1>3 DEF SpeakerHolds, PacingHolds
<1>5. TrackHolds'
  <2>1. SUFFICES ASSUME Playing' PROVE TrackHolds'
    BY DEF TrackHolds
  <2>2. Behind <= Longest /\ (Silent \/ Behind <= Longest - (now - lastWriteAt))
    BY <2>1 DEF SpeakerHolds, TrackHolds
  <2>3. framesWritten - heard <= Longest - (now - now)
    BY <2>2, NumberFacts, Lengths DEF Behind, Longest
  <2>4. QED
    BY <1>1, <1>3, <2>2, <2>3 DEF TrackHolds, Longest
<1>6. LateWrite'
  <2>1. SUFFICES ASSUME InWrite
                 PROVE  /\ now - now <= stall
                        /\ Playing => Behind < Cap + MaxStall - (now - now)
    BY <1>1, <1>2, <1>3 DEF LateWrite
  <2>2. Playing => Behind < Cap + MaxStall
    BY <2>1 DEF SpeakerHolds, PacingHolds
  <2>3. QED
    BY <2>2, NumberFacts, Lengths DEF Behind
<1>7. QED
  BY <1>4, <1>5, <1>6 DEF SpeakerHolds

\* Where no track plays, only the flush's time matters.
LEMMA NotPlaying ==
  ASSUME ~Playing', InWrite' /\ cur'.gen # flushGen' => now' - flushAt' <= stall'
  PROVE  SpeakerHolds'
BY DEF SpeakerHolds, PacingHolds, TrackHolds, LateWrite

LEMMA SpeakerStarts ==
  ASSUME TypeOK, SpeakerHolds, ~track, StartPlayback,
         UNCHANGED <<now, waited, stall, pc, flushGen, flushAt>>, cur' = cur
  PROVE  SpeakerHolds'
<1>1. PICK h \in 0..Prime : heard' = h
  BY Started
<1>2. framesWritten' = Prime /\ oldEnd' = 0 /\ epochFrames' = 0 /\ epochTime' = now
  BY Started
<1>3. now \in Nat /\ flushAt \in Nat /\ stall \in Nat /\ stall <= MaxStall
  BY TypeFacts, NumberFacts
<1>4. Modelled' = 0 /\ Behind' = Prime - h /\ Silent'
  BY <1>1, <1>2, <1>3, Lengths DEF Modelled, Behind, Silent
<1>5. PacingHolds'
  <2>1. /\ Prime - 0 <= Cap - 1 + MaxChunk /\ Prime - 0 < Cap
        /\ Prime - h < Cap + MaxStall
    BY <1>1, Lengths
  <2>2. QED
    BY <1>2, <1>4, <2>1 DEF PacingHolds
<1>6. TrackHolds'
  <2>1. Prime - h <= Longest /\ 0 <= h
    BY <1>1, Lengths DEF Longest
  <2>2. QED
    BY <1>1, <1>2, <1>4, <2>1 DEF TrackHolds, Longest
<1>7. LateWrite'
  <2>1. SUFFICES ASSUME InWrite, cur.gen # flushGen
                 PROVE  /\ now - flushAt <= stall
                        /\ Prime - h < Cap + MaxStall - (now - flushAt)
    BY <1>4 DEF LateWrite, InWrite
  <2>2. now - flushAt <= stall
    BY <2>1 DEF SpeakerHolds, LateWrite
  <2>3. QED
    BY <1>1, <1>3, <2>2, Lengths
<1>8. QED
  BY <1>5, <1>6, <1>7 DEF SpeakerHolds

\* The loop is left with room, or after more ticks than the longest chunk.
LEMMA RoomAtLast ==
  ASSUME TypeOK, ClockHolds, PacingHolds, Playing, pc = "pace", cur.gen = flushGen,
         Room \/ waited >= WaitCap
  PROVE  framesWritten - Modelled < Cap /\ Behind < Cap + MaxStall
<1>1. framesWritten - Modelled < Cap
  <2>1. CASE Room
    BY <2>1, NumberFacts, Lengths DEF Room, speakerFrames
  <2>2. CASE waited >= WaitCap
    <3>1. \/ framesWritten - Modelled < Cap
          \/ framesWritten - Modelled <= Cap - 1 + MaxChunk - waited
      BY DEF PacingHolds
    <3>2. waited \in Nat
      BY TypeFacts
    <3>3. QED
      BY <2>2, <3>1, <3>2, NumberFacts, Lengths
  <2>3. QED
    BY <2>1, <2>2
<1>2. Modelled <= heard + MaxStall \/ Behind <= MaxStall
  BY DEF ClockHolds, Playing
<1>3. QED
  BY <1>1, <1>2, NumberFacts, Lengths DEF Behind

LEMMA SpeakerMarks ==
  ASSUME TypeOK, SpeakerHolds, MarksEpoch
  PROVE  SpeakerHolds'
<1>1. /\ UNCHANGED <<track, running, playQ, framesWritten, heard, now, lastWriteAt,
                     flushGen, flushAt, oldEnd, stall>>
      /\ cur' = cur /\ pc = "mark" /\ pc' = "write"
  BY DEF MarksEpoch, sessionVars, flushVars
<1>2. Behind' = Behind /\ Silent' = Silent /\ Playing' = Playing /\ InWrite /\ InWrite'
  BY <1>1, SameQueue DEF Behind, Silent, Playing, InWrite
<1>3. Modelled' = framesWritten \/ Modelled' = Modelled
  <2>1. CASE EpochDue
    BY <1>1, <2>1, TypeFacts DEF MarksEpoch, Modelled
  <2>2. CASE ~EpochDue
    BY <1>1, <2>2 DEF MarksEpoch, Modelled
  <2>3. QED
    BY <2>1, <2>2
<1>4. Playing => /\ framesWritten - Modelled' < Cap
                 /\ framesWritten - Modelled' <= Cap - 1 + MaxChunk
  <2>1. framesWritten - framesWritten < Cap
        /\ framesWritten - framesWritten <= Cap - 1 + MaxChunk
    BY NumberFacts, Lengths
  <2>2. QED
    BY <1>2, <1>3, <2>1 DEF SpeakerHolds, PacingHolds
<1>5. PacingHolds'
  BY <1>1, <1>2, <1>4 DEF SpeakerHolds, PacingHolds
<1>6. TrackHolds' /\ LateWrite'
  BY <1>1, <1>2 DEF SpeakerHolds, TrackHolds, LateWrite, Longest
<1>7. QED
  BY <1>5, <1>6 DEF SpeakerHolds

LEMMA SpeakerIsFed ==
  ASSUME TypeOK, SpeakerHolds, Writes
  PROVE  SpeakerHolds'
<1>1. /\ pc = "write" /\ ~InWrite' /\ pc' = "idle"
      /\ UNCHANGED <<track, running, playQ, epochFrames, epochTime, now, heard, flushAt>>
  BY DEF Writes, Finishes, InWrite, sessionVars
<1>2. SUFFICES ASSUME Playing' PROVE SpeakerHolds'
  BY <1>1, NotPlaying
<1>3. Playing /\ track /\ InWrite /\ Modelled' = Modelled
  BY <1>1, <1>2, SameQueue DEF Playing, InWrite, Modelled
<1>4. PICK n \in 1..MaxChunk : cur.len = n
  BY <1>1, TypeFacts, ChunkFacts
<1>5. /\ framesWritten' = framesWritten + n /\ lastWriteAt' = now
      /\ cur.gen = flushGen => oldEnd' = oldEnd
      /\ cur.gen # flushGen => oldEnd' = framesWritten + n
  BY <1>3, <1>4 DEF Writes, Frames, Stamp
<1>6. framesWritten - Modelled < Cap /\ Behind < Cap + MaxStall
  BY <1>3 DEF SpeakerHolds, PacingHolds
<1>7. PacingHolds'
  <2>1. framesWritten + n - Modelled <= Cap - 1 + MaxChunk
    BY <1>4, <1>6, NumberFacts, Lengths
  <2>2. framesWritten' - Modelled' = framesWritten + n - Modelled
    BY <1>3, <1>5, NumberFacts
  <2>3. QED
    BY <1>1, <2>1, <2>2 DEF PacingHolds
<1>8. TrackHolds'
  <2>1. /\ framesWritten + n - heard <= Longest
        /\ framesWritten + n - heard <= Longest - (now - now)
    BY <1>4, <1>6, NumberFacts, Lengths DEF Longest, Behind
  <2>2. ASSUME cur.gen # flushGen
        PROVE  framesWritten + n - heard <= Longest - (now - flushAt)
    <3>1. /\ now - flushAt <= stall
          /\ heard = framesWritten \/ Behind < Cap + MaxStall - (now - flushAt)
      BY <1>3, <2>2 DEF SpeakerHolds, LateWrite
    <3>2. flushAt \in Nat
      BY TypeFacts
    <3>3. QED
      BY <1>4, <3>1, <3>2, NumberFacts, Lengths DEF Longest, Behind
  <2>3. cur.gen = flushGen => oldEnd <= heard \/ oldEnd - heard <= Longest - (now - flushAt)
    BY <1>3 DEF SpeakerHolds, TrackHolds
  <2>4. /\ heard' = heard /\ now' = now /\ flushAt' = flushAt /\ lastWriteAt' = now
        /\ framesWritten' = framesWritten + n
    BY <1>1, <1>5
  <2>5. oldEnd' <= heard' \/ oldEnd' - heard' <= Longest - (now' - flushAt')
    <3>1. CASE cur.gen = flushGen
      BY <1>5, <2>3, <2>4, <3>1
    <3>2. CASE cur.gen # flushGen
      <4>1. oldEnd' = framesWritten + n
        BY <1>5, <3>2
      <4>2. oldEnd' - heard' <= Longest - (now' - flushAt')
        BY <2>2, <2>4, <3>2, <4>1, NumberFacts
      <4>3. QED
        BY <4>2
    <3>3. QED
      BY <3>1, <3>2
  <2>6. Behind' <= Longest /\ Behind' <= Longest - (now' - lastWriteAt')
    BY <2>1, <2>4, NumberFacts DEF Behind
  <2>7. QED
    BY <2>5, <2>6, Zenon DEF TrackHolds, Longest
<1>9. LateWrite'
  BY <1>1 DEF LateWrite
<1>10. QED
  BY <1>7, <1>8, <1>9 DEF SpeakerHolds

-----------------------------------------------------------------------------
LEMMA SpeakerTicks ==
  ASSUME TypeOK, ClockHolds, SpeakerHolds, Tick
  PROVE  SpeakerHolds'
<1>1. /\ UNCHANGED <<track, running, playQ, framesWritten, epochFrames, epochTime,
                     lastWriteAt, flushGen, flushAt, oldEnd, waited>>
      /\ cur' = cur /\ now' = now + 1 /\ InWrite' = InWrite
      /\ InWrite => stall' = stall + 1
      /\ pc' = "pace" => pc \in {"pace", "sleep"}
      /\ pc' # "sleep"
  BY DEF Tick, sessionVars, clockVars, flushVars, InWrite
<1>2. SUFFICES ASSUME Playing' \/ InWrite' PROVE SpeakerHolds'
  BY NotPlaying
<1>3. Playing' = Playing
  BY <1>1, SameQueue DEF Playing
<1>4. /\ now \in Nat /\ lastWriteAt \in Nat /\ flushAt \in Nat /\ epochFrames \in Nat
      /\ epochTime \in Nat /\ waited \in Nat
  BY TypeFacts
<1>5. Modelled' = Modelled + 1
  BY <1>1, <1>4 DEF Modelled
<1>6. ASSUME track
      PROVE  \/ heard < framesWritten /\ heard' = heard + 1 /\ Behind' = Behind - 1
             \/ heard = framesWritten /\ heard' = framesWritten /\ Behind' = 0
  <2>1. \/ heard < framesWritten /\ heard' = heard + 1
        \/ heard = framesWritten /\ heard' = framesWritten
    BY <1>6, NumberFacts DEF Tick
  <2>2. framesWritten - (heard + 1) = (framesWritten - heard) - 1
        /\ framesWritten - framesWritten = 0
    BY NumberFacts
  <2>3. QED
    BY <1>1, <2>1, <2>2 DEF Behind
<1>7. PacingHolds'
  <2>1. SUFFICES ASSUME Playing PROVE PacingHolds'
    BY <1>3 DEF PacingHolds
  <2>2. framesWritten - (Modelled + 1) <= Cap - 1 + MaxChunk
    BY <2>1, NumberFacts, Lengths DEF SpeakerHolds, PacingHolds
  <2>3. pc' = "pace" /\ cur.gen = flushGen =>
          \/ framesWritten - (Modelled + 1) < Cap
          \/ framesWritten - (Modelled + 1) <= Cap - 1 + MaxChunk - waited
    BY <1>1, <1>4, <2>1, NumberFacts, Lengths DEF SpeakerHolds, PacingHolds
  <2>4. InWrite => framesWritten - (Modelled + 1) < Cap
    BY <2>1, NumberFacts, Lengths DEF SpeakerHolds, PacingHolds
  <2>5. InWrite => Behind' < Cap + MaxStall
    <3>1. InWrite => Behind < Cap + MaxStall
      BY <2>1 DEF SpeakerHolds, PacingHolds
    <3>2. Behind - 1 < Behind /\ 0 < Cap + MaxStall /\ Behind \in Int
      BY NumberFacts, Lengths DEF Behind
    <3>3. Behind < Cap + MaxStall => Behind - 1 < Cap + MaxStall
      BY <3>2, Lengths
    <3>4. QED
      BY <1>6, <2>1, <3>1, <3>2, <3>3 DEF Playing
  <2>6. framesWritten' - Modelled' = framesWritten - (Modelled + 1)
    BY <1>1, <1>5
  <2>7. QED
    BY <1>1, <2>2, <2>3, <2>4, <2>5, <2>6 DEF PacingHolds
<1>8. TrackHolds'
  <2>1. SUFFICES ASSUME Playing PROVE TrackHolds'
    BY <1>3 DEF TrackHolds
  <2>2. track /\ oldEnd <= framesWritten
    BY <2>1 DEF Playing, ClockHolds
  <2>3. Longest \in Nat /\ Behind \in Int /\ Longest' = Longest
    BY Lengths, NumberFacts DEF Longest, Behind
  <2>4. /\ Behind <= Longest
        /\ heard = framesWritten \/ framesWritten = Prime
           \/ Behind <= Longest - (now - lastWriteAt)
        /\ oldEnd <= heard \/ oldEnd - heard <= Longest - (now - flushAt)
    BY <2>1 DEF SpeakerHolds, TrackHolds, Silent
  <2>5. CASE heard < framesWritten /\ heard' = heard + 1 /\ Behind' = Behind - 1
    <3>1. Behind - 1 <= Longest
      BY <2>3, <2>4
    <3>2. \/ framesWritten = Prime
          \/ Behind - 1 <= Longest - (now + 1 - lastWriteAt)
      BY <1>4, <2>3, <2>4, <2>5, NumberFacts
    <3>3. \/ oldEnd <= heard + 1
          \/ oldEnd - (heard + 1) <= Longest - (now + 1 - flushAt)
      BY <1>4, <2>3, <2>4, NumberFacts
    <3>4. Behind' <= Longest'
      BY <2>3, <2>5, <3>1, Zenon
    <3>5. Silent' \/ Behind' <= Longest' - (now' - lastWriteAt')
      BY <1>1, <2>3, <2>5, <3>2, <1>4 DEF Silent
    <3>6. oldEnd' <= heard' \/ oldEnd' - heard' <= Longest' - (now' - flushAt')
      BY <1>1, <2>3, <2>5, <3>3, <1>4, NumberFacts
    <3>7. QED
      BY <3>4, <3>5, <3>6, Zenon DEF TrackHolds, Longest
  <2>6. CASE heard = framesWritten /\ heard' = framesWritten /\ Behind' = 0
    BY <1>1, <2>2, <2>3, <2>6 DEF TrackHolds, Silent
  <2>7. QED
    BY <1>6, <2>2, <2>5, <2>6
<1>9. LateWrite'
  <2>1. SUFFICES ASSUME InWrite, cur.gen # flushGen
                 PROVE  /\ now + 1 - flushAt <= stall + 1
                        /\ Playing => \/ heard' = framesWritten
                                      \/ Behind' < Cap + MaxStall - (now + 1 - flushAt)
    BY <1>1, <1>3, <1>4, NumberFacts DEF LateWrite
  <2>2. now - flushAt <= stall
    BY <2>1 DEF SpeakerHolds, LateWrite
  <2>3. now + 1 - flushAt <= stall + 1
    BY <1>4, <2>2, NumberFacts
  <2>4. ASSUME Playing, heard # framesWritten
        PROVE  Behind - 1 < Cap + MaxStall - (now + 1 - flushAt)
    <3>1. Behind < Cap + MaxStall - (now - flushAt)
      BY <2>1, <2>4 DEF SpeakerHolds, LateWrite
    <3>2. Behind \in Int
      BY NumberFacts DEF Behind
    <3>3. QED
      BY <1>4, <3>1, <3>2, Lengths
  <2>5. ASSUME Playing
        PROVE  heard' = framesWritten \/ Behind' < Cap + MaxStall - (now + 1 - flushAt)
    <3>1. CASE heard = framesWritten
      BY <1>6, <2>5, <3>1, NumberFacts DEF Playing
    <3>2. CASE heard # framesWritten
      BY <1>6, <2>4, <2>5, <3>2 DEF Playing
    <3>3. QED
      BY <3>1, <3>2
  <2>6. QED
    BY <2>3, <2>5
<1>10. QED
  BY <1>7, <1>8, <1>9 DEF SpeakerHolds

\* A handler that flushes and queues a teardown, or that has ended the conversation,
\* leaves no track that plays.
LEMMA SpeakerStops ==
  ASSUME TypeOK, SpeakerHolds, ~Playing', UNCHANGED <<now, pc, stall>>,
         \/ flushAt' = now
         \/ flushAt' = flushAt /\ flushGen' = flushGen /\ cur' = cur
  PROVE  SpeakerHolds'
<1>1. now - now <= stall
  BY NumberFacts
<1>2. InWrite' = InWrite
  BY DEF InWrite
<1>3. InWrite' /\ cur'.gen # flushGen' => now' - flushAt' <= stall'
  BY <1>1, <1>2 DEF SpeakerHolds, LateWrite
<1>4. QED
  BY <1>3, NotPlaying

\* A chunk taken from the queue has waited for nothing yet.
LEMMA SpeakerTakes ==
  ASSUME TypeOK, SpeakerHolds, TakesChunk
  PROVE  SpeakerHolds'
<1>1. /\ UNCHANGED <<track, running, framesWritten, epochFrames, epochTime, now, heard,
                     lastWriteAt, flushGen, flushAt, oldEnd, stall>>
      /\ pc = "idle"
      /\ \/ pc' = "pace" /\ waited' = 0
         \/ pc' = "idle"
  BY DEF TakesChunk, sessionVars, clockVars, flushVars
<1>2. Playing' = Playing
  BY <1>1, ChunkTaken DEF Playing, TakesChunk
<1>3. /\ Modelled' = Modelled /\ Behind' = Behind /\ Silent' = Silent /\ ~InWrite'
      /\ Longest' = Longest
  BY <1>1 DEF Modelled, Behind, Silent, InWrite, Longest
<1>4. PacingHolds'
  <2>1. SUFFICES ASSUME Playing PROVE PacingHolds'
    BY <1>2 DEF PacingHolds
  <2>2. /\ framesWritten - Modelled <= Cap - 1 + MaxChunk
        /\ framesWritten - Modelled <= Cap - 1 + MaxChunk - 0
    BY <2>1, NumberFacts, Lengths DEF SpeakerHolds, PacingHolds
  <2>3. framesWritten' - Modelled' = framesWritten - Modelled
    BY <1>1, <1>3
  <2>4. QED
    BY <1>1, <1>3, <2>2, <2>3 DEF PacingHolds
<1>5. TrackHolds' /\ LateWrite'
  BY <1>1, <1>2, <1>3 DEF SpeakerHolds, TrackHolds, LateWrite
<1>6. QED
  BY <1>4, <1>5 DEF SpeakerHolds

LEMMA SpeakerWaits ==
  ASSUME TypeOK, SpeakerHolds, KeepsWaiting
  PROVE  SpeakerHolds'
<1>1. /\ UNCHANGED <<track, running, playQ, framesWritten, epochFrames, epochTime, now,
                     heard, lastWriteAt, flushGen, flushAt, oldEnd, stall>>
      /\ cur' = cur /\ pc = "pace" /\ pc' = "sleep" /\ waited' = waited + 1
  BY DEF KeepsWaiting, sessionVars, clockVars, flushVars
<1>2. Playing' = Playing
  BY <1>1, SameQueue DEF Playing
<1>3. /\ Modelled' = Modelled /\ Behind' = Behind /\ Silent' = Silent /\ ~InWrite'
      /\ Longest' = Longest
  BY <1>1 DEF Modelled, Behind, Silent, InWrite, Longest
<1>4. PacingHolds'
  <2>1. SUFFICES ASSUME Playing PROVE PacingHolds'
    BY <1>2 DEF PacingHolds
  <2>2. cur.gen = flushGen =>
          \/ framesWritten - Modelled < Cap
          \/ framesWritten - Modelled <= Cap - 1 + MaxChunk - waited
    BY <1>1, <2>1 DEF SpeakerHolds, PacingHolds
  <2>3. Cap - 1 + MaxChunk - waited = Cap + MaxChunk - (waited + 1)
    <3>1. waited \in Nat
      BY TypeFacts
    <3>2. QED
      BY <3>1, Lengths
  <2>4. framesWritten' - Modelled' = framesWritten - Modelled
    BY <1>1, <1>3
  <2>5. framesWritten - Modelled <= Cap - 1 + MaxChunk
    BY <2>1 DEF SpeakerHolds, PacingHolds
  <2>6. QED
    BY <1>1, <1>3, <2>2, <2>3, <2>4, <2>5 DEF PacingHolds
<1>5. TrackHolds' /\ LateWrite'
  BY <1>1, <1>2, <1>3 DEF SpeakerHolds, TrackHolds, LateWrite
<1>6. QED
  BY <1>4, <1>5 DEF SpeakerHolds

LEMMA SpeakerLeaves ==
  ASSUME TypeOK, ClockHolds, SpeakerHolds, LeavesLoop
  PROVE  SpeakerHolds'
<1>1. /\ UNCHANGED <<track, running, playQ, framesWritten, epochFrames, epochTime, now,
                     heard, lastWriteAt, flushGen, flushAt, oldEnd>>
      /\ pc = "pace"
      /\ \/ StillWanted /\ pc' = "mark" /\ cur' = cur
         \/ pc' = "idle"
  BY DEF LeavesLoop, Finishes, sessionVars, clockVars, flushVars
<1>2. Playing' = Playing
  BY <1>1, SameQueue DEF Playing
<1>3. /\ Modelled' = Modelled /\ Behind' = Behind /\ Silent' = Silent
      /\ Longest' = Longest
      /\ InWrite' => cur'.gen = flushGen' /\ cur.gen = flushGen
  BY <1>1 DEF Modelled, Behind, Silent, InWrite, Longest, StillWanted
<1>4. Playing /\ InWrite' => framesWritten - Modelled < Cap /\ Behind < Cap + MaxStall
  <2>1. SUFFICES ASSUME Playing, InWrite'
                 PROVE  framesWritten - Modelled < Cap /\ Behind < Cap + MaxStall
    OBVIOUS
  <2>2. Room \/ waited >= WaitCap
    BY <1>3, <2>1 DEF LeavesLoop, Paced, Playing
  <2>3. QED
    BY <1>1, <1>3, <2>1, <2>2, RoomAtLast DEF SpeakerHolds
<1>5. PacingHolds'
  <2>1. framesWritten' - Modelled' = framesWritten - Modelled
    BY <1>1, <1>3
  <2>2. QED
    BY <1>1, <1>2, <1>3, <1>4, <2>1 DEF SpeakerHolds, PacingHolds
<1>6. TrackHolds' /\ LateWrite'
  BY <1>1, <1>2, <1>3 DEF SpeakerHolds, TrackHolds, LateWrite
<1>7. QED
  BY <1>5, <1>6 DEF SpeakerHolds

LEMMA SpeakerSteps ==
  TypeOK /\ StopsFirst /\ GensAreOld /\ ClockHolds /\ SpeakerHolds /\ [Next]_vars
    => SpeakerHolds'
<1> SUFFICES ASSUME TypeOK, StopsFirst, GensAreOld, ClockHolds, SpeakerHolds,
                    [Next]_vars
             PROVE  SpeakerHolds'
  OBVIOUS
<1>1. CASE DeltaArrives
  BY <1>1, DeltaQueued, SpeakerQuiet
     DEF DeltaArrives, sessionVars, clockVars, flushVars, execVars, heardVars, Playing
<1>2. CASE UNCHANGED vars
  BY <1>2, SameQueue, SpeakerQuiet
     DEF vars, sessionVars, clockVars, flushVars, execVars, heardVars, Playing
<1>3. CASE SilenceNow \/ SpeechStarted
  BY <1>3, SameQueue, SpeakerAbandons
     DEF SilenceNow, SpeechStarted, sessionVars, clockVars, execVars, heardVars, Playing
<1>4. CASE Fails \/ StopFlushes
  <2>1. playQ' = Append(playQ, Teardown) /\ UNCHANGED <<now, pc, stall>> /\ flushAt' = now
    BY <1>4 DEF Fails, StopFlushes, Abandon, execVars
  <2>2. ~Playing'
    BY <2>1, TeardownAdded DEF Playing
  <2>3. QED
    BY <2>1, <2>2, SpeakerStops
<1>5. CASE StopBegins
  BY <1>5, SpeakerStops DEF StopBegins, Playing, flushVars, execVars
<1>6. CASE TearsDown
  BY <1>6, SpeakerStops DEF TearsDown, Playing, flushVars, execVars
<1>7. CASE Start \/ Opens
  <2>1. /\ StartPlayback /\ UNCHANGED <<playQ, now, waited, stall, pc, flushGen, flushAt>>
        /\ cur' = cur
    BY <1>7 DEF Start, Opens, execVars
  <2>2. CASE ~track
    BY <2>1, <2>2, SpeakerStarts
  <2>3. CASE track
    <3>1. UNCHANGED <<heardVars, oldEnd>>
      BY <2>1, <2>3, Started DEF heardVars
    <3>2. Playing' => Playing
      <4>1. CASE Start
        <5>1. TeardownQueued'
          BY <2>1, <2>3, <4>1, SameQueue DEF StopsFirst, Start
        <5>2. QED
          BY <5>1 DEF Playing
      <4>2. CASE Opens
        BY <2>1, <2>3, <4>2, SameQueue DEF Opens, Playing
      <4>3. QED
        BY <1>7, <4>1, <4>2
    <3>3. QED
      BY <2>1, <3>1, <3>2, SpeakerQuiet
  <2>4. QED
    BY <2>2, <2>3
<1>8. CASE TakesChunk
  BY <1>8, SpeakerTakes
<1>9. CASE KeepsWaiting
  BY <1>9, SpeakerWaits
<1>10. CASE LeavesLoop
  BY <1>10, SpeakerLeaves
<1>11. CASE MarksEpoch
  BY <1>11, SpeakerMarks
<1>12. CASE Writes
  BY <1>12, SpeakerIsFed
<1>13. CASE Tick
  BY <1>13, SpeakerTicks
<1>14. QED
  BY <1>1, <1>2, <1>3, <1>4, <1>5, <1>6, <1>7, <1>8, <1>9, <1>10, <1>11, <1>12, <1>13
     DEF Next, PlayExec

-----------------------------------------------------------------------------
(* The invariant, and what follows from it. *)

LEMMA InvInit == Init => IInv
<1> SUFFICES ASSUME Init PROVE IInv
  OBVIOUS
<1>1. TypeOK
  BY TypeInit
<1>2. StopsFirst /\ GensAreOld
  BY Lengths DEF Init, StopsFirst, GensAreOld, Teardown
<1>3. ClockHolds /\ SpeakerHolds
  BY DEF Init, ClockHolds, SpeakerHolds, PacingHolds, TrackHolds, LateWrite, Playing,
     InWrite
<1>4. QED
  BY <1>1, <1>2, <1>3 DEF IInv, SpeakerHolds

LEMMA InvSteps == IInv /\ [Next]_vars => IInv'
<1> SUFFICES ASSUME IInv, [Next]_vars PROVE IInv'
  OBVIOUS
<1>1. TypeOK /\ StopsFirst /\ GensAreOld /\ ClockHolds /\ SpeakerHolds
  BY DEF IInv, SpeakerHolds
<1>2. TypeOK' /\ StopsFirst' /\ GensAreOld' /\ ClockHolds' /\ SpeakerHolds'
  BY <1>1, TypeSteps, StopsFirstSteps, GensSteps, ClockSteps, SpeakerSteps
<1>3. QED
  BY <1>2 DEF IInv, SpeakerHolds

LEMMA InvHolds == Spec => []IInv
BY InvInit, InvSteps, PTL DEF Spec

\* speakerFrames() never strays further from the speaker than one preemption.
THEOREM PlayheadStaysHonest == Spec => []PlayheadHonest
<1>1. IInv => PlayheadHonest
  <2>1. SUFFICES ASSUME TypeOK, ClockHolds, track
                 PROVE  /\ speakerFrames - heard <= MaxStall
                        /\ heard - speakerFrames <= MaxStall
    BY DEF IInv, PlayheadHonest
  <2>2. /\ heard <= Modelled + MaxStall
        /\ Modelled <= heard + MaxStall \/ framesWritten - heard <= MaxStall
        /\ heard <= framesWritten
    BY <2>1, NumberFacts DEF ClockHolds, Behind
  <2>3. CASE Modelled < framesWritten
    BY <2>1, <2>2, <2>3, NumberFacts DEF speakerFrames
  <2>4. CASE ~(Modelled < framesWritten)
    BY <2>1, <2>2, <2>4, NumberFacts DEF speakerFrames
  <2>5. QED
    BY <2>3, <2>4
<1>2. QED
  BY <1>1, InvHolds, PTL

\* What playExec's pacing lets into the track, whatever is queued when.
THEOREM TrackStaysBounded == Spec => []TrackBounded
<1>1. IInv => TrackBounded
  BY DEF IInv, TrackHolds, TrackBounded, Behind
<1>2. QED
  BY <1>1, InvHolds, PTL

\* The guard of playExec's pacing, 100 rounds, is never what ends it.
THEOREM PacingAlwaysEnds == Spec => []PacingEnds
<1>1. IInv => PacingEnds
  <2>1. SUFFICES ASSUME IInv, pc = "pace", track, Paced, waited >= WaitCap
                 PROVE  Room
    BY DEF PacingEnds
  <2>2. TypeOK /\ ClockHolds /\ PacingHolds
    BY <2>1 DEF IInv
  <2>3. Playing /\ cur.gen = flushGen
    BY <2>1 DEF IInv, GensAreOld, Paced, Playing
  <2>4. framesWritten - Modelled < Cap
    BY <2>1, <2>2, <2>3, RoomAtLast
  <2>5. Prime \in Nat /\ 0 < Cap
    BY Lengths
  <2>6. QED
    BY <2>2, <2>4, <2>5, NumberFacts, Lengths DEF Room, speakerFrames
<1>2. QED
  BY <1>1, InvHolds, PTL

\* What the starve watcher takes for silence is silence.
THEOREM StarvedStaysSilent == Spec => []StarvedMeansSilent
<1>1. IInv => StarvedMeansSilent
  <2>1. SUFFICES ASSUME TypeOK, TrackHolds, Playing, now - lastWriteAt >= Longest
                 PROVE  Silent
    BY DEF IInv, StarvedMeansSilent
  <2>2. Silent \/ framesWritten - heard <= Longest - (now - lastWriteAt)
    BY <2>1 DEF TrackHolds, Behind
  <2>3. lastWriteAt \in Nat /\ Longest \in Nat /\ heard <= framesWritten
    BY <2>1, TypeFacts, Lengths DEF Longest, Playing
  <2>4. Silent \/ heard = framesWritten
    BY <2>1, <2>2, <2>3, NumberFacts
  <2>5. QED
    BY <2>4 DEF Silent
<1>2. QED
  BY <1>1, InvHolds, PTL

\* What silenceNow, speech_started and the teardowns abandon is soon out of the air.
THEOREM FlushedSoonStaysSilent == Spec => []FlushedSoonSilent
<1>1. IInv => FlushedSoonSilent
  <2>1. SUFFICES ASSUME TypeOK, TrackHolds, Playing, now - flushAt >= Longest
                 PROVE  oldEnd <= heard
    BY DEF IInv, FlushedSoonSilent
  <2>2. oldEnd <= heard \/ oldEnd - heard <= Longest - (now - flushAt)
    BY <2>1 DEF TrackHolds
  <2>3. flushAt \in Nat /\ Longest \in Nat
    BY <2>1, TypeFacts, Lengths DEF Longest
  <2>4. QED
    BY <2>1, <2>2, <2>3, NumberFacts
<1>2. QED
  BY <1>1, InvHolds, PTL
=============================================================================
