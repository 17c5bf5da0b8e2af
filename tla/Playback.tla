------------------------------ MODULE Playback ------------------------------
(***************************************************************************)
(* From an audio delta to the speaker: the chunks queued on playExec, the  *)
(* pacing of the writes, the playhead the app computes from the clock, the *)
(* flush that abandons what is queued, and the track's life.               *)
(*                                                                         *)
(* Time is in ticks, and a tick of audio is one frame, so lengths and      *)
(* times have one unit. "heard" is what the speaker has really played: the *)
(* DAC consumes a frame a tick as long as the track has one. The app does  *)
(* not know it; it acts on speakerFrames().                                *)
(*                                                                         *)
(* A thread that runs may be preempted: between playExec's last look at    *)
(* flushGen and its write at most MaxStall ticks pass, and as many between *)
(* the first frames of a track and the reading of its epoch. No other step *)
(* has a deadline. Volume, ducking and the orb's level are left out. What  *)
(* decides that an answer is silenced is TurnTaking; which socket is open  *)
(* is Connection. Here a conversation has one socket, and an earlier one   *)
(* that is closing may still deliver ("lingering"); a socket that opens    *)
(* after its conversation has ended is left to Connection.                 *)
(***************************************************************************)
EXTENDS Integers, Sequences

CONSTANTS
  Cap,         \* frames from which the track takes no more: 300 ms
  Prime,       \* silence written first: 100 ms
  WaitCap,     \* ticks after which pacing gives up: 4 s
  MaxChunk,    \* the longest delta
  MaxStall,    \* the longest preemption inside a write
  MaxTime, MaxDeltas, MaxGen   \* bounds on time, deltas and flushes

ASSUME LengthsAssumption ==
  /\ {Cap, Prime, WaitCap, MaxChunk, MaxStall} \subseteq Nat
  /\ {MaxTime, MaxDeltas, MaxGen} \subseteq Nat
  /\ Prime < Cap
  /\ 0 < MaxChunk /\ MaxChunk <= WaitCap

VARIABLES
  running,                   \* a conversation is on
  stopping,                  \* stop() has not bumped flushGen yet
  up,                        \* its socket is open
  lingering,                 \* a closed socket still delivers
  track,                     \* there is an AudioTrack
  framesWritten, epochFrames, epochTime, lastWriteAt, flushGen,
  playQ,                     \* playExec's tasks
  pc, cur, waited            \* playExec: where it is, its chunk, pacing's count

VARIABLES                    \* the world and history
  now,
  heard,                     \* frames of the track the speaker has played
  stall,                     \* ticks since playExec last looked at flushGen
  flushAt,                   \* when flushGen was last bumped
  oldEnd,                    \* end of what the track got of older generations
  deltas

clockVars == <<framesWritten, epochFrames, epochTime, lastWriteAt>>
execVars == <<pc, cur, waited, stall>>
sessionVars == <<running, stopping, up, lingering>>
flushVars == <<flushGen, flushAt, oldEnd>>
vars == <<sessionVars, track, clockVars, flushVars, playQ, execVars, now, heard,
          deltas>>

Chunk == [gen : Nat, len : 1..MaxChunk]
Teardown == [gen |-> 0, len |-> 0]
TeardownQueued == \E i \in 1..Len(playQ) : playQ[i] = Teardown

Init ==
  /\ running = FALSE /\ stopping = FALSE /\ up = FALSE /\ lingering = FALSE
  /\ track = FALSE
  /\ framesWritten = 0 /\ epochFrames = 0 /\ epochTime = 0 /\ lastWriteAt = 0
  /\ flushGen = 0 /\ flushAt = 0 /\ oldEnd = 0
  /\ playQ = <<>>
  /\ pc = "idle" /\ cur = Teardown /\ waited = 0 /\ stall = 0
  /\ now = 0 /\ heard = 0 /\ deltas = 0

-----------------------------------------------------------------------------
(* The playhead. *)

Modelled == epochFrames + now - epochTime
speakerFrames == IF Modelled < framesWritten THEN Modelled ELSE framesWritten

EpochStale == epochFrames   \* mutant: a track begins with the last one's epoch
EpochAfresh == 0

\* A new track is primed with silence, and the clock starts with it, at most
\* MaxStall ticks after the speaker. A track that is there is kept.
StartPlayback ==
  IF track THEN UNCHANGED <<track, clockVars, heard, oldEnd>>
  ELSE /\ track' = TRUE
       /\ framesWritten' = Prime
       /\ epochFrames' = EpochAfresh /\ epochTime' = now
       /\ heard' \in {d \in 0..Prime : d <= MaxStall}
       /\ oldEnd' = 0
       /\ UNCHANGED lastWriteAt

-----------------------------------------------------------------------------
(* The socket's thread and the main thread. *)

\* A delta is queued with the generation of the moment.
DeltaArrives ==
  /\ up \/ lingering
  /\ deltas < MaxDeltas /\ deltas' = deltas + 1
  /\ \E n \in 1..MaxChunk : playQ' = Append(playQ, [gen |-> flushGen, len |-> n])
  /\ UNCHANGED <<sessionVars, track, clockVars, flushVars, execVars, now, heard>>

\* ++flushGen: what was queued or written so far is of an older generation.
Abandon ==
  /\ flushGen < MaxGen /\ flushGen' = flushGen + 1
  /\ flushAt' = now
  /\ oldEnd' = framesWritten

\* silenceNow().
SilenceNow ==
  /\ running /\ ~stopping
  /\ Abandon
  /\ UNCHANGED <<sessionVars, track, clockVars, playQ, execVars, now, heard, deltas>>

\* speech_started while the gate is down.
SpeechStarted ==
  /\ up \/ lingering
  /\ framesWritten > speakerFrames
  /\ Abandon
  /\ UNCHANGED <<sessionVars, track, clockVars, playQ, execVars, now, heard, deltas>>

Start ==
  /\ ~running /\ ~stopping
  /\ running' = TRUE
  /\ StartPlayback
  /\ UNCHANGED <<stopping, up, lingering, flushGen, flushAt, playQ, execVars, now,
                 deltas>>

\* onOpen, of a first or a later socket. A handshake takes longer than playExec
\* needs to reach a teardown.
Opens ==
  /\ running /\ ~stopping /\ ~up /\ ~TeardownQueued
  /\ up' = TRUE
  /\ StartPlayback
  /\ UNCHANGED <<running, stopping, lingering, flushGen, flushAt, playQ, execVars,
                 now, deltas>>

\* onFailure, of a dial or of an open socket, with retries left.
Fails ==
  /\ running /\ ~stopping
  /\ up' = FALSE
  /\ Abandon
  /\ playQ' = Append(playQ, Teardown)
  /\ UNCHANGED <<running, stopping, lingering, track, clockVars, execVars, now,
                 heard, deltas>>

\* stop() clears running some lines before it bumps flushGen.
StopBegins ==
  /\ running /\ ~stopping
  /\ running' = FALSE /\ stopping' = TRUE
  /\ up' = FALSE /\ lingering' = (lingering \/ up)
  /\ UNCHANGED <<track, clockVars, flushVars, playQ, execVars, now, heard, deltas>>

StopFlushes ==
  /\ stopping /\ stopping' = FALSE
  /\ Abandon
  /\ playQ' = Append(playQ, Teardown)
  /\ UNCHANGED <<running, up, lingering, track, clockVars, execVars, now, heard,
                 deltas>>

-----------------------------------------------------------------------------
(* playExec. *)

TakesChunk ==
  /\ pc = "idle" /\ playQ # <<>> /\ Head(playQ) # Teardown
  /\ playQ' = Tail(playQ)
  /\ IF Head(playQ).gen = flushGen
     THEN pc' = "pace" /\ cur' = Head(playQ) /\ waited' = 0
     ELSE UNCHANGED <<pc, cur, waited>>
  /\ UNCHANGED <<sessionVars, track, clockVars, flushVars, stall, now, heard, deltas>>

TearsDown ==
  /\ pc = "idle" /\ playQ # <<>> /\ Head(playQ) = Teardown
  /\ playQ' = Tail(playQ)
  /\ track' = FALSE
  /\ UNCHANGED <<sessionVars, clockVars, flushVars, execVars, now, heard, deltas>>

RoomForOneMore == framesWritten - speakerFrames <= Cap   \* mutant: off by one
Room == framesWritten - speakerFrames < Cap
Paced == running /\ cur.gen = flushGen   \* the loop's condition
WantedOnce == TRUE   \* mutant: the generation is not looked at again
StillWanted == cur.gen = flushGen

\* The loop sleeps for 40 ms, or longer ...
KeepsWaiting ==
  /\ pc = "pace" /\ Paced /\ ~Room /\ waited < WaitCap
  /\ pc' = "sleep" /\ waited' = waited + 1
  /\ UNCHANGED <<sessionVars, track, clockVars, flushVars, playQ, cur, stall, now,
                 heard, deltas>>

\* playExec is done with the chunk in hand.
Finishes == pc' = "idle" /\ cur' = Teardown /\ waited' = 0 /\ stall' = 0

\* ... or is left, and the generation is tested for the last time.
LeavesLoop ==
  /\ pc = "pace"
  /\ ~Paced \/ Room \/ waited >= WaitCap
  /\ IF StillWanted THEN pc' = "mark" /\ UNCHANGED <<cur, waited, stall>> ELSE Finishes
  /\ UNCHANGED <<sessionVars, track, clockVars, flushVars, playQ, now, heard, deltas>>

EpochOnce == FALSE   \* mutant: the epoch is only taken when the track begins
EpochDue == speakerFrames >= framesWritten

\* The stream restarts after a drain: a new epoch.
MarksEpoch ==
  /\ pc = "mark" /\ pc' = "write"
  /\ IF EpochDue THEN epochFrames' = framesWritten /\ epochTime' = now
                 ELSE UNCHANGED <<epochFrames, epochTime>>
  /\ UNCHANGED <<sessionVars, track, framesWritten, lastWriteAt, flushVars, playQ,
                 cur, waited, stall, now, heard, deltas>>

Bytes(n) == 2 * n   \* mutant: pcm.size, not pcm.size / 2
Frames(n) == n
StampAtRestart == IF EpochDue THEN now ELSE lastWriteAt   \* mutant
Stamp == now

\* The write, which the track's 3 s of buffer never make wait. Without a track
\* nothing happens.
Writes ==
  /\ pc = "write" /\ Finishes
  /\ IF track
     THEN /\ framesWritten' = framesWritten + Frames(cur.len)
          /\ lastWriteAt' = Stamp
          /\ oldEnd' = IF cur.gen = flushGen THEN oldEnd ELSE framesWritten'
     ELSE UNCHANGED <<framesWritten, lastWriteAt, oldEnd>>
  /\ UNCHANGED <<sessionVars, track, epochFrames, epochTime, flushGen, flushAt, playQ,
                 now, heard, deltas>>

PlayExec ==
  \/ TakesChunk \/ TearsDown \/ KeepsWaiting \/ LeavesLoop \/ MarksEpoch \/ Writes

-----------------------------------------------------------------------------
\* A tick: the speaker plays a frame if it has one, and a sleep may be over.
InWrite == pc \in {"mark", "write"}
Tick ==
  /\ now < MaxTime /\ now' = now + 1
  /\ InWrite => stall < MaxStall
  /\ stall' = IF InWrite THEN stall + 1 ELSE stall
  /\ heard' = IF track /\ heard < framesWritten THEN heard + 1 ELSE heard
  /\ pc' = IF pc = "sleep" THEN "pace" ELSE pc
  /\ UNCHANGED <<sessionVars, track, clockVars, flushVars, playQ, cur, waited, deltas>>

Next ==
  \/ DeltaArrives \/ SilenceNow \/ SpeechStarted \/ Start \/ Opens \/ Fails
  \/ StopBegins \/ StopFlushes \/ PlayExec \/ Tick

Spec == Init /\ [][Next]_vars

-----------------------------------------------------------------------------
(* Properties. *)

FlagsTyped ==
  /\ running \in BOOLEAN /\ stopping \in BOOLEAN /\ track \in BOOLEAN
  /\ up \in BOOLEAN /\ lingering \in BOOLEAN

\* Every variable keeps its type; a track's epoch never lies beyond what was
\* written of it.
TypeOK ==
  /\ FlagsTyped
  /\ framesWritten \in Nat /\ epochFrames \in Nat /\ heard \in Nat /\ oldEnd \in Nat
  /\ track => epochFrames <= framesWritten /\ heard <= framesWritten
  /\ now \in 0..MaxTime
  /\ epochTime \in 0..now /\ lastWriteAt \in 0..now /\ flushAt \in 0..now
  /\ flushGen \in 0..MaxGen /\ deltas \in 0..MaxDeltas
  /\ playQ \in Seq(Chunk \cup {Teardown})
  /\ pc \in {"idle", "pace", "sleep", "mark", "write"}
  /\ cur \in Chunk \cup {Teardown} /\ (pc # "idle" => cur # Teardown)
  /\ waited \in 0..WaitCap
  /\ stall \in 0..MaxStall

\* "Accurate to ~20ms and can never freeze": the modelled playhead is never
\* further from the speaker's than one preemption, in either direction, however
\* drains, restarts, flushes and new tracks follow each other: errors do not add
\* up.
PlayheadHonest ==
  track => /\ speakerFrames - heard <= MaxStall
           /\ heard - speakerFrames <= MaxStall

\* The track this conversation plays on, with no teardown on its way.
Playing == track /\ running /\ ~TeardownQueued

\* "Cap what's in the track at ~300ms", and what the cap really is: the test comes
\* before the write, so the track holds up to a chunk and a preemption more.
Longest == Cap - 1 + MaxChunk + MaxStall
TrackBounded == Playing => framesWritten - heard <= Longest

\* "Belt-and-suspenders; the clock makes this unreachable": pacing never gives up
\* on a track that plays.
PacingEnds ==
  pc = "pace" /\ track /\ Paced /\ waited >= WaitCap => Room

\* The starve watcher's physics: when the last write is Longest ticks ago the speaker
\* is silent (the silence a track is primed with is no sound). Of the 1300 ms it
\* waits, what is left is silence for certain.
Silent == heard = framesWritten \/ framesWritten = Prime
StarvedMeansSilent == Playing /\ now - lastWriteAt >= Longest => Silent

\* A flush is heard soon: Longest ticks later nothing of an older generation is left
\* in the track, although a chunk that had passed its last test is still written
\* after the flush.
FlushedSoonSilent == Playing /\ now - flushAt >= Longest => oldEnd <= heard
=============================================================================
