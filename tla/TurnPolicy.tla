----------------------------- MODULE TurnPolicy -----------------------------
(***************************************************************************)
(* What RealtimeSession promises of the user's utterances, without saying  *)
(* how: "WE create responses only for deliberate turns". Each utterance    *)
(* waits, once it is over, for one verdict: it is answered, while a        *)
(* conversation is on, or dropped for good. One answer may be for several  *)
(* utterances (the pieces of a talk-over); no utterance is answered twice  *)
(* or after it was dropped, and none before its speaker has finished.      *)
(* TurnTaking implements this.                                             *)
(***************************************************************************)
EXTENDS Naturals

CONSTANT Turns   \* the utterances, numbered in the order they are made

VARIABLES
  open,      \* a conversation is on
  heard,     \* utterances that are over
  waiting,   \* those among them without a verdict
  answers    \* utterance -> answers asked for

vars == <<open, heard, waiting, answers>>

Init ==
  /\ open = TRUE /\ heard = 0 /\ waiting = {}
  /\ answers = [t \in Turns |-> 0]

Hear ==
  /\ heard' = heard + 1 /\ heard' \in Turns
  /\ waiting' = waiting \cup {heard'}
  /\ UNCHANGED <<open, answers>>

Answer ==
  /\ open
  /\ \E T \in SUBSET waiting :
       /\ waiting' = waiting \ T
       /\ answers' = [t \in Turns |-> IF t \in T THEN answers[t] + 1 ELSE answers[t]]
  /\ UNCHANGED <<open, heard>>

\* What waits may be lost, and an utterance that is under way be cut off, with the
\* link or with the conversation.
Drop ==
  /\ heard' \in {heard, heard + 1}
  /\ waiting' \subseteq waiting
  /\ UNCHANGED <<open, answers>>

OpenOrClose ==
  /\ open' = ~open
  /\ heard' \in {heard, heard + 1}
  /\ waiting' \subseteq waiting
  /\ UNCHANGED answers

Next == Hear \/ Answer \/ Drop \/ OpenOrClose

Spec == Init /\ [][Next]_vars
=============================================================================
