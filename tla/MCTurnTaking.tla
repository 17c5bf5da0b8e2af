---------------------------- MODULE MCTurnTaking ----------------------------
(***************************************************************************)
(* TurnTaking on small instances. Generations are only ever compared with  *)
(* the current one, and a stale watcher or a stale evaluation does nothing *)
(* but disappear, so states that differ only in stale generations behave   *)
(* alike: the runs of safety properties identify them with the view below. *)
(***************************************************************************)
EXTENDS TurnTaking

LiveChunks == [i \in 1..Len(playQ) |-> IF playQ[i].gen = flushGen
                                       THEN playQ[i].resp ELSE 0]

LiveTasks == [i \in 1..Len(mainQ) |->
                IF mainQ[i].op = "eval"
                THEN [op |-> "eval", live |-> mainQ[i].arm = evalArm] ELSE mainQ[i]]

SettledTimers ==
  {IF task.op = "eval" THEN [op |-> "eval"] ELSE task : task \in timers}

View ==
  <<running, gateVars, respActive, audioChunks = 0, stillborns, turnEcho,
    gatedFrags, ungateGen \in watchers, slowTools, LiveTasks, SettledTimers,
    LiveChunks, speaker, outbox, inbox, serverVars, roomVars, ghostVars>>
=============================================================================
