----------------------------- MODULE Panel_proofs -----------------------------
(***************************************************************************)
(* Theorems about Panel, for every set of lights, slider positions and     *)
(* delays of the tick.                                                     *)
(*                                                                         *)
(* The mode's dwell is measured by the code from the first reading that    *)
(* disagrees, by the property from the last that agreed: PendingHolds says *)
(* how they keep pace. What a restart shows was saved at the last tick:    *)
(* SavedHolds follows it through choices, lost writes and restarts.        *)
(***************************************************************************)
EXTENDS Panel, TLAPS

LEMMA Constants ==
  /\ Lights \subseteq Nat /\ Manuals \subseteq 2..100
  /\ Gaps \subseteq {g \in Nat : g >= Period} /\ MaxInputs \in Nat
BY LightAssumption DEF LightAssumption, Period

\* A mode that is wanted was disagreed with a period before it was pending.
PendingHolds ==
  /\ lux = Unread => pending = NotPending
  /\ pending # NotPending => \/ sinceAgreed >= pending + Period
                              \/ sinceAgreed = DWELL + Period

\* The mode is saved, and the brightness unless something moved it since.
SavedHolds ==
  /\ nightMode = prefs.dark
  /\ lastPersistedB # NotPersisted => lastPersistedB = prefs.last
  /\ ~unsaved => Near(prefs.last, targetBrightness)

IInv == TypeOK /\ PendingHolds /\ SavedHolds

USE DEF Unread, NotPending, NotPersisted

LEMMA BrightnessTyped == ASSUME NEW l \in Nat PROVE Brightness(l) \in Percents
BY DEF Brightness, Percents

LEMMA TargetTyped ==
  ASSUME NEW l \in Nat \cup {Unread}, NEW p \in Prefs, NEW first \in Percents
  PROVE  Target(l, p, first) \in Percents
BY BrightnessTyped DEF Target, Prefs, Percents

LEMMA NearItself == ASSUME NEW a \in Percents PROVE Near(a, a)
BY DEF Near, Distance, Percents

-----------------------------------------------------------------------------
LEMMA IInvInit == Init => IInv
<1> SUFFICES ASSUME Init PROVE IInv
  OBVIOUS
<1>1. TypeOK
  <2>1. prefs \in Prefs /\ disk \in Prefs
    BY DEF Init, FreshPrefs, Prefs, Percents
  <2>2. room \in Lights /\ latestLux = -1 /\ lux = -1 /\ nightMode \in BOOLEAN
    BY DEF Init
  <2>3. pending = -1 /\ lastPersistedB = -1 /\ initialBrightness = 50 /\ unsaved \in BOOLEAN
        /\ sinceAgreed = 0 /\ inputs = 0
    BY DEF Init
  <2>4. QED
    BY <2>1, <2>2, <2>3 DEF TypeOK, Percents, DWELL, Period
<1>2. PendingHolds
  BY DEF Init, PendingHolds
<1>3. targetBrightness = 50
  BY DEF Init, FreshPrefs, targetBrightness, Target
<1>4. SavedHolds
  <2>1. prefs.dark = FALSE /\ prefs.last = 50
    BY DEF Init, FreshPrefs
  <2>2. nightMode = prefs.dark
    BY <2>1, Zenon DEF Init
  <2>3. lastPersistedB = -1
    BY DEF Init
  <2>4. QED
    BY <1>3, <2>1, <2>2, <2>3 DEF SavedHolds, Near, Distance
<1>5. QED
  BY <1>1, <1>2, <1>4 DEF IInv

\* What a step may do that touches neither mode nor preferences.
LEMMA OthersStep ==
  ASSUME IInv, RoomChanges \/ SensorReports \/ Applies
  PROVE  IInv'
<1>1. UNCHANGED <<modeVars, initialBrightness, choiceVars>>
  BY DEF RoomChanges, SensorReports, Applies, modeVars, choiceVars
<1>2. TypeOK'
  BY <1>1, Constants DEF IInv, TypeOK, RoomChanges, SensorReports, Applies, Input,
                         modeVars, choiceVars
<1>3. PendingHolds' /\ SavedHolds'
  BY <1>1 DEF IInv, PendingHolds, SavedHolds, modeVars, choiceVars, targetBrightness
<1>4. QED
  BY <1>2, <1>3 DEF IInv

LEMMA ChoiceStep ==
  ASSUME IInv, ChooseAutoBrightness \/ ChooseManualBrightness
  PROVE  IInv'
<1>1. /\ UNCHANGED <<room, latestLux, modeVars, initialBrightness, disk>> /\ unsaved'
      /\ inputs' = inputs + 1
  BY DEF ChooseAutoBrightness, ChooseManualBrightness, Input
<1>2. prefs' \in Prefs /\ prefs'.last = prefs.last /\ prefs'.dark = prefs.dark
  BY Constants DEF IInv, TypeOK, Prefs, Percents, ChooseAutoBrightness,
                   ChooseManualBrightness
<1>3. TypeOK'
  BY <1>1, <1>2 DEF IInv, TypeOK, modeVars, ChooseAutoBrightness, ChooseManualBrightness
<1>4. PendingHolds' /\ SavedHolds'
  BY <1>1, <1>2 DEF IInv, PendingHolds, SavedHolds, modeVars
<1>5. QED
  BY <1>3, <1>4 DEF IInv

LEMMA RestartStep ==
  ASSUME IInv, NEW p \in {prefs, disk}, Restart(p)
  PROVE  IInv'
<1>1. p \in Prefs
  BY DEF IInv, TypeOK
<1>2. TypeOK'
  BY <1>1 DEF IInv, TypeOK, Restart, Input, Prefs, DWELL, Period
<1>3. PendingHolds'
  BY DEF Restart, PendingHolds
<1>4. ~unsaved' => Near(prefs.last, targetBrightness) /\ p = prefs
  BY DEF Restart, IInv, SavedHolds, TypeOK
<1>5. targetBrightness' = IF ~p.auto THEN p.manual ELSE p.last
  BY DEF Restart, targetBrightness, Target
<1>6. ~unsaved' => Near(prefs.last, targetBrightness)'
  <2> SUFFICES ASSUME ~unsaved' PROVE Near(prefs'.last, targetBrightness')
    OBVIOUS
  <2>1. CASE p.auto
    BY <2>1, <1>1, <1>5, NearItself DEF Restart, Prefs
  <2>2. CASE ~p.auto
    BY <2>2, <1>4, <1>5 DEF Restart, targetBrightness, Target
  <2>3. QED
    BY <2>1, <2>2
<1>7. SavedHolds'
  BY <1>6 DEF Restart, SavedHolds
<1>8. QED
  BY <1>2, <1>3, <1>7 DEF IInv
-----------------------------------------------------------------------------
(* The tick. *)

\* What updateLux does to the mode, in the terms of the invariants.
LEMMA TickMode ==
  ASSUME IInv, NEW gap \in Gaps, Tick(gap)
  PROVE  /\ nightMode' \in BOOLEAN
         /\ pending' \in {NotPending} \cup 0..(DWELL - 1)
         /\ sinceAgreed' \in 0..(DWELL + Period)
         /\ PendingHolds'
         /\ lux # Unread /\ nightMode' # nightMode => sinceAgreed + gap >= DWELL + Period
<1> DEFINE want == WantNight(latestLux, nightMode)
<1>1. gap \in Nat /\ gap >= Period
  BY Constants
<1>2. want \in BOOLEAN
  BY DEF WantNight
<1>3. /\ pending \in {NotPending} \cup 0..(DWELL - 1)
      /\ sinceAgreed \in 0..(DWELL + Period) /\ nightMode \in BOOLEAN /\ PendingHolds
  BY DEF IInv, TypeOK
<1>4. sinceAgreed' = IF lux = Unread \/ WantNight(latestLux, nightMode') = nightMode' THEN 0
                     ELSE IF sinceAgreed + gap > DWELL + Period THEN DWELL + Period
                     ELSE sinceAgreed + gap
  BY DEF Tick
<1>5. sinceAgreed' \in 0..(DWELL + Period)
  BY <1>1, <1>3, <1>4 DEF DWELL, Period
<1> HIDE DEF want
<1>6. CASE lux = Unread
  <2>1. nightMode' = want /\ pending' = NotPending /\ lux' = latestLux
    BY <1>3, <1>6 DEF Tick, SetNight, want, PendingHolds
  <2>2. PendingHolds'
    BY <2>1 DEF PendingHolds
  <2>3. QED
    BY <1>2, <1>5, <1>6, <2>1, <2>2
<1>7. CASE lux # Unread /\ want = nightMode
  <2>1. nightMode' = nightMode /\ pending' = NotPending
    BY <1>7 DEF Tick, PendingCleared, want
  <2>2. QED
    BY <1>3, <1>5, <2>1 DEF PendingHolds
<1>8. CASE lux # Unread /\ want # nightMode /\ pending = NotPending
  <2>1. nightMode' = nightMode /\ pending' = 0 /\ lux' = latestLux /\ latestLux # Unread
    BY <1>8 DEF Tick, TickDue, want
  <2>2. WantNight(latestLux, nightMode') # nightMode'
    BY <1>8, <2>1 DEF want
  <2>3. sinceAgreed' >= Period
    BY <1>1, <1>3, <1>4, <1>8, <2>2 DEF DWELL, Period
  <2>4. QED
    BY <1>3, <1>5, <2>1, <2>3 DEF PendingHolds, DWELL, Period
<1>9. CASE lux # Unread /\ want # nightMode /\ pending # NotPending
  <2>1. lux' = latestLux /\ latestLux # Unread
    BY DEF Tick, TickDue
  <2>2. CASE DwellOver(pending + gap)
    <3>1. nightMode' = want /\ pending' = NotPending
      BY <1>9, <2>2 DEF Tick, SetNight, want
    <3>2. sinceAgreed + gap >= DWELL + Period
      BY <1>1, <1>3, <1>9, <2>2 DEF DwellOver, PendingHolds, DWELL, Period
    <3>3. PendingHolds'
      BY <3>1 DEF PendingHolds
    <3>4. QED
      BY <1>2, <1>5, <3>1, <3>2, <3>3
  <2>3. CASE ~DwellOver(pending + gap)
    <3>1. nightMode' = nightMode /\ pending' = pending + gap
      BY <1>9, <2>3 DEF Tick, want
    <3>2. WantNight(latestLux, nightMode') # nightMode'
      BY <1>9, <3>1 DEF want
    <3>3. sinceAgreed' >= pending' + Period \/ sinceAgreed' = DWELL + Period
      BY <1>1, <1>3, <1>4, <1>9, <3>1, <3>2 DEF PendingHolds, DWELL, Period
    <3>4. pending' \in 0..(DWELL - 1)
      BY <1>1, <1>3, <1>9, <2>3, <3>1 DEF DwellOver, DWELL
    <3>5. QED
      BY <1>3, <1>5, <2>1, <3>1, <3>3, <3>4 DEF PendingHolds
  <2>4. QED
    BY <2>2, <2>3
<1>10. QED
  BY <1>6, <1>7, <1>8, <1>9
LEMMA TickSaves ==
  ASSUME IInv, NEW gap \in Gaps, Tick(gap)
  PROVE  /\ prefs' \in Prefs /\ lastPersistedB' \in Percents \cup {NotPersisted}
         /\ SavedHolds'
<1> DEFINE b == Target(latestLux, prefs, initialBrightness)
           dark == DarkSaved(nightMode')
<1>1. latestLux \in Nat /\ prefs \in Prefs /\ initialBrightness \in Percents
      /\ nightMode' \in BOOLEAN /\ lastPersistedB \in Percents \cup {NotPersisted}
  BY TickMode, Constants DEF IInv, TypeOK, Tick, TickDue
<1>2. b \in Percents
  BY <1>1, TargetTyped
<1>3. dark = nightMode' /\ dark \in BOOLEAN
  BY <1>1 DEF DarkSaved, IInv, SavedHolds
<1>4. \/ lastPersistedB' = b /\ prefs' = Saved(dark, b)
      \/ /\ ~SavesBrightness(b)
         /\ lastPersistedB' = lastPersistedB /\ prefs' = Saved(dark, prefs.last)
  BY DEF Tick
<1> HIDE DEF dark
<1>5. \A last \in Percents : LET p == Saved(dark, last)
                             IN  /\ p \in Prefs /\ p.dark = dark /\ p.last = last
                                 /\ p.auto = prefs.auto /\ p.manual = prefs.manual
  BY <1>1, <1>3 DEF Saved, Prefs
<1>6. prefs.last \in Percents
  BY <1>1 DEF Prefs
<1>7. prefs' \in Prefs /\ prefs'.dark = nightMode'
      /\ prefs'.auto = prefs.auto /\ prefs'.manual = prefs.manual
  BY <1>2, <1>3, <1>4, <1>5, <1>6
<1>8. targetBrightness' = b
  <2>1. lux' = latestLux /\ initialBrightness' = initialBrightness
    BY DEF Tick
  <2>2. QED
    BY <1>7, <2>1 DEF targetBrightness, Target
<1> HIDE DEF b
<1>9. CASE lastPersistedB' = b /\ prefs' = Saved(dark, b)
  <2>1. prefs'.last = b
    BY <1>2, <1>5, <1>9
  <2>2. Near(prefs'.last, b)
    BY <1>2, <2>1, NearItself
  <2>3. QED
    BY <1>2, <1>7, <1>8, <1>9, <2>1, <2>2 DEF SavedHolds
<1>10. CASE /\ ~SavesBrightness(b)
            /\ lastPersistedB' = lastPersistedB /\ prefs' = Saved(dark, prefs.last)
  <2>1. prefs'.last = prefs.last
    BY <1>5, <1>6, <1>10
  <2>2. lastPersistedB # NotPersisted /\ Near(b, lastPersistedB)
    BY <1>10 DEF SavesBrightness
  <2>3. lastPersistedB = prefs.last
    BY <2>2 DEF IInv, SavedHolds
  <2>4. Near(prefs'.last, b)
    BY <1>2, <1>6, <2>1, <2>2, <2>3 DEF Near, Distance, Percents
  <2>5. QED
    BY <1>1, <1>7, <1>8, <1>10, <2>1, <2>3, <2>4 DEF SavedHolds
<1>11. QED
  BY <1>4, <1>9, <1>10

LEMMA TickStep ==
  ASSUME IInv, NEW gap \in Gaps, Tick(gap)
  PROVE  IInv'
<1>1. TypeOK'
  BY TickMode, TickSaves DEF IInv, TypeOK, Tick
<1>2. QED
  BY <1>1, TickMode, TickSaves DEF IInv

-----------------------------------------------------------------------------
LEMMA IInvSteps == IInv /\ [Next]_vars => IInv'
<1> SUFFICES ASSUME IInv, [Next]_vars PROVE IInv'
  OBVIOUS
<1>1. CASE RoomChanges \/ SensorReports \/ Applies
  BY <1>1, OthersStep
<1>2. CASE \E gap \in Gaps : Tick(gap)
  BY <1>2, TickStep
<1>3. CASE ChooseAutoBrightness \/ ChooseManualBrightness
  BY <1>3, ChoiceStep
<1>4. CASE ActivityRestarts \/ ProcessRestarts
  BY <1>4, RestartStep DEF ActivityRestarts, ProcessRestarts
<1>5. CASE UNCHANGED vars
  BY <1>5 DEF vars, modeVars, choiceVars, IInv, TypeOK, PendingHolds, SavedHolds,
              targetBrightness
<1>6. QED
  BY <1>1, <1>2, <1>3, <1>4, <1>5 DEF Next

LEMMA IInvAlways == Spec => []IInv
BY IInvInit, IInvSteps, PTL DEF Spec

\* Every variable of Panel keeps its type, for all lights, positions and delays.
THEOREM PanelTypeCorrect == Spec => []TypeOK
<1>1. IInv => TypeOK
  BY DEF IInv
<1>2. QED
  BY <1>1, IInvAlways, PTL

\* Headlights do not flip the panel: however late ticks come, the mode changes only
\* when no reading has agreed with it for the dwell and a period.
THEOREM DwellHolds == Spec => HeadlightsDoNotFlip
<1>1. IInv => [\A gap \in Gaps :
                 Tick(gap) /\ lux # Unread /\ nightMode' # nightMode
                   => sinceAgreed + gap >= DWELL + Period]_vars
  BY TickMode
<1>2. QED
  BY <1>1, IInvAlways, PTL DEF HeadlightsDoNotFlip

\* A restart comes back with the mode and the brightness it left with, if nothing
\* was chosen or lost since the last tick, for all lights and positions.
THEOREM RestartsKeepLight == Spec => RestartKeepsLight
<1>1. ASSUME IInv, NEW p \in {prefs, disk}, Restart(p), p = prefs, ~unsaved
      PROVE  /\ nightMode' = nightMode
             /\ Near(initialBrightness', targetBrightness)
             /\ Near(targetBrightness', targetBrightness)
  <2>1. nightMode' = nightMode
    BY <1>1 DEF Restart, IInv, SavedHolds
  <2>2. Near(prefs.last, targetBrightness) /\ initialBrightness' = prefs.last
    BY <1>1 DEF Restart, IInv, SavedHolds
  <2>3. targetBrightness' = IF ~prefs.auto THEN prefs.manual ELSE prefs.last
    BY <1>1 DEF Restart, targetBrightness, Target
  <2>4. CASE prefs.auto
    BY <2>1, <2>2, <2>3, <2>4
  <2>5. CASE ~prefs.auto
    <3>1. targetBrightness = prefs.manual /\ prefs.manual \in Percents
      BY <1>1, <2>5 DEF targetBrightness, Target, IInv, TypeOK, Prefs
    <3>2. QED
      BY <2>1, <2>2, <2>3, <2>5, <3>1, NearItself
  <2>6. QED
    BY <2>4, <2>5
<1>2. IInv => [\A p \in {prefs, disk} :
                 Restart(p) /\ p = prefs /\ ~unsaved
                   => /\ nightMode' = nightMode
                      /\ Near(initialBrightness', targetBrightness)
                      /\ Near(targetBrightness', targetBrightness)]_vars
  BY <1>1
<1>3. QED
  BY <1>2, IInvAlways, PTL DEF RestartKeepsLight

=============================================================================
