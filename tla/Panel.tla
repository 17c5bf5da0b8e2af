-------------------------------- MODULE Panel --------------------------------
(***************************************************************************)
(* The panel's light: night mode with hysteresis and dwell, the screen's   *)
(* brightness, and what of both survives a restart. The light sensor       *)
(* reports changes only; a tick on the main thread, every 4 s or later,    *)
(* applies the newest report.                                              *)
(*                                                                         *)
(* Preferences are written with apply(): readers in the process see a      *)
(* write at once, the disk later, and a killed process loses what the disk *)
(* has not seen. Light is in lux, brightness in percent, time in seconds.  *)
(* autoBrightness and manualBrightness are written together with their     *)
(* preference, which stands for both. pendingSince is kept as its age at   *)
(* the last tick. Warmth is a function of lux and has no state.            *)
(***************************************************************************)
EXTENDS Integers

CONSTANTS
  Lights,     \* what the room's light may be
  Manuals,    \* positions of the brightness slider
  Gaps,       \* seconds from one tick to the next
  MaxInputs   \* changes of light, choices and restarts, a bound

NIGHT_ENTER_LUX == 25
NIGHT_EXIT_LUX == 45
DWELL == 6
Period == 4

ASSUME LightAssumption ==
  /\ Lights \subseteq Nat /\ Manuals \subseteq 2..100
  /\ Gaps \subseteq {g \in Nat : g >= Period} /\ MaxInputs \in Nat

Unread == -1
NotPending == -1
NotPersisted == -1

VARIABLES
  room,             \* the light in the room
  latestLux,        \* the sensor's last report, as MainActivity has it
  lux,              \* the reading applied last
  nightMode,
  pending,          \* how long the other mode has been wanted
  lastPersistedB,
  initialBrightness,
  prefs,            \* the preferences as the process sees them
  disk,             \* ... and as the next process will
  unsaved,          \* history: chosen or lost since the last tick
  sinceAgreed,      \* history: seconds since a reading agreed with the mode
  inputs

choiceVars == <<prefs, unsaved>>
modeVars == <<lux, nightMode, pending, lastPersistedB, sinceAgreed>>
vars == <<room, latestLux, modeVars, initialBrightness, choiceVars, disk, inputs>>

Percents == 0..100
Prefs == [dark : BOOLEAN, last : Percents, auto : BOOLEAN, manual : Percents]

\* A panel that was never started before.
FreshPrefs == [dark |-> FALSE, last |-> 50, auto |-> TRUE, manual |-> 60]
Init ==
  /\ room \in Lights /\ latestLux = Unread /\ lux = Unread
  /\ nightMode = FALSE /\ pending = NotPending /\ lastPersistedB = NotPersisted
  /\ initialBrightness = 50
  /\ prefs = FreshPrefs /\ disk = FreshPrefs
  /\ unsaved = FALSE /\ sinceAgreed = 0 /\ inputs = 0

Input == inputs < MaxInputs /\ inputs' = inputs + 1

Brightness(l) ==
  IF l < 1 THEN 3 ELSE IF l < 5 THEN 8 ELSE IF l < 20 THEN 20
  ELSE IF l < 80 THEN 46 ELSE IF l < 300 THEN 80 ELSE 100

Target(l, p, first) ==
  IF ~p.auto THEN p.manual ELSE IF l = Unread THEN first ELSE Brightness(l)
targetBrightness == Target(lux, prefs, initialBrightness)

Distance(a, b) == IF a < b THEN b - a ELSE a - b
Near(a, b) == Distance(a, b) <= 1

-----------------------------------------------------------------------------
(* The sensor and the tick. *)

RoomChanges ==
  /\ Input
  /\ \E l \in Lights \ {room} : room' = l
  /\ UNCHANGED <<latestLux, modeVars, initialBrightness, choiceVars, disk>>

SensorReports ==
  /\ latestLux # room /\ latestLux' = room
  /\ UNCHANGED <<room, modeVars, initialBrightness, choiceVars, disk, inputs>>

WantNight(l, night) == l < (IF night THEN NIGHT_EXIT_LUX ELSE NIGHT_ENTER_LUX)

PendingForgotten(age) == age     \* mutant: kept while the reading agrees
PendingCleared(age) == NotPending
DwellNeverOver(age) == FALSE     \* mutant: never compared
DwellOver(age) == age >= DWELL

\* setNight, with its preference.
DarkKept(night) == prefs.dark    \* mutant: not saved
DarkSaved(night) == IF night = nightMode THEN prefs.dark ELSE night
SetNight(night) == nightMode' = night

\* Saves the brightness if it moved by more than a hundredth.
SavesBrightness(b) == lastPersistedB = NotPersisted \/ ~Near(b, lastPersistedB)

Saved(night, b) == [prefs EXCEPT !.dark = night, !.last = b]

DueOnChange == latestLux \notin {Unread, lux}   \* mutant: what is not new is dropped
TickDue == latestLux # Unread

\* updateLux, a gap after the last one.
Tick(gap) ==
  /\ TickDue
  /\ lux' = latestLux
  /\ LET want == WantNight(latestLux, nightMode)
         b == Target(latestLux, prefs, initialBrightness)
     IN /\ \/ /\ lux = Unread
              /\ SetNight(want) /\ UNCHANGED pending
           \/ /\ lux # Unread /\ want = nightMode
              /\ pending' = PendingCleared(pending) /\ UNCHANGED nightMode
           \/ /\ lux # Unread /\ want # nightMode /\ pending = NotPending
              /\ pending' = 0 /\ UNCHANGED nightMode
           \/ /\ lux # Unread /\ want # nightMode /\ pending # NotPending
              /\ IF DwellOver(pending + gap)
                 THEN SetNight(want) /\ pending' = NotPending
                 ELSE pending' = pending + gap /\ UNCHANGED nightMode
        /\ sinceAgreed' = IF lux = Unread \/ WantNight(latestLux, nightMode') = nightMode' THEN 0
                          ELSE IF sinceAgreed + gap > DWELL + Period THEN DWELL + Period
                          ELSE sinceAgreed + gap
        /\ IF SavesBrightness(b)
           THEN lastPersistedB' = b /\ prefs' = Saved(DarkSaved(nightMode'), b)
           ELSE UNCHANGED lastPersistedB /\ prefs' = Saved(DarkSaved(nightMode'), prefs.last)
  /\ unsaved' = FALSE
  /\ UNCHANGED <<room, latestLux, initialBrightness, disk, inputs>>

-----------------------------------------------------------------------------
(* Settings, the writer of preferences, and restarts. *)

ChooseAutoBrightness ==
  /\ Input
  /\ \E on \in BOOLEAN : prefs' = [prefs EXCEPT !.auto = on]
  /\ unsaved' = TRUE
  /\ UNCHANGED <<room, latestLux, modeVars, initialBrightness, disk>>

ChooseManualBrightness ==
  /\ Input
  /\ \E v \in Manuals : prefs' = [prefs EXCEPT !.manual = v]
  /\ unsaved' = TRUE
  /\ UNCHANGED <<room, latestLux, modeVars, initialBrightness, disk>>

\* apply() reaches the disk.
Applies ==
  /\ disk # prefs /\ disk' = prefs
  /\ UNCHANGED <<room, latestLux, modeVars, initialBrightness, choiceVars, inputs>>

\* A new activity builds its Panel from p: the preferences of the process, or,
\* if the process was killed too, the disk's.
Restart(p) ==
  /\ Input
  /\ latestLux' = Unread /\ lux' = Unread
  /\ nightMode' = p.dark
  /\ pending' = NotPending /\ lastPersistedB' = NotPersisted
  /\ initialBrightness' = p.last
  /\ prefs' = p
  /\ unsaved' = (unsaved \/ p # prefs)
  /\ sinceAgreed' = 0
  /\ UNCHANGED <<room, disk>>

ActivityRestarts == Restart(prefs)
ProcessRestarts == Restart(disk)

-----------------------------------------------------------------------------
Next ==
  \/ RoomChanges \/ SensorReports \/ \E gap \in Gaps : Tick(gap)
  \/ ChooseAutoBrightness \/ ChooseManualBrightness \/ Applies
  \/ ActivityRestarts \/ ProcessRestarts

Spec == Init /\ [][Next]_vars

\* The sensor reports what has changed, the tick posts itself.
FairSpec == Spec /\ WF_vars(SensorReports) /\ WF_vars(\E gap \in Gaps : Tick(gap))

-----------------------------------------------------------------------------
(* Properties. *)

\* Every variable keeps its type; a mode that is wanted long enough is not
\* pending any more.
TypeOK ==
  /\ room \in Lights /\ latestLux \in Lights \cup {Unread} /\ lux \in Lights \cup {Unread}
  /\ nightMode \in BOOLEAN /\ pending \in {NotPending} \cup 0..(DWELL - 1)
  /\ lastPersistedB \in Percents \cup {NotPersisted} /\ initialBrightness \in Percents
  /\ prefs \in Prefs /\ disk \in Prefs
  /\ unsaved \in BOOLEAN /\ sinceAgreed \in 0..(DWELL + Period) /\ inputs \in Nat

\* "Passing headlights must not flip the panel": after the first reading of a
\* process, the mode changes only when no reading has agreed with it for the dwell
\* and one period of sampling, however late ticks come and whatever was wanted
\* before.
HeadlightsDoNotFlip ==
  [][\A gap \in Gaps :
       Tick(gap) /\ lux # Unread /\ nightMode' # nightMode
         => sinceAgreed + gap >= DWELL + Period]_vars

\* "A restart at 1am must come back dim and in night mode": unless something was
\* chosen or lost since the last tick, a restart of the activity, or of the process
\* once the preferences are on the disk, keeps the mode and, to a hundredth, the
\* brightness, before the first reading.
RestartKeepsLight ==
  [][\A p \in {prefs, disk} :
       Restart(p) /\ p = prefs /\ ~unsaved
         => /\ nightMode' = nightMode
            /\ Near(initialBrightness', targetBrightness)
            /\ Near(targetBrightness', targetBrightness)]_vars

\* "Always catches up": the sensor is silent while the light does not change, yet
\* once the room stays dark or bright the panel is in the mode for it.
CatchesUp ==
  \A l \in Lights :
    <>[](room = l) => <>[]( /\ l < NIGHT_ENTER_LUX => nightMode
                            /\ l >= NIGHT_EXIT_LUX => ~nightMode )

=============================================================================
