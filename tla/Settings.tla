------------------------------ MODULE Settings ------------------------------
(***************************************************************************)
(* SettingsActivity: the preference screen, and the stored preferences it  *)
(* shares with MainActivity.  Everything runs on the UI thread; storing a  *)
(* changed value calls the listener before anything else happens.          *)
(***************************************************************************)

CONSTANTS
  Configs,         \* values of model path, CPU threads and power mode together
  DefaultConfig,   \* the pre-installed one
  Speakers,        \* speack_id_num_values, the speakers the list offers
  DefaultSpeaker,  \* 174
  KeyName          \* the text "SPEACK_ID_NUM_KEY"

VARIABLES
  prefs,           \* the stored preferences
  settingsOpen     \* SettingsActivity is in front

settingsVars == <<prefs, settingsOpen>>

\* What a reader of the cleared preferences gets: the default of every key.
Cleared == [custom |-> FALSE, config |-> DefaultConfig, speaker |-> DefaultSpeaker]

\* preInstalledSpeackIds.get(modelIdx): onCreate puts the name of the key there.
preInstalledSpeackId == KeyName

NeverPreInstalled(p) == p

\* The nested calls that storing the values causes find nothing left to change.
reloadPreferenceAndUpdateUI(p) ==
  IF p.custom THEN p
  ELSE [p EXCEPT !.config = DefaultConfig, !.speaker = preInstalledSpeackId]

SettingsInit == prefs = Cleared /\ settingsOpen = FALSE

OpenWithDefaults ==
  /\ ~settingsOpen
  /\ settingsOpen' = TRUE
  /\ prefs' = reloadPreferenceAndUpdateUI(Cleared)

\* onCreate and onResume.  Inflating the screen stores the defaults of missing keys.
OpenSettings ==
  /\ ~settingsOpen
  /\ settingsOpen' = TRUE
  /\ prefs' = reloadPreferenceAndUpdateUI(prefs)

\* A change by the user, stored, and the listener.  With one pre-installed model to
\* choose from, the choice cannot change and its branch of the listener is not taken.
onSharedPreferenceChanged(changed) ==
  /\ settingsOpen
  /\ prefs' = reloadPreferenceAndUpdateUI(changed)
  /\ UNCHANGED settingsOpen

\* All but the check box are enabled only with custom settings.
ChangeSettings ==
  \/ onSharedPreferenceChanged([prefs EXCEPT !.custom = ~@])
  \/ prefs.custom /\ \E c \in Configs : onSharedPreferenceChanged([prefs EXCEPT !.config = c])
  \/ prefs.custom /\ \E s \in Speakers : onSharedPreferenceChanged([prefs EXCEPT !.speaker = s])

CloseSettings ==
  /\ settingsOpen
  /\ settingsOpen' = FALSE
  /\ UNCHANGED prefs

SettingsNext == OpenSettings \/ ChangeSettings \/ CloseSettings

SettingsSpec == SettingsInit /\ [][SettingsNext]_settingsVars

-----------------------------------------------------------------------------
\* The configuration without custom settings is the pre-installed one, whatever was
\* chosen before the box was cleared (reloadPreferenceAndUpdateUI).
DefaultsWithoutCustom == ~prefs.custom => prefs.config = DefaultConfig

\* Coming back to the screen never overwrites custom settings.
CustomSettingsKept ==
  [][~settingsOpen /\ settingsOpen' /\ prefs.custom => prefs' = prefs]_settingsVars

\* res/xml/settings.xml: the values of the SPEAK ID list are speack_id_num_values.
SpeakerIsListed == prefs.speaker \in Speakers
=============================================================================
