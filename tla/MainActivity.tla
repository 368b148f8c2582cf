---------------------------- MODULE MainActivity ----------------------------
(***************************************************************************)
(* The activity: its life cycle on the UI thread, the worker HandlerThread *)
(* that loads models, the two message queues between them and the progress *)
(* dialogs that keep the user from touching anything meanwhile.            *)
(*                                                                         *)
(* Each instance of the activity has its own worker, so Workers also names *)
(* the instances; the Predictor and the preferences are shared by all.     *)
(* A handler of the UI thread is one step, up to the assignments of        *)
(* releaseModel, which interleave with those of a running init.            *)
(***************************************************************************)
EXTENDS Predictor, Sequences

CONSTANTS
  DefaultConfig,   \* configuration of the cleared preferences
  NoConfig,        \* initial fields of the activity: empty path and power mode
  ignoreCase,      \* what equalsIgnoreCase sees of a configuration
  KeyName,         \* see Settings
  MaxVisits        \* bound: visits to the settings

VARIABLES
  prefs, settingsOpen,      \* see Settings
  stage,                    \* life cycle of each instance
  current, speaker,         \* its fields modelPath, cpuThreadNum, cpuPowerMode; speakId
  pbLoadModel, pbRunModel,  \* its dialogs
  sender, receiver,         \* queue of its worker; queue of the UI thread
  leaving,                  \* the instance inside onDestroy and what happens next
  relaunch,                 \* the screen was turned while the activity was behind
  selected, restore,        \* a sentence is selected; its callback is due
  loaded,                   \* history: the last answer to a load request
  visits, died              \* settings opened so far; the exception that ended the process

INSTANCE Settings

preferences == <<prefs, settingsOpen>>

uiVars == <<stage, current, speaker, pbLoadModel, pbRunModel, leaving, relaunch, selected,
            restore, loaded, visits, died>>
queues == <<sender, receiver>>
vars == <<predictorVars, preferences, uiVars, queues>>

Nobody == [who |-> UI, next |-> "none"]

ASSUME MainActivityAssumption ==
  /\ DefaultConfig \in Configs
  /\ NoConfig \notin Configs
  /\ ignoreCase \in [Configs -> Configs]
  /\ KeyName \notin Speakers
  /\ MaxVisits \in Nat

Init ==
  /\ PredictorInit
  /\ SettingsInit
  /\ stage = [w \in Workers |-> "new"]
  /\ current = [w \in Workers |-> NoConfig]
  /\ speaker = [w \in Workers |-> DefaultSpeaker]
  /\ pbLoadModel = [w \in Workers |-> "none"]
  /\ pbRunModel = [w \in Workers |-> "none"]
  /\ sender = [w \in Workers |-> <<>>]
  /\ receiver = <<>>
  /\ leaving = Nobody
  /\ relaunch = FALSE /\ selected = FALSE /\ restore = FALSE
  /\ loaded = [w \in Workers |-> "none"]
  /\ visits = 0 /\ died = "no"

\* The UI thread is between two messages.
Idle == died = "no" /\ leaving = Nobody

\* The user reaches the activity only when no dialog covers it: neither is cancelable.
Touchable(w) ==
  /\ Idle /\ stage[w] = "resumed"
  /\ pbLoadModel[w] # "showing" /\ pbRunModel[w] # "showing"

-----------------------------------------------------------------------------
(* The handlers of the life cycle. *)

AlwaysChanged(config, fields) == TRUE

NeverChanged(config, fields) == fields = NoConfig

settingsChanged(config, fields) ==
  fields = NoConfig \/ ignoreCase[config] # ignoreCase[fields]

SetFields(w, config, voice) ==
  /\ current' = [current EXCEPT ![w] = config]
  /\ speaker' = [speaker EXCEPT ![w] = voice]

\* Integer.valueOf throws.
NotANumber(s) == s = KeyName

\* onResume of w when the preferences are p; loadModel shows the dialog and sends the request.
onResume(w, p) ==
  IF NotANumber(p.speaker)
  THEN /\ died' = "NumberFormat"
       /\ UNCHANGED <<current, speaker, pbLoadModel, sender>>
  ELSE /\ IF settingsChanged(p.config, current[w])
          THEN /\ SetFields(w, p.config, p.speaker)
               /\ pbLoadModel' = [pbLoadModel EXCEPT
                    ![w] = IF @ = "showing" THEN "covered" ELSE "showing"]
               /\ sender' = [sender EXCEPT ![w] = Append(@, "load")]
          ELSE UNCHANGED <<current, speaker, pbLoadModel, sender>>
       /\ UNCHANGED died

\* onCreate of a new instance clears the preferences; onResume follows at once.
onCreate(w) ==
  /\ stage[w] = "new"
  /\ prefs' = Cleared
  /\ onResume(w, Cleared)
  /\ relaunch' = FALSE

Launch(w) ==
  /\ Idle /\ ~settingsOpen
  /\ \A v \in Workers : stage[v] \in {"new", "destroyed"}
  /\ onCreate(w)
  /\ stage' = [stage EXCEPT ![w] = "resumed"]
  /\ selected' = FALSE /\ restore' = FALSE
  /\ UNCHANGED <<predictorVars, settingsOpen, pbRunModel, receiver, leaving, loaded, visits>>

GoHome(w) ==
  /\ Idle /\ stage[w] = "resumed"
  /\ stage' = [stage EXCEPT ![w] = "paused"]
  /\ UNCHANGED <<predictorVars, preferences, current, speaker, pbLoadModel, pbRunModel, queues,
                 leaving, relaunch, selected, restore, loaded, visits, died>>

ComeBack(w) ==
  /\ Idle /\ ~settingsOpen /\ ~relaunch
  /\ stage[w] = "paused"
  /\ onResume(w, prefs)
  /\ stage' = [stage EXCEPT ![w] = "resumed"]
  /\ UNCHANGED <<predictorVars, preferences, pbRunModel, receiver, leaving, relaunch, selected,
                 restore, loaded, visits>>

onSettingsClicked(w) ==
  /\ Touchable(w) /\ visits < MaxVisits
  /\ OpenSettings
  /\ stage' = [stage EXCEPT ![w] = "paused"]
  /\ visits' = visits + 1
  /\ UNCHANGED <<predictorVars, current, speaker, pbLoadModel, pbRunModel, queues, leaving,
                 relaunch, selected, restore, loaded, died>>

UseSettings ==
  /\ Idle
  /\ ChangeSettings \/ CloseSettings
  /\ UNCHANGED <<predictorVars, uiVars, queues>>

\* Turning the screen destroys the instance and creates the next one, at once when
\* it is in front and when it comes back otherwise.
TurnBehind ==
  /\ Idle /\ ~relaunch
  /\ \E w \in Workers : stage[w] = "paused"
  /\ relaunch' = TRUE
  /\ UNCHANGED <<predictorVars, preferences, stage, current, speaker, pbLoadModel, pbRunModel,
                 queues, leaving, selected, restore, loaded, visits, died>>

\* onDestroy begins with Speaktts.onDestroy.
onDestroy(w, next) ==
  /\ BeginRelease
  /\ leaving' = [who |-> w, next |-> next]
  /\ stage' = [stage EXCEPT ![w] = "destroying"]
  /\ UNCHANGED <<preferences, current, speaker, pbLoadModel, pbRunModel, queues, relaunch,
                 selected, restore, loaded, visits, died>>

Leave(w) ==
  \/ Touchable(w) /\ onDestroy(w, "finish")
  \/ /\ Idle /\ \E v \in Workers : stage[v] = "new"
     /\ stage[w] = "resumed" \/ (stage[w] = "paused" /\ relaunch /\ ~settingsOpen)
     /\ onDestroy(w, "recreate")

ReleaseStep ==
  /\ died = "no"
  /\ Release(UI)
  /\ UNCHANGED <<preferences, uiVars, queues>>

\* worker.quit drops what is queued and lets a running init finish.  The windows of
\* dialogs still showing are removed without the dialogs being told.
Leak(dialog) == IF dialog = "showing" THEN "leaked" ELSE dialog

quit(w) == [sender EXCEPT ![w] = <<>>]

Destroyed(w) ==
  /\ died = "no" /\ leaving.who = w /\ leaving.next = "finish" /\ ppc[UI] = "idle"
  /\ stage' = [stage EXCEPT ![w] = "destroyed"]
  /\ sender' = quit(w)
  /\ leaving' = Nobody
  /\ UNCHANGED <<predictorVars, preferences, current, speaker, pbLoadModel, pbRunModel, receiver,
                 relaunch, selected, restore, loaded, visits, died>>

Recreated(w, v) ==
  /\ died = "no" /\ leaving.who = w /\ leaving.next = "recreate" /\ ppc[UI] = "idle"
  /\ stage[v] = "new"
  /\ prefs' = Cleared
  /\ SetFields(v, DefaultConfig, DefaultSpeaker)
  /\ stage' = [stage EXCEPT ![w] = "destroyed", ![v] = "resumed"]
  /\ pbLoadModel' = [pbLoadModel EXCEPT ![w] = Leak(@), ![v] = "showing"]
  /\ pbRunModel' = [pbRunModel EXCEPT ![w] = Leak(@)]
  /\ sender' = [quit(w) EXCEPT ![v] = Append(@, "load")]
  /\ leaving' = Nobody /\ relaunch' = FALSE /\ restore' = selected
  /\ UNCHANGED <<predictorVars, settingsOpen, receiver, selected, loaded, visits, died>>

-----------------------------------------------------------------------------
(* The play button, selecting a sentence, and the two message handlers. *)

\* The part of Speaktts.SpeakText that runs on the UI thread; the text is not empty.
ttsSpeak(w) ==
  /\ Touchable(w)
  /\ IF NotANumber(prefs.speaker)
     THEN died' = "NumberFormat" /\ UNCHANGED speakId
     ELSE speakId' = prefs.speaker /\ UNCHANGED died
  /\ UNCHANGED <<AMPredictor, VOCPredictor, isLoaded, ppc, job, loads, preferences, queues, stage,
                 current, speaker, pbLoadModel, pbRunModel, leaving, relaunch, selected, restore,
                 loaded, visits>>

runModel(w) ==
  /\ pbRunModel' = [pbRunModel EXCEPT ![w] = IF @ = "showing" THEN "covered" ELSE "showing"]
  /\ sender' = [sender EXCEPT ![w] = Append(@, "run")]
  /\ selected' = TRUE /\ restore' = FALSE
  /\ UNCHANGED <<predictorVars, preferences, stage, current, speaker, pbLoadModel, receiver,
                 leaving, relaunch, loaded, visits, died>>

\* By the user, or by the layout of an instance whose selection was restored.
onItemSelected(w) ==
  /\ Idle /\ stage[w] = "resumed"
  /\ restore \/ Touchable(w)
  /\ runModel(w)

\* The sender handles a request on the worker; init reads the fields only now.
HandleLoad(w) ==
  /\ died = "no"
  /\ sender[w] # <<>> /\ Head(sender[w]) = "load"
  /\ BeginInit(w, current[w], speaker[w])
  /\ sender' = [sender EXCEPT ![w] = Tail(@)]
  /\ UNCHANGED <<preferences, uiVars, receiver>>

Reply(w, what) == [to |-> w, what |-> what]

SayNothing(w) == UNCHANGED receiver

AlwaysLoaded(w) ==
  receiver' = IF ppc'[w] # "idle" THEN receiver ELSE Append(receiver, Reply(w, "loaded"))

AnswerLoad(w) ==
  receiver' = IF ppc'[w] # "idle" THEN receiver
              ELSE Append(receiver,
                          Reply(w, IF ppc[w] = "setLoaded" THEN "loaded" ELSE "loadFailed"))

LoadStep(w) ==
  /\ died = "no"
  /\ Release(w) \/ InitStep(w)
  /\ AnswerLoad(w)
  /\ UNCHANGED <<preferences, uiVars, sender>>

\* onRunModel returns true whatever is loaded.
HandleRun(w) ==
  /\ died = "no" /\ ppc[w] = "idle"
  /\ sender[w] # <<>> /\ Head(sender[w]) = "run"
  /\ sender' = [sender EXCEPT ![w] = Tail(@)]
  /\ receiver' = Append(receiver, Reply(w, "ran"))
  /\ UNCHANGED <<predictorVars, preferences, uiVars>>

\* The receiver dismisses the dialog; one whose window is gone, or null, throws.
HandleReply ==
  LET m == Head(receiver)
      w == m.to
      dialog == IF m.what = "ran" THEN pbRunModel[w] ELSE pbLoadModel[w]
  IN  /\ Idle /\ receiver # <<>>
      /\ receiver' = Tail(receiver)
      /\ IF dialog \in {"leaked", "none"}
         THEN died' = "NotAttached" /\ UNCHANGED <<pbLoadModel, pbRunModel, loaded>>
         ELSE /\ IF m.what = "ran"
                 THEN /\ pbRunModel' = [pbRunModel EXCEPT ![w] = "dismissed"]
                      /\ UNCHANGED <<pbLoadModel, loaded>>
                 ELSE /\ pbLoadModel' = [pbLoadModel EXCEPT ![w] = "dismissed"]
                      /\ loaded' = [loaded EXCEPT ![w] = m.what]
                      /\ UNCHANGED pbRunModel
              /\ UNCHANGED died
      /\ UNCHANGED <<predictorVars, preferences, stage, current, speaker, sender, leaving,
                     relaunch, selected, restore, visits>>

WorkerStep(w) == HandleLoad(w) \/ LoadStep(w) \/ HandleRun(w)

LooperStep ==
  \/ ReleaseStep \/ HandleReply
  \/ \E w \in Workers : Destroyed(w)
  \/ \E w, v \in Workers : Recreated(w, v)

UserStep ==
  \/ UseSettings \/ TurnBehind
  \/ \E w \in Workers : \/ Launch(w) \/ GoHome(w) \/ ComeBack(w) \/ onSettingsClicked(w)
                        \/ Leave(w) \/ ttsSpeak(w) \/ onItemSelected(w)

Next == UserStep \/ LooperStep \/ \E w \in Workers : WorkerStep(w)

Spec == Init /\ [][Next]_vars

\* The looper of the UI thread and the workers run while they have messages.
FairSpec == Spec /\ WF_vars(LooperStep) /\ \A w \in Workers : WF_vars(WorkerStep(w))

-----------------------------------------------------------------------------
(* Properties. *)

Dialogs == {"none", "showing", "covered", "dismissed", "leaked"}

\* The ranges of the variables of the activities, their queues and their dialogs.
ActivityTypeOK ==
  /\ prefs \in [custom : BOOLEAN, config : Configs, speaker : Speakers \cup {KeyName}]
  /\ settingsOpen \in BOOLEAN /\ relaunch \in BOOLEAN
  /\ selected \in BOOLEAN /\ restore \in BOOLEAN
  /\ stage \in [Workers -> {"new", "resumed", "paused", "destroying", "destroyed"}]
  /\ current \in [Workers -> Configs \cup {NoConfig}]
  /\ speaker \in [Workers -> Speakers]
  /\ pbLoadModel \in [Workers -> Dialogs] /\ pbRunModel \in [Workers -> Dialogs]
  /\ sender \in [Workers -> Seq({"load", "run"})]
  /\ receiver \in Seq([to : Workers, what : {"loaded", "loadFailed", "ran"}])
  /\ leaving \in [who : Processes, next : {"none", "finish", "recreate"}]
  /\ loaded \in [Workers -> {"none", "loaded", "loadFailed"}]
  /\ visits \in 0 .. MaxVisits
  /\ died \in {"no", "NumberFormat", "NotAttached"}

\* Type invariant of the Predictor and of the activities that use it.
TypeOK == PredictorTypeOK /\ ActivityTypeOK

\* Where the one answer to a request for w can come from: the queue of the worker,
\* a running init, or the queue of the UI thread.
Requests(w, what) == {n \in DOMAIN sender[w] : sender[w][n] = what}

Replies(w, whats) == {n \in DOMAIN receiver : receiver[n].to = w /\ receiver[n].what \in whats}

AtMostOne(S) == \A x, y \in S : x = y

LoadSources(w) ==
  (Requests(w, "load") \X {"sender"}) \cup (Replies(w, {"loaded", "loadFailed"}) \X {"receiver"})
    \cup (IF ppc[w] # "idle" THEN {<<0, "init">>} ELSE {})

RunSources(w) ==
  (Requests(w, "run") \X {"sender"}) \cup (Replies(w, {"ran"}) \X {"receiver"})

\* loadModel, runModel and the two handlers: a dialog is showing exactly while its one
\* answer is on the way, so none is dismissed early, replaced, or left to stay forever.
DialogIsAwaited ==
  \A w \in Workers :
    /\ AtMostOne(LoadSources(w)) /\ AtMostOne(RunSources(w))
    /\ pbLoadModel[w] = "showing" <=> (LoadSources(w) # {} /\ pbLoadModel[w] # "leaked")
    /\ pbRunModel[w] = "showing" <=> (RunSources(w) # {} /\ pbRunModel[w] # "leaked")

\* An activity was destroyed under its load dialog: its worker loads on regardless.
Cut ==
  \E w \in Workers : \/ pbLoadModel[w] = "leaked"
                     \/ pbLoadModel[w] = "showing" /\ stage[w] = "destroying"

\* The dialog is all that keeps two threads out of the unlocked Predictor: until an
\* activity is destroyed under it, init and releaseModel of all instances exclude each
\* other, and the two models come from one load.
DialogGuardsPredictor ==
  ~Cut => /\ AtMostOne({p \in Processes : ppc[p] # "idle"})
          /\ NoMixedModels

\* An activity in front whose load succeeded has the models of its own settings loaded,
\* whatever earlier instances loaded and released.
LoadedAsShown ==
  ~Cut => \A w \in Workers :
            stage[w] = "resumed" /\ pbLoadModel[w] = "dismissed" /\ loaded[w] = "loaded"
              => IsLoaded /\ AMPredictor.config = current[w] /\ VOCPredictor.config = current[w]

\* No dialog blocks the user forever.
DialogEnds ==
  \A w \in Workers :
    pbLoadModel[w] = "showing" \/ pbRunModel[w] = "showing"
      ~> \/ pbLoadModel[w] # "showing" /\ pbRunModel[w] # "showing"
         \/ died # "no"

\* onResume, "Reload model if configure has been changed": an activity in front has
\* taken over the stored settings, up to the case of the letters, whichever of the
\* ways of coming back (settings, home, rotation) the user took.
ReloadsUpToCase ==
  \A w \in Workers :
    died = "no" /\ stage[w] = "resumed" => ignoreCase[current[w]] = ignoreCase[prefs.config]
=============================================================================
