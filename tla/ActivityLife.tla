---------------------------- MODULE ActivityLife ----------------------------
(***************************************************************************)
(* Proofs about MainActivity, first part: type correctness, the life cycle *)
(* of the instances, and the preferences; what a dialog covers, and that an *)
(* end under the dialog is final.                                          *)
(***************************************************************************)
EXTENDS MainActivity, PredictorProofs

-----------------------------------------------------------------------------
(* The inductive invariant. *)

Alive(w) == stage[w] \in {"resumed", "paused", "destroying"}

\* One instance is alive at a time; onDestroy runs for the one that is leaving.
LifeInv ==
  /\ \A w \in Workers : stage[w] = "new" =>
       /\ pbLoadModel[w] = "none" /\ pbRunModel[w] = "none" /\ loaded[w] = "none"
       /\ sender[w] = <<>> /\ ppc[w] = "idle"
  /\ \A w \in Workers : stage[w] # "new" => current[w] \in Configs
  /\ \A v, w \in Workers : Alive(v) /\ Alive(w) => v = w
  /\ \A w \in Workers : stage[w] = "destroying" <=> leaving.who = w
  /\ leaving.who = UI => leaving = Nobody
  /\ ppc[UI] # "idle" => leaving # Nobody

-----------------------------------------------------------------------------
(* What a step of the activity is to the Predictor: one of its own, or the *)
(* speaker that SpeakText sets.                                            *)

LEMMA PredictorPart ==
  ASSUME TypeOK, LifeInv, [Next]_vars
  PROVE  \/ [PredictorNext]_predictorVars
         \/ /\ speakId' \in Speakers
            /\ UNCHANGED <<AMPredictor, VOCPredictor, isLoaded, ppc, job, loads>>
<1>1. CASE UseSettings \/ TurnBehind
  BY Zenon, <1>1 DEF UseSettings, TurnBehind
<1>2. ASSUME NEW w \in Workers,
             Launch(w) \/ GoHome(w) \/ ComeBack(w) \/ onSettingsClicked(w) \/ onItemSelected(w)
      PROVE  UNCHANGED predictorVars
  BY Zenon, <1>2 DEF Launch, GoHome, ComeBack, onSettingsClicked, onItemSelected, runModel
<1>3. ASSUME NEW w \in Workers, Leave(w)
      PROVE  PredictorNext
  BY Zenon, <1>3 DEF Leave, onDestroy, PredictorNext
<1>4. ASSUME NEW w \in Workers, ttsSpeak(w)
      PROVE  /\ speakId' \in Speakers
             /\ UNCHANGED <<AMPredictor, VOCPredictor, isLoaded, ppc, job, loads>>
  BY <1>4 DEF ttsSpeak, NotANumber, TypeOK, PredictorTypeOK, ActivityTypeOK
<1>5. CASE ReleaseStep
  BY <1>5 DEF ReleaseStep, PredictorNext, Processes
<1>6. CASE HandleReply
  BY Zenon, <1>6 DEF HandleReply
<1>7. ASSUME NEW w \in Workers, NEW v \in Workers, Destroyed(w) \/ Recreated(w, v)
      PROVE  UNCHANGED predictorVars
  BY Zenon, <1>7 DEF Destroyed, Recreated
<1>8. ASSUME NEW w \in Workers, HandleLoad(w)
      PROVE  PredictorNext
  <2>1. stage[w] # "new"
    BY <1>8 DEF HandleLoad, LifeInv
  <2>2. current[w] \in Configs /\ speaker[w] \in Speakers
    BY <2>1 DEF LifeInv, TypeOK, ActivityTypeOK
  <2> QED BY <1>8, <2>2 DEF HandleLoad, PredictorNext
<1>9. ASSUME NEW w \in Workers, LoadStep(w)
      PROVE  PredictorNext
  BY <1>9 DEF LoadStep, PredictorNext, Processes
<1>10. ASSUME NEW w \in Workers, HandleRun(w)
      PROVE  UNCHANGED predictorVars
  BY Zenon, <1>10 DEF HandleRun
<1>11. CASE UNCHANGED vars
  BY Zenon, <1>11 DEF vars
<1> QED
  BY Zenon, <1>1, <1>2, <1>3, <1>4, <1>5, <1>6, <1>7, <1>8, <1>9, <1>10, <1>11
  DEF Next, UserStep, LooperStep, WorkerStep

LEMMA PredictorTypeInActivity ==
  ASSUME TypeOK, LifeInv, [Next]_vars
  PROVE  PredictorTypeOK'
<1>1. ASSUME speakId' \in Speakers, UNCHANGED <<AMPredictor, VOCPredictor, isLoaded, ppc, job, loads>>
      PROVE  PredictorTypeOK'
  BY <1>1 DEF TypeOK, PredictorTypeOK
<1> QED BY <1>1, PredictorPart, PredictorTypeStep DEF TypeOK

-----------------------------------------------------------------------------
(* Type correctness of the activity. *)

Prefs == [custom : BOOLEAN, config : Configs, speaker : Speakers \cup {KeyName}]

LEMMA ClearedType == Cleared \in Prefs /\ ~Cleared.custom /\ Cleared.config = DefaultConfig
  BY PredictorAssumption, MainActivityAssumption DEF Cleared, Prefs

\* reloadPreferenceAndUpdateUI keeps custom settings and resets all others.
LEMMA ReloadType ==
  ASSUME NEW p \in Prefs
  PROVE  /\ reloadPreferenceAndUpdateUI(p) \in Prefs
         /\ reloadPreferenceAndUpdateUI(p).custom = p.custom
         /\ p.custom => reloadPreferenceAndUpdateUI(p) = p
         /\ ~p.custom => reloadPreferenceAndUpdateUI(p).config = DefaultConfig
  BY Zenon, MainActivityAssumption DEF reloadPreferenceAndUpdateUI, preInstalledSpeackId, Prefs

LEMMA SettingsStep ==
  ASSUME ActivityTypeOK, DefaultsWithoutCustom, UseSettings \/ OpenSettings
  PROVE  prefs' \in Prefs /\ settingsOpen' \in BOOLEAN /\ DefaultsWithoutCustom'
<1>0. prefs \in Prefs
  BY DEF ActivityTypeOK, Prefs
<1>1. CASE OpenSettings
  <2>1. settingsOpen' \in BOOLEAN
    BY Zenon, <1>1 DEF OpenSettings
  <2> QED BY <1>0, <1>1, <2>1, ReloadType DEF OpenSettings, DefaultsWithoutCustom
<1>2. ASSUME NEW p \in Prefs, onSharedPreferenceChanged(p)
      PROVE  prefs' \in Prefs /\ settingsOpen' \in BOOLEAN /\ DefaultsWithoutCustom'
  BY SMTT(30), <1>2, ReloadType DEF onSharedPreferenceChanged, DefaultsWithoutCustom, ActivityTypeOK
<1>3. CASE CloseSettings
  <2>1. settingsOpen' \in BOOLEAN
    BY Zenon, <1>3 DEF CloseSettings
  <2> QED BY <1>0, <1>3, <2>1 DEF CloseSettings, DefaultsWithoutCustom
<1>4. [prefs EXCEPT !.custom = ~@] \in Prefs
  BY Zenon, <1>0 DEF Prefs
<1>5. \A c \in Configs : [prefs EXCEPT !.config = c] \in Prefs
  BY <1>0 DEF Prefs
<1>6. \A s \in Speakers : [prefs EXCEPT !.speaker = s] \in Prefs
  BY <1>0 DEF Prefs
<1> QED BY Zenon, <1>1, <1>2, <1>3, <1>4, <1>5, <1>6 DEF UseSettings, ChangeSettings

LEMMA QueueType ==
  ASSUME NEW S, NEW s \in Seq(S), s # <<>>
  PROVE  Head(s) \in S /\ Tail(s) \in Seq(S)
  OBVIOUS

\* The three ways through onResume: it throws, finds nothing changed, or loads.
Reload(w, p) ==
  /\ settingsChanged(p.config, current[w])
  /\ p.config \in Configs /\ p.speaker \in Speakers
  /\ current' = [current EXCEPT ![w] = p.config]
  /\ speaker' = [speaker EXCEPT ![w] = p.speaker]
  /\ \E d \in {"showing", "covered"} :
       /\ pbLoadModel[w] # "showing" => d = "showing"
       /\ pbLoadModel' = [pbLoadModel EXCEPT ![w] = d]
  /\ sender' = [sender EXCEPT ![w] = Append(sender[w], "load")]
  /\ UNCHANGED died

LEMMA ResumeOutcome ==
  ASSUME ActivityTypeOK, NEW w \in Workers, NEW p \in Prefs, onResume(w, p)
  PROVE  \/ /\ p.speaker = KeyName /\ died' = "NumberFormat"
            /\ UNCHANGED <<current, speaker, pbLoadModel, sender>>
         \/ /\ ~settingsChanged(p.config, current[w])
            /\ UNCHANGED <<current, speaker, pbLoadModel, sender, died>>
         \/ Reload(w, p)
<1>1. p.config \in Configs /\ (p.speaker = KeyName \/ p.speaker \in Speakers)
  BY DEF Prefs
<1>2. CASE NotANumber(p.speaker)
  BY <1>2 DEF onResume, NotANumber
<1>3. CASE ~NotANumber(p.speaker) /\ ~settingsChanged(p.config, current[w])
  BY <1>3 DEF onResume
<1>4. CASE ~NotANumber(p.speaker) /\ settingsChanged(p.config, current[w])
  <2> DEFINE d == IF pbLoadModel[w] = "showing" THEN "covered" ELSE "showing"
  <2>1. d \in {"showing", "covered"} /\ (pbLoadModel[w] # "showing" => d = "showing")
    OBVIOUS
  <2>2. pbLoadModel' = [pbLoadModel EXCEPT ![w] = d]
    BY Zenon, <1>4 DEF onResume
  <2> HIDE DEF d
  <2> QED BY Zenon, <1>1, <1>4, <2>1, <2>2 DEF onResume, NotANumber, SetFields, Reload
<1> QED BY <1>2, <1>3, <1>4

\* The three ways through the handler of answers: it throws, or dismisses a dialog.
Throws(w, what) ==
  /\ IF what = "ran" THEN pbRunModel[w] \in {"leaked", "none"} ELSE pbLoadModel[w] \in {"leaked", "none"}
  /\ died' = "NotAttached"
  /\ UNCHANGED <<pbLoadModel, pbRunModel, loaded>>

Ran(w, what) ==
  /\ what = "ran" /\ pbRunModel[w] \notin {"leaked", "none"}
  /\ pbRunModel' = [pbRunModel EXCEPT ![w] = "dismissed"]
  /\ UNCHANGED <<pbLoadModel, loaded, died>>

Loaded(w, what) ==
  /\ what # "ran" /\ pbLoadModel[w] \notin {"leaked", "none"}
  /\ pbLoadModel' = [pbLoadModel EXCEPT ![w] = "dismissed"]
  /\ loaded' = [loaded EXCEPT ![w] = what]
  /\ UNCHANGED <<pbRunModel, died>>

LEMMA ReplyOutcome ==
  ASSUME ActivityTypeOK, HandleReply
  PROVE  \E w \in Workers, what \in {"loaded", "loadFailed", "ran"} :
           /\ receiver # <<>> /\ Head(receiver) = Reply(w, what)
           /\ receiver' = Tail(receiver)
           /\ Throws(w, what) \/ Ran(w, what) \/ Loaded(w, what)
<1>1. receiver # <<>> /\ receiver' = Tail(receiver)
  BY DEF HandleReply
<1>2. Head(receiver) \in [to : Workers, what : {"loaded", "loadFailed", "ran"}]
  BY Zenon, <1>1, QueueType DEF ActivityTypeOK
<1>3. PICK w \in Workers, what \in {"loaded", "loadFailed", "ran"} :
        w = Head(receiver).to /\ what = Head(receiver).what
  BY <1>2
<1>4. Head(receiver) = Reply(w, what)
  BY <1>2, <1>3 DEF Reply
<1>5. CASE what = "ran"
  BY Zenon, <1>1, <1>3, <1>4, <1>5 DEF HandleReply, Throws, Ran
<1>6. CASE what # "ran"
  BY Zenon, <1>1, <1>3, <1>4, <1>6 DEF HandleReply, Throws, Loaded
<1> QED BY <1>5, <1>6

LEMMA ActivityTypeStep ==
  ASSUME TypeOK, DefaultsWithoutCustom, [Next]_vars
  PROVE  ActivityTypeOK'
<1> USE PredictorAssumption, MainActivityAssumption
    DEF uiVars, queues, preferences, Dialogs, Processes
<1>0. ActivityTypeOK
  BY DEF TypeOK
<1>a. /\ pbLoadModel \in [Workers -> Dialogs] /\ pbRunModel \in [Workers -> Dialogs]
      /\ loaded \in [Workers -> {"none", "loaded", "loadFailed"}]
      /\ died \in {"no", "NumberFormat", "NotAttached"}
  BY <1>0 DEF ActivityTypeOK
<1>b. /\ current \in [Workers -> Configs \cup {NoConfig}]
      /\ speaker \in [Workers -> Speakers]
  BY <1>0 DEF ActivityTypeOK
<1>c. sender \in [Workers -> Seq({"load", "run"})]
  BY <1>0 DEF ActivityTypeOK
<1>d. receiver \in Seq([to : Workers, what : {"loaded", "loadFailed", "ran"}])
  BY <1>0 DEF ActivityTypeOK
<1>1. CASE UseSettings
  BY <1>0, <1>1, SettingsStep DEF ActivityTypeOK, UseSettings, Prefs
<1>2. CASE TurnBehind
  <2>1. relaunch' \in BOOLEAN
    BY Zenon, <1>2 DEF TurnBehind
  <2> QED BY <1>0, <1>2, <2>1 DEF ActivityTypeOK, TurnBehind
<1>3. ASSUME NEW w \in Workers, NEW p \in Prefs, onResume(w, p)
      PROVE  /\ current' \in [Workers -> Configs \cup {NoConfig}]
             /\ speaker' \in [Workers -> Speakers]
             /\ pbLoadModel' \in [Workers -> Dialogs]
             /\ sender' \in [Workers -> Seq({"load", "run"})]
             /\ died' \in {"no", "NumberFormat", "NotAttached"}
  <2>1. Append(sender[w], "load") \in Seq({"load", "run"})
    BY <1>c
  <2>2. CASE died' = "NumberFormat" /\ UNCHANGED <<current, speaker, pbLoadModel, sender>>
    BY <1>a, <1>b, <1>c, <2>2
  <2>3. CASE UNCHANGED <<current, speaker, pbLoadModel, sender, died>>
    BY <1>a, <1>b, <1>c, <2>3
  <2>4. CASE Reload(w, p)
    BY <1>a, <1>b, <1>c, <2>1, <2>4 DEF Reload
  <2> QED BY <1>0, <1>3, <2>2, <2>3, <2>4, ResumeOutcome
<1>4. ASSUME NEW w \in Workers, Launch(w)
      PROVE  ActivityTypeOK'
  <2>1. relaunch' \in BOOLEAN /\ selected' \in BOOLEAN /\ restore' \in BOOLEAN
    BY Zenon, <1>4 DEF Launch, onCreate
  <2> QED BY <1>0, <1>3, <1>4, <2>1, ClearedType DEF ActivityTypeOK, Launch, onCreate, Prefs
<1>5. ASSUME NEW w \in Workers, GoHome(w)
      PROVE  ActivityTypeOK'
  BY <1>0, <1>5 DEF ActivityTypeOK, GoHome
<1>6. ASSUME NEW w \in Workers, ComeBack(w)
      PROVE  ActivityTypeOK'
  BY <1>0, <1>3, <1>6 DEF ActivityTypeOK, ComeBack, Prefs
<1>7. ASSUME NEW w \in Workers, onSettingsClicked(w)
      PROVE  ActivityTypeOK'
  BY <1>0, <1>7, SettingsStep DEF ActivityTypeOK, onSettingsClicked, Prefs
<1>8. ASSUME NEW w \in Workers, Leave(w)
      PROVE  ActivityTypeOK'
  <2>1. PICK next \in {"finish", "recreate"} : onDestroy(w, next)
    BY Zenon, <1>8 DEF Leave
  <2>2. leaving' \in [who : Processes, next : {"none", "finish", "recreate"}]
    BY <2>1 DEF onDestroy
  <2> QED BY <1>0, <2>1, <2>2 DEF ActivityTypeOK, onDestroy
<1>9. ASSUME NEW w \in Workers, ttsSpeak(w)
      PROVE  ActivityTypeOK'
  BY <1>0, <1>9 DEF ActivityTypeOK, ttsSpeak
<1>10. ASSUME NEW w \in Workers, onItemSelected(w)
       PROVE  ActivityTypeOK'
  <2>1. selected' \in BOOLEAN /\ restore' \in BOOLEAN
    BY Zenon, <1>10 DEF onItemSelected, runModel
  <2> QED BY <1>0, <1>10, <2>1 DEF ActivityTypeOK, onItemSelected, runModel
<1>11. CASE ReleaseStep
  BY <1>0, <1>11 DEF ActivityTypeOK, ReleaseStep
<1>12. CASE HandleReply
  <2>1. Tail(receiver) \in Seq([to : Workers, what : {"loaded", "loadFailed", "ran"}])
    BY <1>0, <1>12, QueueType DEF ActivityTypeOK, HandleReply
  <2>3. /\ pbLoadModel' \in [Workers -> Dialogs] /\ pbRunModel' \in [Workers -> Dialogs]
        /\ loaded' \in [Workers -> {"none", "loaded", "loadFailed"}]
        /\ died' \in {"no", "NumberFormat", "NotAttached"}
    BY <1>0, <1>a, <1>12, ReplyOutcome DEF Throws, Ran, Loaded
  <2> QED BY <1>0, <1>12, <2>1, <2>3 DEF ActivityTypeOK, HandleReply
<1>13. ASSUME NEW w \in Workers, Destroyed(w)
       PROVE  ActivityTypeOK'
  BY <1>0, <1>13 DEF ActivityTypeOK, Destroyed, quit, Nobody
<1>14. ASSUME NEW w \in Workers, NEW v \in Workers, Recreated(w, v)
       PROVE  ActivityTypeOK'
  <2>1. relaunch' \in BOOLEAN
    BY ZenonT(30), <1>14 DEF Recreated
  <2>2. sender' \in [Workers -> Seq({"load", "run"})]
    <3>1. quit(w) \in [Workers -> Seq({"load", "run"})]
      BY <1>0 DEF ActivityTypeOK, quit
    <3>2. Append(quit(w)[v], "load") \in Seq({"load", "run"})
      BY <3>1
    <3> QED BY <1>14, <3>1, <3>2 DEF Recreated
  <2>3. pbLoadModel' \in [Workers -> Dialogs] /\ pbRunModel' \in [Workers -> Dialogs]
    BY Zenon, <1>0, <1>14 DEF ActivityTypeOK, Recreated, Leak
  <2>4. leaving' \in [who : Processes, next : {"none", "finish", "recreate"}]
    BY <1>14 DEF Recreated, Nobody
  <2>5. prefs' \in Prefs
    BY <1>14, ClearedType DEF Recreated
  <2>6. current' \in [Workers -> Configs \cup {NoConfig}] /\ speaker' \in [Workers -> Speakers]
    BY <1>0, <1>14 DEF ActivityTypeOK, Recreated, SetFields
  <2>7. stage' \in [Workers -> {"new", "resumed", "paused", "destroying", "destroyed"}]
    BY Zenon, <1>0, <1>14 DEF ActivityTypeOK, Recreated
  <2> QED BY Zenon, <1>0, <1>14, <2>1, <2>2, <2>3, <2>4, <2>5, <2>6, <2>7 DEF ActivityTypeOK, Recreated, Prefs
<1>15. ASSUME NEW w \in Workers, HandleLoad(w)
       PROVE  ActivityTypeOK'
  BY <1>0, <1>15 DEF ActivityTypeOK, HandleLoad
<1>16. ASSUME NEW w \in Workers, LoadStep(w)
       PROVE  ActivityTypeOK'
  <2>1. receiver' \in Seq([to : Workers, what : {"loaded", "loadFailed", "ran"}])
    <3>1. \A what \in {"loaded", "loadFailed"} :
            Append(receiver, Reply(w, what)) \in Seq([to : Workers, what : {"loaded", "loadFailed", "ran"}])
      BY <1>0 DEF ActivityTypeOK, Reply
    <3> QED BY Zenon, <1>0, <1>16, <3>1 DEF ActivityTypeOK, LoadStep, AnswerLoad
  <2> QED BY <1>0, <1>16, <2>1 DEF ActivityTypeOK, LoadStep
<1>17. ASSUME NEW w \in Workers, HandleRun(w)
       PROVE  ActivityTypeOK'
  BY <1>0, <1>17 DEF ActivityTypeOK, HandleRun, Reply
<1>18. CASE UNCHANGED vars
  BY <1>0, <1>18 DEF ActivityTypeOK, vars
<1> QED
  BY Zenon, <1>1, <1>2, <1>4, <1>5, <1>6, <1>7, <1>8, <1>9, <1>10, <1>11, <1>12, <1>13, <1>14,
     <1>15, <1>16, <1>17, <1>18
  DEF Next, UserStep, LooperStep, WorkerStep

-----------------------------------------------------------------------------
(* The life cycle. *)

\* onResume leaves the instance with a configuration, and the others alone.
LEMMA ResumeFrame ==
  ASSUME ActivityTypeOK, NEW w \in Workers, NEW p \in Prefs, onResume(w, p),
         p.speaker # KeyName \/ current[w] \in Configs
  PROVE  /\ current'[w] \in Configs
         /\ \A v \in Workers : v # w =>
              current'[v] = current[v] /\ pbLoadModel'[v] = pbLoadModel[v] /\ sender'[v] = sender[v]
<1>1. current \in [Workers -> Configs \cup {NoConfig}] /\ sender \in [Workers -> Seq({"load", "run"})]
      /\ pbLoadModel \in [Workers -> Dialogs]
  BY DEF ActivityTypeOK
<1>2. CASE Reload(w, p)
  BY <1>1, <1>2 DEF Reload
<1>3. CASE UNCHANGED <<current, pbLoadModel, sender>> /\ current[w] \in Configs
  BY <1>3
<1> QED BY <1>1, <1>2, <1>3, ResumeOutcome DEF settingsChanged

LEMMA LifeStep ==
  ASSUME TypeOK, LifeInv, [Next]_vars
  PROVE  LifeInv'
<1> USE PredictorAssumption
<1>t. /\ stage \in [Workers -> {"new", "resumed", "paused", "destroying", "destroyed"}]
      /\ current \in [Workers -> Configs \cup {NoConfig}]
      /\ pbLoadModel \in [Workers -> Dialogs] /\ pbRunModel \in [Workers -> Dialogs]
      /\ loaded \in [Workers -> {"none", "loaded", "loadFailed"}]
      /\ sender \in [Workers -> Seq({"load", "run"})]
      /\ leaving \in [who : Processes, next : {"none", "finish", "recreate"}]
      /\ ppc \in [Processes -> Places]
      /\ ActivityTypeOK
  BY DEF TypeOK, ActivityTypeOK, PredictorTypeOK
<1>f. ASSUME UNCHANGED <<stage, pbLoadModel, pbRunModel, loaded, sender, ppc, current, leaving>>
      PROVE  LifeInv'
  BY <1>f DEF LifeInv, Alive
<1>1. CASE UseSettings \/ TurnBehind
  BY Zenon, <1>1, <1>f DEF UseSettings, TurnBehind, predictorVars, uiVars, queues
<1>2. ASSUME NEW w \in Workers, Launch(w)
      PROVE  LifeInv'
  <2>1. onResume(w, Cleared) /\ Cleared.speaker # KeyName
    BY <1>2, MainActivityAssumption DEF Launch, onCreate, Cleared
  <2>2. /\ current'[w] \in Configs
        /\ \A v \in Workers : v # w =>
             current'[v] = current[v] /\ pbLoadModel'[v] = pbLoadModel[v] /\ sender'[v] = sender[v]
    BY <1>t, <2>1, ClearedType, ResumeFrame
  <2> QED BY <1>2, <1>t, <2>2 DEF Launch, Idle, Nobody, predictorVars, LifeInv, Alive
<1>3. ASSUME NEW w \in Workers, GoHome(w) \/ onSettingsClicked(w)
      PROVE  LifeInv'
  <2>1. /\ stage[w] = "resumed" /\ stage' = [stage EXCEPT ![w] = "paused"]
        /\ UNCHANGED <<pbLoadModel, pbRunModel, loaded, sender, ppc, current, leaving>>
    BY Zenon, <1>3 DEF GoHome, onSettingsClicked, Touchable, predictorVars, queues
  <2> QED BY <1>t, <2>1 DEF LifeInv, Alive
<1>4. ASSUME NEW w \in Workers, ComeBack(w)
      PROVE  LifeInv'
  <2>1. prefs \in Prefs /\ current[w] \in Configs
    BY <1>4, <1>t DEF ComeBack, LifeInv, ActivityTypeOK, Prefs
  <2>2. /\ current'[w] \in Configs
        /\ \A v \in Workers : v # w =>
             current'[v] = current[v] /\ pbLoadModel'[v] = pbLoadModel[v] /\ sender'[v] = sender[v]
    BY <1>4, <1>t, <2>1, ResumeFrame DEF ComeBack
  <2> QED BY SMTT(30), <1>4, <1>t, <2>2 DEF ComeBack, Idle, Nobody, predictorVars, LifeInv, Alive
<1>5. ASSUME NEW w \in Workers, Leave(w)
      PROVE  LifeInv'
  <2>1. PICK next \in {"finish", "recreate"} : Idle /\ Alive(w) /\ onDestroy(w, next)
    BY Zenon, <1>5 DEF Leave, Alive, Touchable
  <2> QED BY <1>t, <2>1 DEF onDestroy, BeginRelease, Go, Idle, Nobody, queues, LifeInv, Alive, Processes
<1>6. ASSUME NEW w \in Workers, ttsSpeak(w)
      PROVE  LifeInv'
  BY Zenon, <1>6, <1>f DEF ttsSpeak, queues
<1>7. ASSUME NEW w \in Workers, onItemSelected(w)
      PROVE  LifeInv'
  BY <1>7, <1>t DEF onItemSelected, runModel, predictorVars, LifeInv, Alive
<1>8. CASE ReleaseStep
  BY <1>8, <1>t DEF ReleaseStep, Release, ClearAM, ClearVOC, ClearFlag, ClearSpeaker, Go, uiVars, queues,
     LifeInv, Alive, Processes
<1>9. CASE HandleReply
  <2>1. UNCHANGED <<stage, sender, ppc, current, leaving>>
    BY Zenon, <1>9 DEF HandleReply, predictorVars
  <2>2. PICK w \in Workers, what \in {"loaded", "loadFailed", "ran"} :
          Throws(w, what) \/ Ran(w, what) \/ Loaded(w, what)
    BY <1>9, <1>t, ReplyOutcome
  <2> QED BY <1>t, <2>1, <2>2 DEF LifeInv, Alive, Throws, Ran, Loaded
<1>10. ASSUME NEW w \in Workers, Destroyed(w)
       PROVE  LifeInv'
  <2>1. /\ stage[w] = "destroying" /\ stage' = [stage EXCEPT ![w] = "destroyed"] /\ leaving' = Nobody
        /\ sender' = [sender EXCEPT ![w] = <<>>] /\ ppc[UI] = "idle"
        /\ UNCHANGED <<pbLoadModel, pbRunModel, loaded, ppc, current>>
    BY <1>10 DEF Destroyed, quit, predictorVars, LifeInv
  <2> QED BY SMTT(30), <1>t, <2>1 DEF Nobody, LifeInv, Alive
<1>11. ASSUME NEW w \in Workers, NEW v \in Workers, Recreated(w, v)
       PROVE  LifeInv'
  <2>1. stage[w] = "destroying" /\ stage[v] = "new" /\ v # w
    BY <1>11 DEF Recreated, LifeInv
  <2>2. /\ stage' = [stage EXCEPT ![w] = "destroyed", ![v] = "resumed"]
        /\ current' = [current EXCEPT ![v] = DefaultConfig]
        /\ UNCHANGED <<ppc, loaded>> /\ ppc[UI] = "idle" /\ leaving' = Nobody
    BY Zenon, <1>11 DEF Recreated, SetFields, predictorVars
  <2>3. \A u \in Workers : u \notin {v, w} =>
          /\ pbLoadModel'[u] = pbLoadModel[u] /\ pbRunModel'[u] = pbRunModel[u]
          /\ sender'[u] = sender[u]
    BY <1>11, <1>t DEF Recreated, quit
  <2>4. current'[v] \in Configs /\ \A u \in Workers : u # v => current'[u] = current[u]
    BY <1>t, <2>2, MainActivityAssumption
  <2>5. stage'[w] = "destroyed" /\ stage'[v] = "resumed"
        /\ \A u \in Workers : u \notin {v, w} => stage'[u] = stage[u]
    BY <1>t, <2>1, <2>2
  <2>6. \A u \in Workers : u \notin {v, w} => ~Alive(u)' /\ stage'[u] # "destroying"
    BY <2>1, <2>5 DEF LifeInv, Alive
  <2>7. leaving' = Nobody /\ Nobody.who = UI /\ ppc'[UI] = "idle"
    BY <2>2 DEF Nobody
  <2>8. \A u \in Workers : stage'[u] = "new" =>
          /\ pbLoadModel'[u] = "none" /\ pbRunModel'[u] = "none" /\ loaded'[u] = "none"
          /\ sender'[u] = <<>> /\ ppc'[u] = "idle"
    BY <2>2, <2>3, <2>5 DEF LifeInv
  <2>9. \A u \in Workers : stage'[u] # "new" => current'[u] \in Configs
    BY <2>1, <2>4, <2>5 DEF LifeInv
  <2>10. \A u \in Workers : stage'[u] # "destroying" /\ leaving'.who # u
    BY <2>5, <2>6, <2>7
  <2>11. \A t, u \in Workers : Alive(t)' /\ Alive(u)' => t = u
    BY SMTT(30), <2>5, <2>6 DEF Alive
  <2> QED BY Zenon, <2>7, <2>8, <2>9, <2>10, <2>11 DEF LifeInv
<1>12. ASSUME NEW w \in Workers, HandleLoad(w)
       PROVE  LifeInv'
  BY <1>12, <1>t DEF HandleLoad, BeginInit, Go, uiVars, LifeInv, Alive, Processes
<1>13. ASSUME NEW w \in Workers, LoadStep(w)
       PROVE  LifeInv'
  <2>1. ppc[w] # "idle" /\ \E place : ppc' = [ppc EXCEPT ![w] = place]
    BY <1>13 DEF LoadStep, Release, InitStep, ClearAM, ClearVOC, ClearFlag, ClearSpeaker, SetSpeaker,
       SetLoaded, LoadAM, LoadVOC, Go
  <2>2. UNCHANGED <<stage, pbLoadModel, pbRunModel, loaded, sender, current, leaving>>
    BY Zenon, <1>13 DEF LoadStep, uiVars
  <2> QED BY SMTT(30), <1>t, <2>1, <2>2 DEF LifeInv, Alive, Processes
<1>14. ASSUME NEW w \in Workers, HandleRun(w)
       PROVE  LifeInv'
  BY <1>14, <1>t DEF HandleRun, predictorVars, uiVars, LifeInv, Alive
<1>15. CASE UNCHANGED vars
  BY Zenon, <1>15, <1>f DEF vars, predictorVars, uiVars, queues
<1> QED
  BY Zenon, <1>1, <1>2, <1>3, <1>4, <1>5, <1>6, <1>7, <1>8, <1>9, <1>10, <1>11, <1>12, <1>13, <1>14,
     <1>15
  DEF Next, UserStep, LooperStep, WorkerStep

-----------------------------------------------------------------------------
(* The dialogs. *)

SameSettings(w) == ignoreCase[current[w]] = ignoreCase[prefs.config]

\* What the dialogs of w keep out: the settings screen, the end of w, and a load of w
\* for other settings than the stored ones; and what a resumed instance shows.
DialogInvOf(w) ==
  /\ pbLoadModel[w] = "showing" => Alive(w) /\ ~settingsOpen /\ SameSettings(w)
  /\ pbRunModel[w] = "showing" => Alive(w)
  /\ pbLoadModel[w] = "leaked" \/ pbRunModel[w] = "leaked" => stage[w] = "destroyed"
  /\ leaving.who = w /\ leaving.next = "finish" =>
       pbLoadModel[w] # "showing" /\ pbRunModel[w] # "showing"
  /\ restore /\ Alive(w) => pbRunModel[w] = "none"
  /\ settingsOpen => stage[w] \notin {"resumed", "destroying"}
  /\ died = "no" /\ stage[w] = "resumed" => SameSettings(w)

DialogInv == \A w \in Workers : DialogInvOf(w)

\* onItemSelected puts up the dialog, over another one or not, and sends a request.
LEMMA SelectOutcome ==
  ASSUME NEW w \in Workers, onItemSelected(w)
  PROVE  /\ stage[w] = "resumed" /\ (restore \/ pbRunModel[w] # "showing")
         /\ \E d \in {"showing", "covered"} :
              /\ pbRunModel[w] # "showing" => d = "showing"
              /\ pbRunModel' = [pbRunModel EXCEPT ![w] = d]
         /\ sender' = [sender EXCEPT ![w] = Append(sender[w], "run")]
         /\ ~restore'
         /\ UNCHANGED <<predictorVars, preferences, stage, current, pbLoadModel, receiver, leaving, loaded,
                        died>>
<1> DEFINE d == IF pbRunModel[w] = "showing" THEN "covered" ELSE "showing"
<1>1. d \in {"showing", "covered"} /\ (pbRunModel[w] # "showing" => d = "showing")
  OBVIOUS
<1>2. pbRunModel' = [pbRunModel EXCEPT ![w] = d]
  BY Zenon DEF onItemSelected, runModel
<1> HIDE DEF d
<1> QED BY Zenon, <1>1, <1>2 DEF onItemSelected, runModel, Touchable

LEMMA DialogStep ==
  ASSUME TypeOK, LifeInv, LifeInv', DialogInv, [Next]_vars
  PROVE  DialogInv'
<1> USE PredictorAssumption, MainActivityAssumption DEF DialogInvOf, SameSettings, Alive
<1>t. /\ stage \in [Workers -> {"new", "resumed", "paused", "destroying", "destroyed"}]
      /\ current \in [Workers -> Configs \cup {NoConfig}]
      /\ pbLoadModel \in [Workers -> Dialogs] /\ pbRunModel \in [Workers -> Dialogs]
      /\ leaving \in [who : Processes, next : {"none", "finish", "recreate"}]
      /\ prefs \in Prefs
      /\ ActivityTypeOK
  BY DEF TypeOK, ActivityTypeOK, Prefs
<1>a. \A v, w \in Workers : Alive(v) /\ Alive(w) => v = w
  BY DEF LifeInv
<1> SUFFICES ASSUME NEW u \in Workers
             PROVE  DialogInvOf(u)'
  BY SMTT(30) DEF DialogInv
<1>u. DialogInvOf(u)
  BY DEF DialogInv
<1>f. ASSUME UNCHANGED <<pbLoadModel, pbRunModel, stage, current, prefs, settingsOpen, leaving, restore>>,
             died' = died \/ died' # "no"
      PROVE  DialogInvOf(u)'
  BY <1>f, <1>u
<1>1. CASE UseSettings
  <2>1. /\ settingsOpen
        /\ UNCHANGED <<pbLoadModel, pbRunModel, stage, current, leaving, restore, died>>
    BY Zenon, <1>1 DEF UseSettings, ChangeSettings, CloseSettings, onSharedPreferenceChanged, uiVars
  <2> QED BY <1>u, <2>1
<1>2. CASE TurnBehind \/ ReleaseStep
  BY ZenonT(40), <1>f, <1>2 DEF TurnBehind, ReleaseStep, preferences, uiVars
<1>3. ASSUME NEW w \in Workers, Launch(w)
      PROVE  DialogInvOf(u)'
  <2>1. /\ stage[w] = "new" /\ stage' = [stage EXCEPT ![w] = "resumed"] /\ ~Alive(u)
        /\ prefs' = Cleared /\ ~settingsOpen /\ ~restore'
        /\ UNCHANGED <<settingsOpen, pbRunModel, leaving>> /\ onResume(w, Cleared)
    BY SMTT(30), <1>3 DEF Launch, onCreate
  <2>2. CASE u # w
    <3>1. pbLoadModel'[u] = pbLoadModel[u] /\ stage'[u] = stage[u]
      BY SMTT(30), <1>t, <2>1, <2>2, ResumeOutcome, ClearedType DEF Reload
    <3> QED BY <1>u, <2>1, <2>2, <3>1
  <2>3. CASE u = w
    <3>1. pbLoadModel[w] = "none" /\ pbRunModel[w] = "none" /\ leaving.who # w
      BY <2>1 DEF LifeInv
    <3>2. pbLoadModel'[w] # "leaked" /\ (died' = "no" => SameSettings(w)')
      BY <1>t, <2>1, <3>1, ResumeOutcome, ClearedType DEF Reload, settingsChanged
    <3>3. died' = "no"
      BY <1>3, <2>1, <1>t, ResumeOutcome, ClearedType DEF Reload, Cleared, Launch, Idle
    <3> QED BY <1>t, <2>1, <2>3, <3>1, <3>2, <3>3
  <2> QED BY <2>2, <2>3
<1>4. ASSUME NEW w \in Workers, GoHome(w)
      PROVE  DialogInvOf(u)'
  BY SMTT(30), <1>u, <1>4, <1>t DEF GoHome, preferences
<1>5. ASSUME NEW w \in Workers, onSettingsClicked(w)
      PROVE  DialogInvOf(u)'
  <2>1. /\ stage[w] = "resumed" /\ pbLoadModel[w] # "showing" /\ stage' = [stage EXCEPT ![w] = "paused"]
        /\ UNCHANGED <<pbLoadModel, pbRunModel, current, leaving, restore, died>>
    BY Zenon, <1>5 DEF onSettingsClicked, Touchable
  <2>2. pbLoadModel[u] # "showing" /\ stage'[u] \notin {"resumed", "destroying"}
    BY SMTT(30), <1>a, <1>u, <1>t, <2>1
  <2> QED BY <1>u, <1>t, <2>1, <2>2
<1>6. ASSUME NEW w \in Workers, ComeBack(w)
      PROVE  DialogInvOf(u)'
  <2>1. /\ stage[w] = "paused" /\ stage' = [stage EXCEPT ![w] = "resumed"]
        /\ ~settingsOpen /\ current[w] \in Configs
        /\ UNCHANGED <<prefs, settingsOpen, pbRunModel, leaving, restore>> /\ onResume(w, prefs)
    BY SMTT(30), <1>6 DEF ComeBack, preferences, LifeInv
  <2>2. CASE u # w
    <3>1. pbLoadModel'[u] = pbLoadModel[u] /\ stage'[u] = stage[u] /\ current'[u] = current[u] /\ ~Alive(u)
      BY SMTT(30), <1>t, <1>a, <2>1, <2>2, ResumeOutcome DEF Reload
    <3> QED BY <1>u, <2>1, <2>2, <3>1
  <2>3. CASE u = w
    <3>1. /\ pbLoadModel'[w] = "showing" \/ died' = "no" => SameSettings(w)'
          /\ pbLoadModel'[w] # "leaked"
      BY <1>t, <1>u, <2>1, <2>3, ResumeOutcome DEF Reload, settingsChanged
    <3>2. leaving.who # w
      BY <2>1 DEF LifeInv
    <3> QED BY SMTT(30), <1>t, <1>u, <2>1, <2>3, <3>1, <3>2
  <2> QED BY <2>2, <2>3
<1>7. ASSUME NEW w \in Workers, Leave(w)
      PROVE  DialogInvOf(u)'
  <2>1. PICK next \in {"finish", "recreate"} :
          /\ onDestroy(w, next)
          /\ next = "finish" => pbLoadModel[w] # "showing" /\ pbRunModel[w] # "showing"
          /\ stage[w] = "resumed" \/ (stage[w] = "paused" /\ ~settingsOpen)
    BY Zenon, <1>7 DEF Leave, Touchable
  <2>2. /\ leaving'.who = w /\ leaving'.next = next /\ stage' = [stage EXCEPT ![w] = "destroying"]
        /\ UNCHANGED <<prefs, settingsOpen, pbLoadModel, pbRunModel, current, restore, died>>
    BY SMTT(30), <2>1 DEF onDestroy, preferences
  <2>3. ~settingsOpen
    <3>1. DialogInvOf(w)
      BY DEF DialogInv
    <3> QED BY <2>1, <3>1
  <2> QED BY <1>t, <1>u, <2>1, <2>2, <2>3
<1>8. ASSUME NEW w \in Workers, ttsSpeak(w)
      PROVE  DialogInvOf(u)'
  BY Zenon, <1>f, <1>8 DEF ttsSpeak, preferences
<1>9. ASSUME NEW w \in Workers, onItemSelected(w)
      PROVE  DialogInvOf(u)'
  <2>1. PICK d \in {"showing", "covered"} : pbRunModel' = [pbRunModel EXCEPT ![w] = d]
    BY <1>9, SelectOutcome
  <2>2. /\ stage[w] = "resumed" /\ ~restore'
        /\ UNCHANGED <<prefs, settingsOpen, stage, current, pbLoadModel, leaving, died>>
    BY Zenon, <1>9, SelectOutcome DEF preferences
  <2>3. leaving.who # w
    BY SMTT(30), <2>2 DEF LifeInv
  <2> QED BY <1>u, <1>t, <2>1, <2>2, <2>3
<1>10. CASE HandleReply
  <2>1. PICK w \in Workers, what \in {"loaded", "loadFailed", "ran"} :
          Throws(w, what) \/ Ran(w, what) \/ Loaded(w, what)
    BY <1>10, <1>t, ReplyOutcome
  <2>2. UNCHANGED <<prefs, settingsOpen, stage, current, leaving, restore>>
    BY Zenon, <1>10 DEF HandleReply, preferences
  <2> QED BY <1>u, <1>t, <2>1, <2>2 DEF Throws, Ran, Loaded
<1>11. ASSUME NEW w \in Workers, Destroyed(w)
       PROVE  DialogInvOf(u)'
  <2>1. /\ stage[w] = "destroying" /\ stage' = [stage EXCEPT ![w] = "destroyed"]
        /\ leaving.who = w /\ leaving.next = "finish" /\ leaving' = Nobody
        /\ UNCHANGED <<prefs, settingsOpen, pbLoadModel, pbRunModel, current, restore, died>>
    BY SMTT(30), <1>11 DEF Destroyed, preferences, LifeInv
  <2> QED BY SMTT(30), <1>u, <1>t, <2>1 DEF Nobody
<1>12. ASSUME NEW w \in Workers, NEW v \in Workers, Recreated(w, v)
       PROVE  DialogInvOf(u)'
  <2>1. stage[w] = "destroying" /\ stage[v] = "new" /\ v # w
    BY <1>12 DEF Recreated, LifeInv
  <2>2. /\ stage'[w] = "destroyed" /\ stage'[v] = "resumed"
        /\ u \notin {v, w} => stage'[u] = stage[u]
    BY <1>12, <1>t, <2>1 DEF Recreated
  <2>3. /\ pbLoadModel'[w] # "showing" /\ pbLoadModel'[v] = "showing"
        /\ u \notin {v, w} => pbLoadModel'[u] = pbLoadModel[u]
    BY <1>12, <1>t, <2>1 DEF Recreated, Leak
  <2>4. /\ pbRunModel'[w] # "showing" /\ pbRunModel'[v] = "none"
        /\ u \notin {v, w} => pbRunModel'[u] = pbRunModel[u]
    <3>1. pbRunModel[v] = "none"
      BY SMTT(30), <2>1 DEF LifeInv
    <3> QED BY <1>12, <1>t, <2>1, <3>1 DEF Recreated, Leak
  <2>5. leaving'.who = UI /\ settingsOpen' = settingsOpen
    BY SMTT(30), <1>12 DEF Recreated, Nobody
  <2>6. ~settingsOpen
    <3>1. DialogInvOf(w)
      BY DEF DialogInv
    <3> QED BY <2>1, <3>1
  <2>7. SameSettings(v)'
    BY <1>12, <1>t DEF Recreated, SetFields, Cleared
  <2>8. u \notin {v, w} => ~Alive(u)
    BY <1>a, <2>1
  <2> QED BY ZenonT(40), <1>u, <2>1, <2>2, <2>3, <2>4, <2>5, <2>6, <2>7, <2>8
<1>13. ASSUME NEW w \in Workers, HandleLoad(w) \/ LoadStep(w) \/ HandleRun(w)
       PROVE  DialogInvOf(u)'
  BY Zenon, <1>f, <1>13 DEF HandleLoad, LoadStep, HandleRun, preferences, uiVars
<1>14. CASE UNCHANGED vars
  BY Zenon, <1>14, <1>f DEF vars, preferences, uiVars
<1> QED
  BY Zenon, <1>1, <1>2, <1>3, <1>4, <1>5, <1>6, <1>7, <1>8, <1>9, <1>10, <1>11, <1>12, <1>13, <1>14
  DEF Next, UserStep, LooperStep, WorkerStep

-----------------------------------------------------------------------------
(* The preferences. *)

\* A step of the activity is one of the settings, leaves the preferences alone or
\* clears them.
LEMMA SettingsPart ==
  ASSUME [Next]_vars
  PROVE  \/ UseSettings \/ OpenSettings
         \/ UNCHANGED settingsOpen /\ prefs' \in {prefs, Cleared}
<1>1. CASE TurnBehind \/ ReleaseStep \/ HandleReply
  BY Zenon, <1>1 DEF TurnBehind, ReleaseStep, HandleReply, preferences
<1>2. ASSUME NEW w \in Workers,
             Launch(w) \/ GoHome(w) \/ ComeBack(w) \/ Leave(w) \/ ttsSpeak(w) \/ onItemSelected(w)
      PROVE  UNCHANGED settingsOpen /\ prefs' \in {prefs, Cleared}
  BY Zenon, <1>2 DEF Launch, onCreate, GoHome, ComeBack, Leave, onDestroy, ttsSpeak, onItemSelected, runModel,
     preferences
<1>3. ASSUME NEW w \in Workers, onSettingsClicked(w)
      PROVE  OpenSettings
  BY Zenon, <1>3 DEF onSettingsClicked
<1>4. ASSUME NEW w \in Workers, NEW v \in Workers, Destroyed(w) \/ Recreated(w, v)
      PROVE  UNCHANGED settingsOpen /\ prefs' \in {prefs, Cleared}
  BY Zenon, <1>4 DEF Destroyed, Recreated, preferences
<1>5. ASSUME NEW w \in Workers, WorkerStep(w)
      PROVE  UNCHANGED settingsOpen /\ prefs' \in {prefs, Cleared}
  BY Zenon, <1>5 DEF WorkerStep, HandleLoad, LoadStep, HandleRun, preferences
<1>6. CASE UNCHANGED vars
  BY Zenon, <1>6 DEF vars, preferences
<1> QED
  BY Zenon, <1>1, <1>2, <1>3, <1>4, <1>5, <1>6 DEF Next, UserStep, LooperStep

LEMMA DefaultsStep ==
  ASSUME TypeOK, DefaultsWithoutCustom, [Next]_vars
  PROVE  DefaultsWithoutCustom'
<1>1. ASSUME prefs' \in {prefs, Cleared}
      PROVE  DefaultsWithoutCustom'
  BY <1>1, ClearedType DEF DefaultsWithoutCustom
<1> QED BY Zenon, <1>1, SettingsPart, SettingsStep DEF TypeOK

LEMMA CustomStep ==
  ASSUME TypeOK, [Next]_vars
  PROVE  [~settingsOpen /\ settingsOpen' /\ prefs.custom => prefs' = prefs]_settingsVars
<1>1. prefs \in Prefs
  BY DEF TypeOK, ActivityTypeOK, Prefs
<1>2. CASE OpenSettings
  BY <1>1, <1>2, ReloadType DEF OpenSettings
<1>3. CASE UseSettings
  BY ZenonT(40), <1>3 DEF UseSettings, ChangeSettings, onSharedPreferenceChanged, CloseSettings
<1> QED BY Zenon, <1>2, <1>3, SettingsPart

-----------------------------------------------------------------------------
(* What onResume finds. *)

LEMMA Resumes ==
  ASSUME TypeOK, LifeInv, DialogInv, NEW w \in Workers, Launch(w) \/ ComeBack(w)
  PROVE  \E p \in Prefs :
           /\ onResume(w, p)
           /\ settingsChanged(p.config, current[w]) => pbLoadModel[w] \notin {"showing", "leaked"}
           /\ stage[w] \in {"new", "paused"} /\ (stage[w] = "new" => pbLoadModel[w] = "none")
           /\ stage' = [stage EXCEPT ![w] = "resumed"]
           /\ UNCHANGED <<predictorVars, receiver, loaded>>
<1>1. CASE Launch(w)
  <2>1. /\ onResume(w, Cleared) /\ stage[w] = "new" /\ stage' = [stage EXCEPT ![w] = "resumed"]
        /\ UNCHANGED <<predictorVars, receiver, loaded>>
    BY Zenon, <1>1 DEF Launch, onCreate
  <2>2. pbLoadModel[w] = "none"
    BY <2>1 DEF LifeInv
  <2> QED BY <2>1, <2>2, ClearedType
<1>2. CASE ComeBack(w)
  <2>1. /\ onResume(w, prefs) /\ stage[w] = "paused" /\ stage' = [stage EXCEPT ![w] = "resumed"]
        /\ UNCHANGED <<predictorVars, receiver, loaded>>
    BY Zenon, <1>2 DEF ComeBack
  <2>2. prefs \in Prefs
    BY DEF TypeOK, ActivityTypeOK, Prefs
  <2>3. DialogInvOf(w) /\ current[w] \in Configs
    BY <2>1 DEF DialogInv, LifeInv
  <2>4. settingsChanged(prefs.config, current[w]) => pbLoadModel[w] \notin {"showing", "leaked"}
    BY <2>1, <2>3, MainActivityAssumption DEF DialogInvOf, SameSettings, settingsChanged
  <2> QED BY <2>1, <2>2, <2>4
<1> QED BY SMTT(30), <1>1, <1>2

-----------------------------------------------------------------------------
(* The end of an activity under its load dialog. *)

\* What happens to one activity under its dialog happens for good.
CutAt(w) == pbLoadModel[w] = "leaked" \/ (pbLoadModel[w] = "showing" /\ stage[w] = "destroying")

LEMMA CutStays ==
  ASSUME TypeOK, LifeInv, DialogInv, Cut, [Next]_vars
  PROVE  Cut'
<1>t. /\ pbLoadModel \in [Workers -> Dialogs] /\ ActivityTypeOK
      /\ stage \in [Workers -> {"new", "resumed", "paused", "destroying", "destroyed"}]
  BY DEF TypeOK, ActivityTypeOK
<1>0. PICK u \in Workers : CutAt(u)
  BY SMTT(30) DEF Cut, CutAt
<1>d. /\ stage[u] \in {"destroying", "destroyed"} /\ DialogInvOf(u)
      /\ stage[u] = "destroying" <=> leaving.who = u
      /\ pbLoadModel[u] = "leaked" => stage[u] = "destroyed"
  BY <1>0 DEF DialogInv, DialogInvOf, CutAt, LifeInv
<1> SUFFICES CutAt(u)'
  BY DEF Cut, CutAt
<1>f. ASSUME pbLoadModel'[u] = pbLoadModel[u], stage'[u] = stage[u]
      PROVE  CutAt(u)'
  BY <1>0, <1>f DEF CutAt
<1>1. CASE UseSettings \/ TurnBehind \/ ReleaseStep
  BY Zenon, <1>1, <1>f DEF UseSettings, TurnBehind, ReleaseStep, uiVars
<1>2. ASSUME NEW w \in Workers, Launch(w) \/ ComeBack(w)
      PROVE  CutAt(u)'
  <2>1. PICK p \in Prefs : /\ onResume(w, p) /\ stage[w] \in {"new", "paused"}
                           /\ stage' = [stage EXCEPT ![w] = "resumed"]
    BY <1>2, Resumes
  <2>2. w # u
    BY <1>d, <2>1
  <2>3. pbLoadModel'[u] = pbLoadModel[u]
    BY <1>t, <2>1, <2>2, ResumeOutcome DEF Reload
  <2> QED BY SMTT(30), <1>f, <1>t, <2>1, <2>2, <2>3
<1>3. ASSUME NEW w \in Workers, GoHome(w) \/ onSettingsClicked(w) \/ Leave(w)
      PROVE  CutAt(u)'
  <2>1. UNCHANGED pbLoadModel
    BY Zenon, <1>3 DEF GoHome, onSettingsClicked, Leave, onDestroy
  <2>2. stage[w] \in {"resumed", "paused"} /\ \E x : stage' = [stage EXCEPT ![w] = x]
    BY Zenon, <1>3 DEF GoHome, onSettingsClicked, Leave, onDestroy, Touchable
  <2>3. w # u
    BY <1>d, <2>2
  <2> QED BY <1>f, <1>t, <2>1, <2>2, <2>3
<1>4. ASSUME NEW w \in Workers, ttsSpeak(w) \/ onItemSelected(w) \/ WorkerStep(w)
      PROVE  CutAt(u)'
  BY Zenon, <1>4, <1>f DEF ttsSpeak, onItemSelected, runModel, WorkerStep, HandleLoad, LoadStep, HandleRun, uiVars
<1>5. CASE HandleReply
  <2>1. PICK w \in Workers, what \in {"loaded", "loadFailed", "ran"} :
          Throws(w, what) \/ Ran(w, what) \/ Loaded(w, what)
    BY <1>5, <1>t, ReplyOutcome
  <2>2. leaving = Nobody /\ UNCHANGED stage
    BY Zenon, <1>5 DEF HandleReply, Idle
  <2>3. pbLoadModel[u] = "leaked"
    BY <1>0, <1>d, <2>2, PredictorAssumption DEF Nobody, CutAt
  <2>4. pbLoadModel'[u] = "leaked"
    BY <1>t, <2>1, <2>3 DEF Throws, Ran, Loaded
  <2> QED BY <2>4 DEF CutAt
<1>6. ASSUME NEW w \in Workers, Destroyed(w)
      PROVE  CutAt(u)'
  <2>1. /\ leaving.who = w /\ leaving.next = "finish" /\ UNCHANGED pbLoadModel
        /\ stage' = [stage EXCEPT ![w] = "destroyed"]
    BY Zenon, <1>6 DEF Destroyed
  <2>2. CASE u = w
    BY <1>0, <1>d, <2>1, <2>2 DEF DialogInvOf, CutAt
  <2>3. CASE u # w
    BY <1>f, <1>t, <2>1, <2>3
  <2> QED BY <2>2, <2>3
<1>7. ASSUME NEW w \in Workers, NEW v \in Workers, Recreated(w, v)
      PROVE  CutAt(u)'
  <2>1. /\ leaving.who = w /\ stage[v] = "new"
        /\ stage' = [stage EXCEPT ![w] = "destroyed", ![v] = "resumed"]
        /\ pbLoadModel' = [pbLoadModel EXCEPT ![w] = Leak(@), ![v] = "showing"]
    BY Zenon, <1>7 DEF Recreated
  <2>2. u # v
    BY <1>d, <2>1
  <2>3. CASE u = w
    <3>1. pbLoadModel'[u] = Leak(pbLoadModel[u])
      BY <1>t, <2>1, <2>2, <2>3
    <3> QED BY <1>0, <3>1 DEF CutAt, Leak
  <2>4. CASE u # w
    BY <1>f, <1>t, <2>1, <2>2, <2>4
  <2> QED BY <2>3, <2>4
<1>8. CASE UNCHANGED vars
  BY Zenon, <1>8, <1>f DEF vars, uiVars
<1> QED
  BY Zenon, <1>1, <1>2, <1>3, <1>4, <1>5, <1>6, <1>7, <1>8 DEF Next, UserStep, LooperStep
=============================================================================
