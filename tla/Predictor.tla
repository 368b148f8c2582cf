------------------------------ MODULE Predictor ------------------------------
(***************************************************************************)
(* The life cycle of the two Paddle-Lite models (acoustic model AM and     *)
(* vocoder VOC) held by the one static Predictor of Speaktts.              *)
(*                                                                         *)
(* Predictor.init runs on a worker HandlerThread, Predictor.releaseModel   *)
(* also on the UI thread (Speaktts.onDestroy).  Neither holds a lock, so   *)
(* every assignment to a field is a step of its own: ppc is the place a    *)
(* process has reached in one of the two methods.                          *)
(***************************************************************************)
EXTENDS Naturals

CONSTANTS
  Workers,         \* worker threads that may run Predictor.init
  UI,              \* the UI thread
  Configs,         \* what a model is loaded from: path, threads, power mode
  Rejected,        \* the Configs loadModel refuses: empty path, unknown power mode
  Speakers,        \* speaker ids
  DefaultSpeaker,  \* speaker 174
  MaxLoads         \* bound: calls of Predictor.init

ASSUME PredictorAssumption ==
  /\ UI \notin Workers
  /\ Configs # {}
  /\ Rejected \subseteq Configs
  /\ DefaultSpeaker \in Speakers
  /\ MaxLoads \in Nat

VARIABLES
  AMPredictor,     \* the acoustic model, or null
  VOCPredictor,    \* the vocoder, or null
  isLoaded,        \* the flag field
  speakId,         \* the speaker field
  ppc,             \* place of each process in init / releaseModel
  job,             \* arguments of the running init of each worker
  loads            \* calls of init so far; also the identity of what they load

predictorVars == <<AMPredictor, VOCPredictor, isLoaded, speakId, ppc, job, loads>>

Processes == Workers \cup {UI}

\* A PaddlePredictor object: the init call that created it and its configuration.
Models == [load : 1 .. MaxLoads, config : Configs]

NoModel == [load |-> 0, config |-> "null"]

Jobs == [load : 0 .. MaxLoads, config : Configs, speaker : Speakers]

NoJob == [load |-> 0, config |-> CHOOSE c \in Configs : TRUE, speaker |-> DefaultSpeaker]

Places == {"idle", "clearAM", "clearVOC", "clearFlag", "clearSpeaker",
           "setSpeaker", "loadAM", "loadVOC", "setLoaded"}

PredictorInit ==
  /\ AMPredictor = NoModel
  /\ VOCPredictor = NoModel
  /\ isLoaded = FALSE
  /\ speakId = DefaultSpeaker
  /\ ppc = [p \in Processes |-> "idle"]
  /\ job = [w \in Workers |-> NoJob]
  /\ loads = 0

\* Predictor.isLoaded(): not the flag alone.
IsLoaded == AMPredictor # NoModel /\ VOCPredictor # NoModel /\ isLoaded

Go(p, from, to) ==
  /\ ppc[p] = from
  /\ ppc' = [ppc EXCEPT ![p] = to]

-----------------------------------------------------------------------------
\* Speaktts.init reaches Predictor.init on worker w.
BeginInit(w, config, speaker) ==
  /\ loads < MaxLoads
  /\ Go(w, "idle", "clearAM")
  /\ loads' = loads + 1
  /\ job' = [job EXCEPT ![w] = [load |-> loads + 1, config |-> config, speaker |-> speaker]]
  /\ UNCHANGED <<AMPredictor, VOCPredictor, isLoaded, speakId>>

\* Speaktts.onDestroy reaches Predictor.releaseModel on the UI thread.
BeginRelease ==
  /\ Go(UI, "idle", "clearAM")
  /\ UNCHANGED <<AMPredictor, VOCPredictor, isLoaded, speakId, job, loads>>

\* The assignments of releaseModel to the fields that are read again, in its order;
\* init goes on where onDestroy returns.
ClearAM(p) ==
  /\ Go(p, "clearAM", "clearVOC")
  /\ AMPredictor' = NoModel
  /\ UNCHANGED <<VOCPredictor, isLoaded, speakId, job, loads>>

KeepVOC(p) ==
  /\ Go(p, "clearVOC", "clearFlag")
  /\ UNCHANGED <<AMPredictor, VOCPredictor, isLoaded, speakId, job, loads>>

ClearVOC(p) ==
  /\ Go(p, "clearVOC", "clearFlag")
  /\ VOCPredictor' = NoModel
  /\ UNCHANGED <<AMPredictor, isLoaded, speakId, job, loads>>

ClearFlag(p) ==
  /\ Go(p, "clearFlag", "clearSpeaker")
  /\ isLoaded' = FALSE
  /\ UNCHANGED <<AMPredictor, VOCPredictor, speakId, job, loads>>

ClearSpeakerToZero(p) ==
  /\ Go(p, "clearSpeaker", IF p = UI THEN "idle" ELSE "setSpeaker")
  /\ speakId' = 0
  /\ UNCHANGED <<AMPredictor, VOCPredictor, isLoaded, job, loads>>

ClearSpeaker(p) ==
  /\ Go(p, "clearSpeaker", IF p = UI THEN "idle" ELSE "setSpeaker")
  /\ speakId' = DefaultSpeaker
  /\ UNCHANGED <<AMPredictor, VOCPredictor, isLoaded, job, loads>>

SetSpeaker(w) ==
  /\ Go(w, "setSpeaker", "loadAM")
  /\ speakId' = job[w].speaker
  /\ UNCHANGED <<AMPredictor, VOCPredictor, isLoaded, job, loads>>

\* Predictor.loadModel: null for a configuration it refuses, and whenever
\* createPaddlePredictor cannot make one of the files it is given.
loadModel(j) ==
  {NoModel} \cup
  (IF j.config \in Rejected THEN {} ELSE {[load |-> j.load, config |-> j.config]})

LoadAM(w, m) ==
  /\ Go(w, "loadAM", IF m = NoModel THEN "idle" ELSE "loadVOC")
  /\ AMPredictor' = m
  /\ UNCHANGED <<VOCPredictor, isLoaded, speakId, job, loads>>

LoadVOC(w, m) ==
  /\ Go(w, "loadVOC", IF m = NoModel THEN "idle" ELSE "setLoaded")
  /\ VOCPredictor' = m
  /\ UNCHANGED <<AMPredictor, isLoaded, speakId, job, loads>>

SetLoaded(w) ==
  /\ Go(w, "setLoaded", "idle")
  /\ isLoaded' = TRUE
  /\ UNCHANGED <<AMPredictor, VOCPredictor, speakId, job, loads>>

Release(p) == ClearAM(p) \/ ClearVOC(p) \/ ClearFlag(p) \/ ClearSpeaker(p)

InitStep(w) ==
  \/ SetSpeaker(w) \/ SetLoaded(w)
  \/ \E m \in loadModel(job[w]) : LoadAM(w, m) \/ LoadVOC(w, m)

\* Type invariant: the fields of the Predictor and the state of its callers stay in
\* their ranges, and a worker inside init has been given a load.
PredictorTypeOK ==
  /\ AMPredictor \in Models \cup {NoModel}
  /\ VOCPredictor \in Models \cup {NoModel}
  /\ isLoaded \in BOOLEAN
  /\ speakId \in Speakers
  /\ ppc \in [Processes -> Places]
  /\ job \in [Workers -> Jobs]
  /\ \A w \in Workers : ppc[w] # "idle" => job[w].load # 0
  /\ loads \in 0 .. MaxLoads

-----------------------------------------------------------------------------
(* The component by itself: any worker may be told to load at any time,    *)
(* and the activity may be destroyed at any time.                          *)

PredictorNext ==
  \/ \E w \in Workers, c \in Configs, s \in Speakers : BeginInit(w, c, s)
  \/ BeginRelease
  \/ \E p \in Processes : Release(p)
  \/ \E w \in Workers : InitStep(w)

PredictorSpec == PredictorInit /\ [][PredictorNext]_predictorVars

\* Predictor.init, without a lock, against releaseModel on the UI thread: the two
\* models that inference would use are always products of the same call of init,
\* as long as all calls come from one worker thread.
NoMixedModels ==
  AMPredictor # NoModel /\ VOCPredictor # NoModel => AMPredictor = VOCPredictor
=============================================================================
