--------------------------- MODULE PredictorProofs ---------------------------
(***************************************************************************)
(* Proofs about the model life cycle: type correctness for any workers,    *)
(* and NoMixedModels for workers that load one at a time.  The lemmas about *)
(* a single step are also used for the modules that extend Predictor.      *)
(***************************************************************************)
EXTENDS Predictor, TLAPS

LEMMA NoJobType == NoJob \in Jobs
  BY PredictorAssumption DEF NoJob, Jobs

LEMMA LoadedModelType ==
  ASSUME NEW j \in Jobs, NEW m \in loadModel(j), j.load # 0
  PROVE  m \in Models \cup {NoModel}
  BY DEF loadModel, Jobs, Models

\* The fields of the static Predictor before anything is loaded.
LEMMA PredictorInitType == PredictorInit => PredictorTypeOK
<1> SUFFICES ASSUME PredictorInit PROVE PredictorTypeOK
  OBVIOUS
<1>1. isLoaded \in BOOLEAN
  BY Zenon DEF PredictorInit
<1> QED BY <1>1, NoJobType, PredictorAssumption DEF PredictorInit, PredictorTypeOK, Processes, Places

\* A step of a process inside init or releaseModel is a step of no other process.
LEMMA ProcessMoves ==
  ASSUME PredictorTypeOK, NEW p \in Processes, Release(p) \/ InitStep(p)
  PROVE  /\ ppc[p] # "idle" /\ \A q \in Processes : q # p => ppc'[q] = ppc[q]
         /\ UNCHANGED <<job, loads>>
<1>1. ppc \in [Processes -> Places]
  BY DEF PredictorTypeOK
<1>2. CASE Release(p)
  BY <1>1, <1>2 DEF Release, ClearAM, ClearVOC, ClearFlag, ClearSpeaker, Go
<1>3. CASE InitStep(p)
  BY <1>1, <1>3 DEF InitStep, SetSpeaker, SetLoaded, LoadAM, LoadVOC, Go
<1> QED BY <1>2, <1>3

\* No assignment of init or releaseModel leaves the ranges of the fields.
LEMMA PredictorTypeStep ==
  PredictorTypeOK /\ [PredictorNext]_predictorVars => PredictorTypeOK'
<1> USE PredictorAssumption
<1> SUFFICES ASSUME PredictorTypeOK, [PredictorNext]_predictorVars
             PROVE  PredictorTypeOK'
  OBVIOUS
<1> USE DEF PredictorTypeOK, Go, Processes, Places
<1>1. ASSUME NEW w \in Workers, NEW c \in Configs, NEW s \in Speakers, BeginInit(w, c, s)
      PROVE  PredictorTypeOK'
  BY <1>1 DEF BeginInit, Jobs
<1>2. CASE BeginRelease
  BY <1>2 DEF BeginRelease
<1>3. ASSUME NEW p \in Processes, Release(p)
      PROVE  PredictorTypeOK'
  <2>1. CASE ClearAM(p)
    BY <2>1 DEF ClearAM
  <2>2. CASE ClearVOC(p)
    BY <2>2 DEF ClearVOC
  <2>3. CASE ClearFlag(p)
    BY <2>3 DEF ClearFlag
  <2>4. CASE ClearSpeaker(p)
    BY <2>4 DEF ClearSpeaker
  <2> QED BY <1>3, <2>1, <2>2, <2>3, <2>4 DEF Release
<1>4. ASSUME NEW w \in Workers, InitStep(w)
      PROVE  PredictorTypeOK'
  <2>1. CASE SetSpeaker(w)
    BY <2>1 DEF SetSpeaker, Jobs
  <2>2. CASE SetLoaded(w)
    BY <2>2 DEF SetLoaded
  <2>3. ASSUME NEW m \in loadModel(job[w]), LoadAM(w, m) \/ LoadVOC(w, m)
        PROVE  PredictorTypeOK'
    BY <2>3, LoadedModelType DEF LoadAM, LoadVOC
  <2> QED BY <1>4, <2>1, <2>2, <2>3 DEF InitStep
<1>5. CASE UNCHANGED predictorVars
  BY <1>5 DEF predictorVars
<1> QED BY <1>1, <1>2, <1>3, <1>4, <1>5 DEF PredictorNext

\* Whatever init and releaseModel interleave, the Predictor's fields, the places
\* of the processes and the arguments of init stay in their ranges.
THEOREM PredictorTypeCorrect == PredictorSpec => []PredictorTypeOK
  BY PredictorInitType, PredictorTypeStep, PTL DEF PredictorSpec

-----------------------------------------------------------------------------
\* No two workers are inside init.
OneLoader == \A v, w \in Workers : ppc[v] # "idle" /\ ppc[w] # "idle" => v = w

\* What a worker inside init knows of the two fields: releaseModel has already
\* emptied the ones behind it, and what it has filled since comes from its own job.
PairInv ==
  /\ NoMixedModels
  /\ \A w \in Workers :
       LET own == [load |-> job[w].load, config |-> job[w].config]
       IN  /\ ppc[w] \in {"clearVOC", "clearFlag", "clearSpeaker", "setSpeaker", "loadAM"} =>
                AMPredictor = NoModel
           /\ ppc[w] \in {"clearFlag", "clearSpeaker", "setSpeaker", "loadAM", "loadVOC"} =>
                VOCPredictor = NoModel
           /\ ppc[w] = "loadVOC" => AMPredictor \in {NoModel, own}

LEMMA PairInit == PredictorInit => PairInv
  BY PredictorAssumption DEF PredictorInit, PairInv, NoMixedModels, Processes

\* While workers load one at a time, releaseModel on the UI thread, which only empties
\* the fields, cannot make the models of two loads meet.
LEMMA PairStep ==
  ASSUME PredictorTypeOK, PairInv, OneLoader, OneLoader', [PredictorNext]_predictorVars
  PROVE  PairInv'
<1> USE PredictorAssumption DEF PairInv, NoMixedModels, PredictorTypeOK, OneLoader, Go,
        Processes, Places
<1>1. ASSUME NEW w \in Workers, NEW c \in Configs, NEW s \in Speakers, BeginInit(w, c, s)
      PROVE  PairInv'
  BY <1>1 DEF BeginInit
<1>2. CASE BeginRelease
  BY <1>2 DEF BeginRelease
<1>3. ASSUME NEW p \in Processes, Release(p)
      PROVE  PairInv'
  <2>1. CASE ClearAM(p)
    BY <2>1 DEF ClearAM
  <2>2. CASE ClearVOC(p)
    BY <2>2 DEF ClearVOC
  <2>3. CASE ClearFlag(p)
    BY <2>3 DEF ClearFlag
  <2>4. CASE ClearSpeaker(p)
    BY <2>4 DEF ClearSpeaker
  <2> QED BY <1>3, <2>1, <2>2, <2>3, <2>4 DEF Release
<1>4. ASSUME NEW w \in Workers, InitStep(w)
      PROVE  PairInv'
  <2>1. CASE SetSpeaker(w)
    BY <2>1 DEF SetSpeaker
  <2>2. CASE SetLoaded(w)
    BY <2>2 DEF SetLoaded
  <2>3. ASSUME NEW m \in loadModel(job[w]), LoadAM(w, m)
        PROVE  PairInv'
    BY <2>3 DEF LoadAM, loadModel
  <2>4. ASSUME NEW m \in loadModel(job[w]), LoadVOC(w, m)
        PROVE  PairInv'
    BY <2>4 DEF LoadVOC, loadModel
  <2> QED BY <1>4, <2>1, <2>2, <2>3, <2>4 DEF InitStep
<1>5. CASE UNCHANGED predictorVars
  BY <1>5 DEF predictorVars
<1> QED BY <1>1, <1>2, <1>3, <1>4, <1>5 DEF PredictorNext

OneWorker == \A v, w \in Workers : v = w

\* Predictor.init on a single worker, racing with any number of releaseModel calls
\* on the UI thread, never leaves models of two different loads in the two fields.
THEOREM SingleWorkerNeverMixes ==
  ASSUME OneWorker
  PROVE  PredictorSpec => []NoMixedModels
<1>1. OneLoader /\ OneLoader'
  BY OneWorker DEF OneWorker, OneLoader
<1>2. PairInv /\ PredictorTypeOK /\ [PredictorNext]_predictorVars => PairInv'
  BY <1>1, PairStep
<1>3. PairInv => NoMixedModels
  BY DEF PairInv
<1> QED BY <1>2, <1>3, PairInit, PredictorTypeCorrect, PTL DEF PredictorSpec
=============================================================================
