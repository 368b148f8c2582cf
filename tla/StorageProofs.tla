--------------------------- MODULE StorageProofs ----------------------------
(***************************************************************************)
(* Proofs about the files, for any file lists, workers, configurations and *)
(* any number of starts, loads and faults: all safety invariants of        *)
(* Storage.  None of them is inductive; StorageInv is.  First the parts of *)
(* it that do not speak of the contents of files.                          *)
(***************************************************************************)
EXTENDS Storage, PredictorProofs

LEMMA FileFacts ==
  /\ Len(DictFiles) \in Nat /\ Len(ModelFiles) \in Nat
  /\ \A p \in Processes : \A n \in 1 .. Len(Source(p)) : Source(p)[n] \in Files
  /\ \A f \in Range(DictFiles) : \E n \in 1 .. Len(DictFiles) : f = DictFiles[n]
  /\ \A f \in Range(ModelFiles) : \E n \in 1 .. Len(ModelFiles) : f = ModelFiles[n]
  /\ Range(DictFiles) \cap Range(ModelFiles) = {}
  BY StorageAssumption DEF Range, Source, Files

-----------------------------------------------------------------------------
(* The inductive invariant. *)

\* p is in a copying loop, or behind it and about to use the files.
InLoop(p) ==
  IF p = UI THEN upc = "copy" ELSE ppc[p] \in LoadPlaces /\ job[p].config \in Assets

\* The file of turn n is whole, or is being written once more in the present turn.
Copied(p, n) ==
  \/ disk[Source(p)[n]] = "whole"
  \/ copier[p].open /\ Source(p)[n] = File(p)

\* A thread that met neither a fault nor another loading worker since it began has
\* copied the files of all its turns so far, and what it writes now is its own.
CopyInv ==
  \A p \in Processes :
    InLoop(p) /\ p \notin upset \cup together =>
      /\ \A n \in 1 .. Len(Source(p)) : n < copier[p].next => Copied(p, n)
      /\ copier[p].open => owner[File(p)] = p

\* Workers that are inside init at the same time remember it.
TogetherInv ==
  \A v, w \in Workers : v # w /\ ppc[v] # "idle" /\ ppc[w] # "idle" => v \in together

\* Copying loops start at the first file, and without a process nothing runs.
StartInv ==
  /\ \A w \in Workers : ppc[w] \notin LoadPlaces \cup {"idle", "setLoaded"} => copier[w] = AtFirst
  /\ upc = "off" => ~session /\ copier[UI] = AtFirst /\ \A p \in Processes : ppc[p] = "idle"
  /\ died # "no" => upc = "off"

\* Only a fault leaves an engine that is not whole.
EngineInv ==
  /\ upset # {} => faults > 0
  /\ front_inst.upset => faults > 0
  /\ front_inst.made \in {"null", "short", "abort"} => front_inst.upset

\* Without faults, a file that is not whole is being written by its owner.
WriterInv ==
  faults = 0 =>
    \A f \in Files : disk[f] = "partial" => copier[owner[f]].open /\ File(owner[f]) = f

StorageInv ==
  /\ PredictorTypeOK /\ StorageTypeOK
  /\ CopyInv /\ TogetherInv /\ StartInv /\ EngineInv /\ WriterInv
  /\ EngineRecovers /\ NativeDeathNeedsFault /\ ModelsAreWhole

-----------------------------------------------------------------------------
(* What a step of Storage is to the Predictor. *)

LEMMA PredictorPart ==
  ASSUME [Next]_vars
  PROVE  [PredictorNext]_predictorVars \/ Forget
<1>1. ASSUME NEW p \in Processes, OpenFile(p) \/ CloseFile(p) \/ CopyFails(p)
      PROVE  UNCHANGED predictorVars
  BY <1>1 DEF OpenFile, CloseFile, CopyFails
<1>2. ASSUME NEW o \in InitOutcomes, InitEngine(o)
      PROVE  UNCHANGED predictorVars \/ Forget
  BY <1>2 DEF InitEngine, Die
<1>3. ASSUME Recreate \/ Launch \/ Speak
      PROVE  UNCHANGED predictorVars
  BY <1>3 DEF Recreate, Launch, Speak
<1>4. ASSUME getPhoneIds \/ Killed
      PROVE  UNCHANGED predictorVars \/ Forget
  BY <1>4 DEF getPhoneIds, Killed, Die
<1>5. ASSUME Destroy
      PROVE  PredictorNext
  BY <1>5 DEF Destroy, PredictorNext
<1>6. ASSUME NEW p \in Processes, Release(p)
      PROVE  PredictorNext
  BY <1>6 DEF PredictorNext
<1>7. ASSUME NEW w \in Workers, SetSpeaker(w) \/ SetLoaded(w)
      PROVE  PredictorNext
  BY <1>7 DEF PredictorNext, InitStep
<1>8. ASSUME NEW w \in Workers, NEW f, Load(w, f)
      PROVE  PredictorNext
  BY <1>8 DEF Load, PredictorNext, InitStep, loadModel
<1>9. ASSUME NEW w \in Workers, BeginLoad(w)
      PROVE  PredictorNext
  BY <1>9 DEF BeginLoad, PredictorNext
<1> QED
  BY <1>1, <1>2, <1>3, <1>4, <1>5, <1>6, <1>7, <1>8, <1>9
  DEF Next, vars, UIStep, WorkerStep, Processes

LEMMA PredictorTypeInStorage ==
  ASSUME PredictorTypeOK, [Next]_vars
  PROVE  PredictorTypeOK'
<1>1. CASE Forget
  BY Zenon, <1>1, NoJobType, PredictorAssumption DEF Forget, PredictorTypeOK, Processes, Places
<1> QED BY <1>1, PredictorPart, PredictorTypeStep

\* A process that has ended holds no file open.
LEMMA ForgetType ==
  ASSUME StorageTypeOK, Forget, died' \in {"no", "killed", "abort", "segv"},
         front_inst' \in [made : {"none", "null", "short", "whole", "abort"}, upset : BOOLEAN],
         faults' \in 0 .. MaxFaults
  PROVE  StorageTypeOK'
<1>1. session' \in BOOLEAN
  BY Zenon DEF Forget
<1>2. AtFirst \in [next : 1 .. Len(DictFiles) + Len(ModelFiles) + 1, open : BOOLEAN]
  BY FileFacts DEF AtFirst
<1>3. copier' = [p \in Processes |-> AtFirst]
  BY DEF Forget
<1>4. \A p \in Processes : ~copier'[p].open
  BY <1>3 DEF AtFirst
<1> QED BY <1>1, <1>2, <1>3, <1>4 DEF StorageTypeOK, Forget

\* Every step leaves the files, the copying loops and the engine in their ranges.
LEMMA StorageTypeInStorage ==
  ASSUME PredictorTypeOK, StorageTypeOK, StartInv, [Next]_vars
  PROVE  StorageTypeOK'
<1> USE StorageAssumption, PredictorAssumption, FileFacts
    DEF StorageTypeOK, Copying, LoadPlaces, Processes
<1>1. ASSUME NEW p \in Processes, OpenFile(p)
      PROVE  StorageTypeOK'
  BY SMTT(20), <1>1 DEF OpenFile, File, predictorVars
<1>2. ASSUME NEW p \in Processes, CloseFile(p)
      PROVE  StorageTypeOK'
  <2>1. copier'[p].next \in 1 .. Len(DictFiles) + Len(ModelFiles) + 1 /\ ~copier'[p].open
    BY <1>2 DEF CloseFile, Closed, Source
  <2>2. copier' = [copier EXCEPT ![p] = copier'[p]]
    BY Zenon, <1>2 DEF CloseFile, Closed
  <2> QED BY Zenon, <1>2, <2>1, <2>2 DEF CloseFile, Closed, File, predictorVars
<1>3. ASSUME NEW p \in Processes, CopyFails(p)
      PROVE  StorageTypeOK'
  <2>1. copier'[p].next \in 1 .. Len(DictFiles) + Len(ModelFiles) + 1 /\ ~copier'[p].open
    BY <1>3 DEF CopyFails, Closed, Source
  <2>2. copier' = [copier EXCEPT ![p] = copier'[p]]
    BY Zenon, <1>3 DEF CopyFails, Closed
  <2> QED BY <1>3, <2>1, <2>2 DEF CopyFails, Closed, predictorVars
<1>4. ASSUME NEW o \in InitOutcomes, InitEngine(o)
      PROVE  StorageTypeOK'
  <2>1. o \in {"null", "short", "whole", "abort"}
    BY DEF InitOutcomes
  <2>2. front_inst' \in [made : {"none", "null", "short", "whole", "abort"}, upset : BOOLEAN]
    <3>1. (UI \in upset) \in BOOLEAN
      OBVIOUS
    <3> QED BY <1>4, <2>1, <3>1 DEF InitEngine, Native_Jni
  <2>3. CASE Forget
    BY Zenon, <1>4, <2>2, <2>3, ForgetType DEF InitEngine, Die
  <2> QED BY ZenonT(30), <1>4, <2>2, <2>3 DEF InitEngine, Die, diskVars, predictorVars
<1>5. ASSUME Recreate
      PROVE  StorageTypeOK'
  BY SMTT(30), <1>5 DEF Recreate, AtFirst, predictorVars
<1>6. ASSUME NEW p \in Processes, Release(p), UNCHANGED storageVars
      PROVE  StorageTypeOK'
  BY <1>6 DEF Release, ClearAM, ClearVOC, ClearFlag, ClearSpeaker, Go, storageVars, diskVars,
              PredictorTypeOK
<1>7. ASSUME NEW w \in Workers, SetSpeaker(w) \/ SetLoaded(w), UNCHANGED storageVars
      PROVE  StorageTypeOK'
  BY ZenonT(30), <1>7 DEF SetSpeaker, SetLoaded, Go, storageVars, diskVars, PredictorTypeOK
<1>8. ASSUME NEW w \in Workers, NEW f \in {"AM", "VOC"}, Load(w, f)
      PROVE  StorageTypeOK'
  BY SMTT(20), <1>8 DEF Load, LoadAM, LoadVOC, Go, AtFirst, ModelsCopied, PredictorTypeOK, Files
<1>9. ASSUME getPhoneIds \/ Killed
      PROVE  StorageTypeOK'
  <2>1. CASE Forget
    <3>1. NoEngine \in [made : {"none", "null", "short", "whole", "abort"}, upset : BOOLEAN]
      BY DEF NoEngine
    <3>2. front_inst' \in {front_inst, NoEngine}
      BY <1>9, <2>1 DEF getPhoneIds, Killed, Die, Forget
    <3>3. faults' \in 0 .. MaxFaults
      BY SMTT(30), <1>9 DEF getPhoneIds, Killed
    <3>4. died' \in {"no", "killed", "abort", "segv"}
      BY <1>9 DEF getPhoneIds, Killed, Die
    <3> QED BY Zenon, <2>1, <3>1, <3>2, <3>3, <3>4, ForgetType
  <2> QED BY ZenonT(30), <1>9, <2>1 DEF getPhoneIds, Killed, Die, diskVars, predictorVars
<1>10. ASSUME NEW w \in Workers, BeginLoad(w)
       PROVE  StorageTypeOK'
  BY SMTT(20), <1>10 DEF BeginLoad, BeginInit, Go, AtFirst, PredictorTypeOK
<1>11. ASSUME Launch
       PROVE  StorageTypeOK'
  BY <1>11 DEF Launch, NoEngine, diskVars, predictorVars
<1>12. ASSUME Destroy
       PROVE  StorageTypeOK'
  BY <1>12 DEF Destroy, BeginRelease, Go, diskVars, PredictorTypeOK
<1>13. ASSUME Speak
       PROVE  StorageTypeOK'
  BY <1>13 DEF Speak, diskVars, predictorVars
<1>14. ASSUME UNCHANGED vars
       PROVE  StorageTypeOK'
  BY <1>14 DEF vars, storageVars, diskVars, predictorVars
<1> QED
  BY ZenonT(40), <1>1, <1>2, <1>3, <1>4, <1>5, <1>6, <1>7, <1>8, <1>9, <1>10, <1>11, <1>12, <1>13, <1>14
  DEF Next, UIStep, WorkerStep

-----------------------------------------------------------------------------
(* Each part of the invariant, step by step. *)

\* A worker comes into init only by BeginLoad, and keeps its job until it is out again.
LEMMA WorkerFrame ==
  ASSUME PredictorTypeOK, [Next]_vars
  PROVE  \/ Forget
         \/ \E w \in Workers : BeginLoad(w)
         \/ /\ UNCHANGED <<job, together>>
            /\ \A w \in Workers : ppc'[w] # "idle" => ppc[w] # "idle"
<1> USE PredictorAssumption DEF PredictorTypeOK, Processes
<1>1. ASSUME NEW p \in Processes, Release(p), UNCHANGED storageVars
      PROVE  UNCHANGED <<job, together>> /\ \A w \in Workers : ppc'[w] # "idle" => ppc[w] # "idle"
  BY <1>1 DEF Release, ClearAM, ClearVOC, ClearFlag, ClearSpeaker, Go, storageVars
<1>2. ASSUME NEW v \in Workers, SetSpeaker(v) \/ SetLoaded(v), UNCHANGED storageVars
      PROVE  UNCHANGED <<job, together>> /\ \A w \in Workers : ppc'[w] # "idle" => ppc[w] # "idle"
  BY <1>2 DEF SetSpeaker, SetLoaded, Go, storageVars
<1>3. ASSUME NEW v \in Workers, NEW f \in {"AM", "VOC"}, Load(v, f)
      PROVE  UNCHANGED <<job, together>> /\ \A w \in Workers : ppc'[w] # "idle" => ppc[w] # "idle"
  BY <1>3 DEF Load, LoadAM, LoadVOC, Go
<1>4. ASSUME Destroy
      PROVE  UNCHANGED <<job, together>> /\ \A w \in Workers : ppc'[w] # "idle" => ppc[w] # "idle"
  BY <1>4 DEF Destroy, BeginRelease, Go
<1>5. ASSUME NEW p \in Processes, OpenFile(p) \/ CloseFile(p) \/ CopyFails(p)
      PROVE  UNCHANGED <<ppc, job, together>>
  BY <1>5 DEF OpenFile, CloseFile, CopyFails, predictorVars
<1>6. ASSUME NEW o \in InitOutcomes, InitEngine(o)
      PROVE  Forget \/ UNCHANGED <<ppc, job, together>>
  BY <1>6 DEF InitEngine, Die, predictorVars
<1>7. ASSUME Recreate \/ Launch \/ Speak \/ getPhoneIds \/ Killed
      PROVE  Forget \/ UNCHANGED <<ppc, job, together>>
  BY <1>7 DEF Recreate, Launch, Speak, getPhoneIds, Killed, Die, predictorVars
<1>8. ASSUME UNCHANGED vars
      PROVE  UNCHANGED <<ppc, job, together>>
  BY <1>8 DEF vars, predictorVars, storageVars
<1> QED
  BY <1>1, <1>2, <1>3, <1>4, <1>5, <1>6, <1>7, <1>8 DEF Next, UIStep, WorkerStep, Processes

LEMMA TogetherStep ==
  ASSUME PredictorTypeOK, TogetherInv, [Next]_vars
  PROVE  TogetherInv'
<1>1. CASE Forget
  BY <1>1 DEF Forget, TogetherInv, Processes
<1>2. ASSUME NEW w \in Workers, BeginLoad(w)
      PROVE  TogetherInv'
  BY SMTT(20), <1>2 DEF BeginLoad, BeginInit, Go, TogetherInv, PredictorTypeOK
<1> QED BY <1>1, <1>2, WorkerFrame DEF TogetherInv

LEMMA StartStep ==
  ASSUME PredictorTypeOK, StorageTypeOK, StartInv, [Next]_vars
  PROVE  StartInv'
<1> USE PredictorAssumption DEF StartInv, PredictorTypeOK, LoadPlaces, Processes
<1>1. CASE Forget
  <2>1. upc' = "off" /\ ~session'
    BY <1>1 DEF Forget
  <2> QED BY <1>1, <2>1 DEF Forget
<1>2. ASSUME NEW p \in Processes, OpenFile(p) \/ CloseFile(p) \/ CopyFails(p)
      PROVE  StartInv'
  BY <1>2 DEF OpenFile, CloseFile, CopyFails, Closed, Copying, predictorVars, StorageTypeOK
<1>3. ASSUME NEW o \in InitOutcomes, InitEngine(o)
      PROVE  StartInv'
  BY <1>1, <1>3 DEF InitEngine, Die, diskVars, predictorVars
<1>4. ASSUME Recreate \/ Launch \/ Speak \/ Destroy
      PROVE  StartInv'
  <2>1. upc' # "off" /\ died' = "no"
    BY <1>4 DEF Recreate, Launch, Speak, Destroy
  <2>2. \A w \in Workers : ppc'[w] = ppc[w] /\ copier'[w] = copier[w]
    BY <1>4 DEF Recreate, Launch, Speak, Destroy, BeginRelease, Go, diskVars, predictorVars,
                StorageTypeOK
  <2> QED BY <2>1, <2>2
<1>5. ASSUME getPhoneIds \/ Killed
      PROVE  StartInv'
  BY <1>1, <1>5 DEF getPhoneIds, Killed, Die, diskVars, predictorVars
<1>6. ASSUME NEW p \in Processes, Release(p), UNCHANGED storageVars
      PROVE  StartInv'
  BY <1>6 DEF Release, ClearAM, ClearVOC, ClearFlag, ClearSpeaker, Go, storageVars, diskVars
<1>7. ASSUME NEW w \in Workers, SetSpeaker(w) \/ SetLoaded(w), UNCHANGED storageVars
      PROVE  StartInv'
  BY SMTT(30), <1>7 DEF SetSpeaker, SetLoaded, Go, storageVars, diskVars
<1>8. ASSUME NEW w \in Workers, NEW f \in {"AM", "VOC"}, Load(w, f)
      PROVE  StartInv'
  BY <1>8 DEF Load, LoadAM, LoadVOC, Go, StorageTypeOK
<1>9. ASSUME NEW w \in Workers, BeginLoad(w)
      PROVE  StartInv'
  BY <1>9 DEF BeginLoad, BeginInit, Go, StorageTypeOK
<1>10. ASSUME UNCHANGED vars
       PROVE  StartInv'
  BY <1>10 DEF vars, predictorVars, storageVars, diskVars
<1> QED
  BY <1>2, <1>3, <1>4, <1>5, <1>6, <1>7, <1>8, <1>9, <1>10 DEF Next, UIStep, WorkerStep

-----------------------------------------------------------------------------
(* The contents of files. *)

\* The files of a thread that met no other worker are written by nobody else: the
\* dictionaries only by the UI thread, the models only by workers inside init.
LEMMA OwnFiles ==
  ASSUME PredictorTypeOK, StorageTypeOK, TogetherInv,
         NEW p \in Processes, Copying(p),
         NEW q \in Processes, q # p, InLoop(q), q \notin together
  PROVE  \A n \in 1 .. Len(Source(q)) : Source(q)[n] # File(p)
<1>1. copier[p].next \in 1 .. Len(Source(p))
  BY FileFacts DEF Copying, StorageTypeOK, Source
<1>2. p = UI \/ q = UI
  BY DEF Copying, InLoop, TogetherInv, LoadPlaces, Processes
<1>3. \A n \in 1 .. Len(DictFiles), m \in 1 .. Len(ModelFiles) : DictFiles[n] # ModelFiles[m]
  BY StorageAssumption, FileFacts DEF Range
<1> QED BY <1>1, <1>2, <1>3 DEF Source, File

\* A thread still in its loop is inside the list of its files.
LEMMA FileInList ==
  ASSUME StorageTypeOK, NEW p \in Processes, Copying(p)
  PROVE  /\ copier[p].next \in 1 .. Len(Source(p))
         /\ File(p) \in Files
<1>1. copier[p].next \in 1 .. Len(Source(p))
  BY FileFacts DEF Copying, StorageTypeOK, Source
<1> QED BY <1>1, FileFacts DEF File

\* Where nothing is written, a thread that is in its loop begins it or was in it.
LEMMA CopyKept ==
  ASSUME CopyInv, UNCHANGED <<disk, owner>>,
         \A q \in Processes : InLoop(q)' =>
           \/ copier'[q] = AtFirst
           \/ q \in upset' \cup together'
           \/ InLoop(q) /\ q \notin upset \cup together /\ copier'[q] = copier[q]
  PROVE  CopyInv'
<1> SUFFICES ASSUME NEW q \in Processes, InLoop(q)', q \notin upset' \cup together'
             PROVE  /\ \A n \in 1 .. Len(Source(q)) : n < copier'[q].next => Copied(q, n)'
                    /\ copier'[q].open => owner'[File(q)'] = q
  BY Zenon DEF CopyInv
<1>1. CASE copier'[q] = AtFirst
  <2>1. copier'[q].next = 1 /\ ~copier'[q].open
    BY <1>1 DEF AtFirst
  <2>2. \A n \in 1 .. Len(Source(q)) : ~(n < 1)
    BY FileFacts
  <2> QED BY <2>1, <2>2, Zenon
<1>2. CASE InLoop(q) /\ q \notin upset \cup together /\ copier'[q] = copier[q]
  <2>1. /\ \A n \in 1 .. Len(Source(q)) : n < copier[q].next => Copied(q, n)
        /\ copier[q].open => owner[File(q)] = q
    BY <1>2, Zenon DEF CopyInv
  <2>2. File(q)' = File(q) /\ \A n : Copied(q, n)' <=> Copied(q, n)
    BY <1>2, Zenon DEF Copied, File
  <2> QED BY <1>2, <2>1, <2>2, Zenon
<1> QED BY <1>1, <1>2, Zenon

LEMMA CopyStep ==
  ASSUME PredictorTypeOK, StorageTypeOK, StartInv, TogetherInv, CopyInv, [Next]_vars
  PROVE  CopyInv'
<1> USE PredictorAssumption, FileFacts
<1>1. ASSUME NEW p \in Processes, OpenFile(p)
      PROVE  CopyInv'
  <2> SUFFICES ASSUME NEW q \in Processes, InLoop(q)', q \notin (upset \cup together)'
               PROVE  /\ \A n \in 1 .. Len(Source(q)) : n < copier'[q].next => Copied(q, n)'
                      /\ copier'[q].open => owner'[File(q)'] = q
    BY DEF CopyInv
  <2>1. InLoop(q) /\ q \notin upset \cup together
    BY <1>1 DEF OpenFile, InLoop, predictorVars
  <2>2. File(p)' = File(p) /\ copier'[p].next = copier[p].next /\ copier'[p].open /\ ~copier[p].open
    BY <1>1 DEF OpenFile, File, StorageTypeOK
  <2>3. CASE q = p
    BY <1>1, <2>1, <2>2, <2>3, FileInList DEF OpenFile, CopyInv, Copied, StorageTypeOK
  <2>4. CASE q # p
    <3>1. copier'[q] = copier[q] /\ File(q)' = File(q)
      BY <1>1, <2>4 DEF OpenFile, File, StorageTypeOK
    <3>2. \A n \in 1 .. Len(Source(q)) :
            disk'[Source(q)[n]] = disk[Source(q)[n]] /\ owner'[Source(q)[n]] = owner[Source(q)[n]]
      BY <1>1, <2>1, <2>4, OwnFiles DEF OpenFile, StorageTypeOK
    <3>3. copier[q].open => owner'[File(q)] = owner[File(q)]
      BY <3>2, FileInList DEF StorageTypeOK, File
    <3> QED BY <2>1, <3>1, <3>2, <3>3 DEF CopyInv, Copied
  <2> QED BY <2>3, <2>4
<1>2. ASSUME NEW p \in Processes, CloseFile(p)
      PROVE  CopyInv'
  <2> SUFFICES ASSUME NEW q \in Processes, InLoop(q)', q \notin (upset \cup together)'
               PROVE  /\ \A n \in 1 .. Len(Source(q)) : n < copier'[q].next => Copied(q, n)'
                      /\ copier'[q].open => owner'[File(q)'] = q
    BY DEF CopyInv
  <2>1. InLoop(q) /\ q \notin upset \cup together
    BY <1>2 DEF CloseFile, InLoop, predictorVars
  <2>2. \A f \in Files : disk[f] = "whole" => disk'[f] = "whole"
    BY <1>2 DEF CloseFile, StorageTypeOK
  <2>3. CASE q = p
    <3>1. copier'[p].next = copier[p].next + 1 /\ ~copier'[p].open
      BY <1>2 DEF CloseFile, Closed, StorageTypeOK
    <3>2. disk'[File(p)] = "whole"
      BY <1>2, <2>1, <2>3, FileInList DEF CloseFile, CopyInv, StorageTypeOK
    <3>3. \A n \in 1 .. Len(Source(p)) : n < copier[p].next => disk'[Source(p)[n]] = "whole"
      BY SMTT(30), <2>1, <2>2, <2>3, <3>2 DEF CopyInv, Copied
    <3>4. \A n \in 1 .. Len(Source(p)) : n < copier[p].next + 1 => disk'[Source(p)[n]] = "whole"
      BY <1>2, <3>2, <3>3, FileInList DEF CloseFile, File
    <3> QED BY <2>3, <3>1, <3>4 DEF Copied
  <2>4. CASE q # p
    <3>1. copier'[q] = copier[q] /\ File(q)' = File(q) /\ owner' = owner
      BY SMTT(30), <1>2, <2>4 DEF CloseFile, Closed, File, StorageTypeOK
    <3> QED BY <2>1, <2>2, <3>1 DEF CopyInv, Copied
  <2> QED BY <2>3, <2>4
<1>3. /\ ppc \in [Processes -> Places] /\ DOMAIN copier = Processes /\ DOMAIN job = Workers
      /\ UI \notin Workers /\ Processes = Workers \cup {UI}
  BY Zenon DEF PredictorTypeOK, StorageTypeOK, Processes
<1>4. ASSUME UNCHANGED <<disk, owner, copier, upc, ppc, job>>, upset \cup together \subseteq upset' \cup together'
      PROVE  CopyInv'
  BY <1>4, CopyKept, Zenon DEF InLoop
<1>5. ASSUME NEW p \in Processes, CopyFails(p)
      PROVE  CopyInv'
  <2>1. /\ UNCHANGED <<disk, owner, upc, ppc, job, together>> /\ upset' = upset \cup {p}
        /\ \A q \in Processes : q # p => copier'[q] = copier[q]
    BY <1>3, <1>5, Zenon DEF CopyFails, Closed, predictorVars
  <2> QED BY <2>1, CopyKept, Zenon DEF InLoop
<1>6. CASE Forget
  <2>1. UNCHANGED <<disk, owner>> /\ \A q \in Processes : copier'[q] = AtFirst
    BY <1>6, Zenon DEF Forget
  <2> QED BY <2>1, CopyKept, Zenon
<1>7. ASSUME NEW o \in InitOutcomes, InitEngine(o)
      PROVE  CopyInv'
  <2>1. CASE o = "abort"
    BY <1>6, <1>7, <2>1, Zenon DEF InitEngine, Die
  <2>2. CASE o # "abort"
    <3>1. UNCHANGED <<disk, owner, copier, ppc, job, upset, together>> /\ upc' = "up"
      BY <1>7, <2>2, Zenon DEF InitEngine, diskVars, predictorVars
    <3> QED BY <3>1, CopyKept, Zenon DEF InLoop
  <2> QED BY <2>1, <2>2
<1>8. ASSUME Recreate
      PROVE  CopyInv'
  <2>1. /\ UNCHANGED <<disk, owner, ppc, job, together>> /\ upset' = upset \ {UI}
        /\ copier'[UI] = AtFirst /\ \A q \in Workers : copier'[q] = copier[q]
    BY <1>3, <1>8, Zenon DEF Recreate, predictorVars
  <2> QED BY <1>3, <2>1, CopyKept, Zenon DEF InLoop
<1>9. ASSUME Launch
      PROVE  CopyInv'
  <2>1. /\ UNCHANGED <<disk, owner, copier, ppc, job>> /\ copier[UI] = AtFirst
        /\ \A q \in Processes : ppc[q] = "idle"
    BY <1>9, Zenon DEF Launch, StartInv, diskVars, predictorVars
  <2> QED BY <1>3, <2>1, CopyKept, Zenon DEF InLoop, LoadPlaces
<1>10. ASSUME Speak \/ getPhoneIds \/ Killed
      PROVE  CopyInv'
  BY <1>4, <1>6, <1>10, Zenon DEF Speak, getPhoneIds, Killed, Die, diskVars, predictorVars
<1>11. ASSUME NEW p \in Processes, UNCHANGED <<storageVars, job>>,
             \A q \in Processes : q # p => ppc'[q] = ppc[q],
             ppc'[p] \notin LoadPlaces \/ copier[p] = AtFirst \/ p = UI
       PROVE  CopyInv'
  BY <1>3, <1>11, CopyKept, Zenon DEF InLoop, storageVars, diskVars
<1>12. ASSUME Destroy
      PROVE  CopyInv'
  <2>1. /\ UNCHANGED <<disk, owner, copier, upset, together, job>> /\ upc' = "destroy"
        /\ \A q \in Processes : q # UI => ppc'[q] = ppc[q]
    BY <1>3, <1>12, Zenon DEF Destroy, BeginRelease, Go, diskVars
  <2> QED BY <1>3, <2>1, CopyKept, Zenon DEF InLoop
<1>13. ASSUME NEW p \in Processes, Release(p), UNCHANGED storageVars
       PROVE  CopyInv'
  <2>1. job' = job /\ \E place \in Places \ LoadPlaces : ppc' = [ppc EXCEPT ![p] = place]
    BY <1>13, Zenon DEF Release, ClearAM, ClearVOC, ClearFlag, ClearSpeaker, Go, Places, LoadPlaces
  <2>2. ppc'[p] \notin LoadPlaces /\ \A q \in Processes : q # p => ppc'[q] = ppc[q]
    BY <1>3, <2>1, Zenon
  <2> QED BY <1>11, <1>13, <2>1, <2>2, Zenon
<1>14. ASSUME NEW w \in Workers, SetSpeaker(w), UNCHANGED storageVars
       PROVE  CopyInv'
  <2>1. /\ job' = job /\ ppc[w] = "setSpeaker" /\ w \in Processes
        /\ \A q \in Processes : q # w => ppc'[q] = ppc[q]
    BY <1>3, <1>14, Zenon DEF SetSpeaker, Go
  <2>2. copier[w] = AtFirst
    BY <2>1, Zenon DEF StartInv, LoadPlaces
  <2> QED BY <1>11, <1>14, <2>1, <2>2, Zenon
<1>15. ASSUME NEW w \in Workers, SetLoaded(w), UNCHANGED storageVars
       PROVE  CopyInv'
  <2>1. /\ job' = job /\ ppc'[w] = "idle" /\ w \in Processes
        /\ \A q \in Processes : q # w => ppc'[q] = ppc[q]
    BY <1>3, <1>15, Zenon DEF SetLoaded, Go
  <2> QED BY <1>11, <1>15, <2>1, Zenon DEF LoadPlaces
<1>16. ASSUME NEW w \in Workers, NEW f \in {"AM", "VOC"}, Load(w, f)
       PROVE  CopyInv'
  <2>1. copier' = [copier EXCEPT ![w] = AtFirst] /\ UNCHANGED <<disk, owner, upc, upset, together, job>>
    BY <1>16, Zenon DEF Load, LoadAM, LoadVOC
  <2>2. \E place : ppc' = [ppc EXCEPT ![w] = place]
    BY <1>16, Zenon DEF Load, LoadAM, LoadVOC, Go
  <2>3. copier'[w] = AtFirst /\ \A q \in Processes : q # w => ppc'[q] = ppc[q] /\ copier'[q] = copier[q]
    BY <1>3, <2>1, <2>2, Zenon
  <2> QED BY <1>3, <2>1, <2>3, CopyKept, Zenon DEF InLoop
<1>17. ASSUME NEW w \in Workers, BeginLoad(w)
       PROVE  CopyInv'
  <2>1. /\ UNCHANGED <<disk, owner, upc>> /\ upset' = upset \ {w} /\ together \ {w} \subseteq together'
        /\ copier' = [copier EXCEPT ![w] = AtFirst]
    BY <1>17, Zenon DEF BeginLoad
  <2>2. /\ \A q \in Processes : q # w => ppc'[q] = ppc[q]
        /\ \A q \in Workers : q # w => job'[q] = job[q]
    BY <1>3, <1>17, Zenon DEF BeginLoad, BeginInit, Go
  <2>3. copier'[w] = AtFirst /\ \A q \in Processes : q # w => copier'[q] = copier[q]
    BY <1>3, <2>1, Zenon
  <2> QED BY <1>3, <2>1, <2>2, <2>3, CopyKept, Zenon DEF InLoop
<1>18. ASSUME UNCHANGED vars
       PROVE  CopyInv'
  BY <1>4, <1>18, Zenon DEF vars, predictorVars, storageVars, diskVars
<1> QED
  BY <1>1, <1>2, <1>3, <1>5, <1>7, <1>8, <1>9, <1>10, <1>12, <1>13, <1>14, <1>15, <1>16, <1>17, <1>18, Zenon
  DEF Next, UIStep, WorkerStep

\* FrontEngineInterface.init makes a whole engine of dictionaries that were copied
\* without a fault.
LEMMA WholeOutcome ==
  ASSUME StorageTypeOK, CopyInv, upc = "copy", ~Copying(UI), UI \notin upset,
         NEW o \in InitOutcomes
  PROVE  o = "whole"
<1> USE PredictorAssumption, StorageAssumption, FileFacts
<1>1. UI \in Processes /\ UI \notin together /\ ~copier[UI].open
  BY DEF StorageTypeOK, Processes
<1>2. copier[UI].next > Len(DictFiles)
  BY <1>1 DEF Copying, Source, StorageTypeOK
<1>3. \A n \in 1 .. Len(DictFiles) : disk[DictFiles[n]] = "whole"
  BY <1>1, <1>2 DEF CopyInv, Copied, InLoop, Source, StorageTypeOK
<1>4. \A f \in Range(DictFiles) : disk[f] = "whole"
  BY <1>3
<1>5. /\ {disk[f] : f \in ({"jieba", "g2p"} \cap Range(DictFiles)) \cup {"conf"}} = {"whole"}
      /\ {disk[f] : f \in Range(DictFiles)} = {"whole"}
      /\ "absent" \notin {disk[f] : f \in {"jieba", "g2p"} \cap Range(DictFiles)}
      /\ "absent" \notin {disk[f] : f \in Tables}
      /\ disk["conf"] = "whole"
  BY SMTT(30), <1>4 DEF Tables
<1> QED BY Zenon, <1>5 DEF InitOutcomes

LEMMA EngineStep ==
  ASSUME PredictorTypeOK, StorageTypeOK, StartInv, CopyInv, EngineInv, EngineRecovers,
         NativeDeathNeedsFault, [Next]_vars
  PROVE  EngineInv' /\ EngineRecovers' /\ NativeDeathNeedsFault'
<1> USE PredictorAssumption DEF EngineInv, EngineRecovers, NativeDeathNeedsFault, StorageTypeOK
<1>1. ASSUME NEW p \in Processes, OpenFile(p) \/ CloseFile(p)
      PROVE  EngineInv' /\ EngineRecovers' /\ NativeDeathNeedsFault'
  BY SMTT(30), <1>1 DEF OpenFile, CloseFile
<1>2. ASSUME NEW p \in Processes, CopyFails(p)
      PROVE  EngineInv' /\ EngineRecovers' /\ NativeDeathNeedsFault'
  BY <1>2, StorageAssumption DEF CopyFails, Copying
<1>3. ASSUME NEW o \in InitOutcomes, InitEngine(o)
      PROVE  EngineInv' /\ EngineRecovers' /\ NativeDeathNeedsFault'
  <2>1. UI \notin upset => o = "whole"
    BY <1>3, WholeOutcome DEF InitEngine
  <2>2. front_inst'.made = o /\ front_inst'.upset = (UI \in upset)
    BY <1>3 DEF InitEngine, Native_Jni
  <2>3. UNCHANGED <<faults, upset>>
    BY <1>3 DEF InitEngine, Die, Forget
  <2>4. (upc' = "up" /\ died' = died) \/ (upc' = "off" /\ o = "abort")
    BY <1>3 DEF InitEngine, Die, Forget
  <2> QED BY Zenon, <1>3, <2>1, <2>2, <2>3, <2>4 DEF InitEngine, StartInv
<1>4. ASSUME Recreate \/ Launch \/ Destroy \/ Speak
      PROVE  EngineInv' /\ EngineRecovers' /\ NativeDeathNeedsFault'
  BY SMTT(30), <1>4 DEF Recreate, Launch, Destroy, Speak, NoEngine
<1>5. ASSUME getPhoneIds \/ Killed
      PROVE  EngineInv' /\ EngineRecovers' /\ NativeDeathNeedsFault'
  BY <1>5, StorageAssumption DEF getPhoneIds, Killed, Die, Forget, NoEngine, StartInv
<1>6. ASSUME UNCHANGED storageVars
      PROVE  EngineInv' /\ EngineRecovers' /\ NativeDeathNeedsFault'
  BY SMTT(30), <1>6 DEF storageVars
<1>7. ASSUME NEW w \in Workers, NEW f \in {"AM", "VOC"}, Load(w, f)
      PROVE  EngineInv' /\ EngineRecovers' /\ NativeDeathNeedsFault'
  BY <1>7 DEF Load
<1>8. ASSUME NEW w \in Workers, BeginLoad(w)
      PROVE  EngineInv' /\ EngineRecovers' /\ NativeDeathNeedsFault'
  BY <1>8 DEF BeginLoad
<1> QED
  BY Zenon, <1>1, <1>2, <1>3, <1>4, <1>5, <1>6, <1>7, <1>8 DEF Next, UIStep, WorkerStep, vars, Processes

LEMMA WriterStep ==
  ASSUME PredictorTypeOK, StorageTypeOK, StartInv, CopyInv, EngineInv, WriterInv, [Next]_vars
  PROVE  WriterInv'
<1> USE PredictorAssumption
<1>0. /\ disk \in [Files -> {"absent", "partial", "whole"}] /\ owner \in [Files -> Processes]
      /\ copier \in [Processes -> [next : 1 .. Len(DictFiles) + Len(ModelFiles) + 1, open : BOOLEAN]]
  BY Zenon DEF StorageTypeOK
<1>1. ASSUME NEW p \in Processes, OpenFile(p)
      PROVE  WriterInv'
  <2>1. /\ File(p) \in Files /\ ~copier[p].open /\ faults' = faults
        /\ disk' = [disk EXCEPT ![File(p)] = "partial"] /\ owner' = [owner EXCEPT ![File(p)] = p]
    BY <1>1, FileInList, Zenon DEF OpenFile
  <2>2. /\ copier'[p].next = copier[p].next /\ copier'[p].open
        /\ \A q \in Processes : q # p => copier'[q] = copier[q]
    BY <1>0, <1>1 DEF OpenFile
  <2>3. \A q \in Processes : File(q)' = File(q)
    BY <2>2, Zenon DEF File
  <2> SUFFICES ASSUME faults = 0, NEW f \in Files, disk'[f] = "partial"
               PROVE  copier'[owner'[f]].open /\ (File(owner[f]) = f)'
    BY <2>1, Zenon DEF WriterInv
  <2>4. CASE f = File(p)
    <3>1. owner'[f] = p
      BY <1>0, <2>1, <2>4, Zenon
    <3> QED BY <2>2, <2>3, <2>4, <3>1, Zenon DEF File
  <2>5. CASE f # File(p)
    <3>1. disk[f] = "partial" /\ owner'[f] = owner[f]
      BY <1>0, <2>1, <2>5, Zenon
    <3>2. copier[owner[f]].open /\ File(owner[f]) = f /\ owner[f] \in Processes
      BY <1>0, <3>1, Zenon DEF WriterInv
    <3>3. owner[f] # p
      BY <2>1, <3>2, Zenon
    <3>4. copier'[owner'[f]] = copier[owner[f]]
      BY <2>2, <3>1, <3>2, <3>3, Zenon
    <3> QED BY <3>1, <3>2, <3>4, Zenon DEF File
  <2> QED BY <2>4, <2>5, Zenon
<1>2. ASSUME NEW p \in Processes, CloseFile(p)
      PROVE  WriterInv'
  <2>1. /\ File(p) \in Files /\ faults' = faults /\ owner' = owner
        /\ disk' = IF owner[File(p)] = p THEN [disk EXCEPT ![File(p)] = "whole"] ELSE disk
    BY <1>2, FileInList, Zenon DEF CloseFile
  <2>2. \A q \in Processes : q # p => copier'[q] = copier[q] /\ File(q)' = File(q)
    BY <1>0, <1>2, Zenon DEF CloseFile, Closed, File
  <2> SUFFICES ASSUME faults = 0, NEW f \in Files, disk'[f] = "partial"
               PROVE  copier'[owner'[f]].open /\ (File(owner[f]) = f)'
    BY <2>1, Zenon DEF WriterInv
  <2>3. disk[f] = "partial" /\ ~(f = File(p) /\ owner[f] = p)
    BY <1>0, <2>1, Zenon
  <2>4. copier[owner[f]].open /\ File(owner[f]) = f /\ owner[f] \in Processes
    BY <1>0, <2>3, Zenon DEF WriterInv
  <2>5. owner[f] # p
    BY <2>3, <2>4, Zenon
  <2> QED BY <2>1, <2>2, <2>4, <2>5, Zenon DEF File
<1>3. ASSUME faults' > 0
      PROVE  WriterInv'
  BY <1>3 DEF WriterInv
<1>4. ASSUME NEW p \in Processes, CopyFails(p)
      PROVE  WriterInv'
  BY <1>3, <1>4 DEF CopyFails, StorageTypeOK
<1>5. ASSUME NEW o \in InitOutcomes, InitEngine(o)
      PROVE  WriterInv'
  <2>1. CASE o = "abort"
    <3>1. UI \in upset
      BY <1>5, <2>1, WholeOutcome DEF InitEngine
    <3> QED BY <1>3, <1>5, <3>1 DEF InitEngine, EngineInv
  <2>2. CASE o # "abort"
    BY Zenon, <1>5, <2>2 DEF InitEngine, WriterInv, File, diskVars
  <2> QED BY <2>1, <2>2
<1>6. ASSUME NEW p \in Processes, ~copier[p].open, copier' = [copier EXCEPT ![p] = AtFirst],
             UNCHANGED <<disk, owner, faults>>
      PROVE  WriterInv'
  BY <1>6 DEF WriterInv, File, StorageTypeOK
<1>7. ASSUME Recreate
      PROVE  WriterInv'
  BY Zenon, <1>6, <1>7 DEF Recreate, StorageTypeOK, Copying, Processes
<1>8. ASSUME NEW w \in Workers, NEW f \in {"AM", "VOC"}, Load(w, f)
      PROVE  WriterInv'
  <2>1. ModelsCopied(w) /\ w # UI /\ w \in Processes
    BY <1>8, Zenon DEF Load, Processes
  <2>2. ~Copying(w)
    <3>1. Len(ModelFiles) \in Nat /\ copier[w].next \in Nat
      BY <2>1, FileFacts DEF StorageTypeOK
    <3> QED BY <2>1, <3>1 DEF ModelsCopied, Copying, Source
  <2>3. ~copier[w].open
    BY <2>1, <2>2, Zenon DEF StorageTypeOK
  <2> QED BY ZenonT(40), <1>6, <1>8, <2>1, <2>3 DEF Load
<1>9. ASSUME NEW w \in Workers, BeginLoad(w)
      PROVE  WriterInv'
  <2>1. ~copier[w].open
    BY <1>9 DEF BeginLoad, BeginInit, Go, StorageTypeOK, Copying, LoadPlaces, Processes
  <2> QED BY Zenon, <1>6, <1>9, <2>1 DEF BeginLoad, Processes
<1>10. ASSUME UNCHANGED <<disk, owner, copier, faults>>
       PROVE  WriterInv'
  BY <1>10 DEF WriterInv, File
<1>11. ASSUME Launch \/ Destroy \/ Speak
       PROVE  WriterInv'
  BY <1>10, <1>11 DEF Launch, Destroy, Speak, diskVars
<1>12. ASSUME getPhoneIds \/ Killed
       PROVE  WriterInv'
  BY <1>3, <1>10, <1>12 DEF getPhoneIds, Killed, EngineInv, diskVars, StorageTypeOK
<1>13. ASSUME UNCHANGED storageVars
       PROVE  WriterInv'
  BY <1>10, <1>13 DEF storageVars, diskVars
<1> QED
  BY ZenonT(40), <1>1, <1>2, <1>4, <1>5, <1>7, <1>8, <1>9, <1>11, <1>12, <1>13
  DEF Next, UIStep, WorkerStep, vars, Processes

\* A worker that met no fault and no other worker gives whole files to the model.
LEMMA WholeModels ==
  ASSUME PredictorTypeOK, StorageTypeOK, CopyInv,
         NEW w \in Workers, ppc[w] \in LoadPlaces, job[w].config \in Assets, ModelsCopied(w),
         w \notin upset \cup together, NEW f \in {"AM", "VOC"}
  PROVE  disk[f] = "whole"
<1> USE PredictorAssumption, StorageAssumption, FileFacts
<1>1. w \in Processes /\ w # UI /\ Source(w) = ModelFiles
  BY SMTT(30) DEF Processes, Source
<1>2. ~copier[w].open /\ copier[w].next > Len(ModelFiles)
  BY SMTT(30), <1>1 DEF ModelsCopied, StorageTypeOK, Copying
<1>3. \A n \in 1 .. Len(ModelFiles) : disk[ModelFiles[n]] = "whole"
  BY SMTT(30), <1>1, <1>2 DEF CopyInv, Copied, InLoop, StorageTypeOK
<1> QED BY <1>3

LEMMA ModelsStep ==
  ASSUME PredictorTypeOK, StorageTypeOK, CopyInv, ModelsAreWhole, [Next]_vars
  PROVE  ModelsAreWhole'
<1> USE PredictorAssumption DEF ModelsAreWhole
<1>1. ASSUME NEW w \in Workers, NEW f \in {"AM", "VOC"}, Load(w, f)
      PROVE  ModelsAreWhole'
  <2>1. ppc[w] \in LoadPlaces
    BY <1>1 DEF Load, LoadAM, LoadVOC, Go, LoadPlaces
  <2>2. readAs'[f].file # "partial" \/ readAs'[f].excused
    BY ZenonT(40), <1>1, <2>1, WholeModels, StorageAssumption DEF Load, StorageTypeOK
  <2>3. \A g \in {"AM", "VOC"} : g # f => readAs'[g] = readAs[g]
    BY Zenon, <1>1, StorageAssumption DEF Load, StorageTypeOK
  <2> QED BY <1>1, <2>2, <2>3 DEF Load, LoadAM, LoadVOC
<1>2. ASSUME UNCHANGED readAs, AMPredictor' \in {AMPredictor, NoModel},
             VOCPredictor' \in {VOCPredictor, NoModel}
      PROVE  ModelsAreWhole'
  BY <1>2
<1>3. ASSUME NEW p \in Processes, OpenFile(p) \/ CloseFile(p) \/ CopyFails(p)
      PROVE  ModelsAreWhole'
  BY Zenon, <1>2, <1>3 DEF OpenFile, CloseFile, CopyFails, predictorVars
<1>4. ASSUME NEW o \in InitOutcomes, InitEngine(o)
      PROVE  ModelsAreWhole'
  BY Zenon, <1>2, <1>4 DEF InitEngine, Die, Forget, predictorVars
<1>5. ASSUME Recreate \/ Launch \/ Destroy \/ Speak \/ getPhoneIds \/ Killed
      PROVE  ModelsAreWhole'
  BY Zenon, <1>2, <1>5 DEF Recreate, Launch, Destroy, BeginRelease, Speak, getPhoneIds, Killed, Die, Forget,
                    predictorVars
<1>6. ASSUME NEW p \in Processes, Release(p), UNCHANGED storageVars
      PROVE  ModelsAreWhole'
  BY Zenon, <1>2, <1>6 DEF Release, ClearAM, ClearVOC, ClearFlag, ClearSpeaker, storageVars
<1>7. ASSUME NEW w \in Workers, SetSpeaker(w) \/ SetLoaded(w), UNCHANGED storageVars
      PROVE  ModelsAreWhole'
  BY Zenon, <1>2, <1>7 DEF SetSpeaker, SetLoaded, storageVars
<1>8. ASSUME NEW w \in Workers, BeginLoad(w)
      PROVE  ModelsAreWhole'
  BY Zenon, <1>2, <1>8 DEF BeginLoad, BeginInit
<1>9. ASSUME UNCHANGED vars
      PROVE  ModelsAreWhole'
  BY Zenon, <1>2, <1>9 DEF vars, predictorVars, storageVars
<1> QED
  BY Zenon, <1>1, <1>3, <1>4, <1>5, <1>6, <1>7, <1>8, <1>9 DEF Next, UIStep, WorkerStep, Processes

-----------------------------------------------------------------------------
(* The theorems. *)

LEMMA StorageInvInit == Init => StorageInv
<1> USE PredictorAssumption, StorageAssumption, FileFacts
<1> SUFFICES ASSUME Init PROVE StorageInv
  OBVIOUS
<1>1. PredictorTypeOK
  BY PredictorInitType DEF Init
<1>2. \A p \in Processes : ppc[p] = "idle" /\ copier[p] = AtFirst /\ ~copier[p].open
  BY DEF Init, PredictorInit, AtFirst
<1>3. session \in BOOLEAN
  BY Zenon DEF Init
<1>4. AtFirst \in [next : 1 .. Len(DictFiles) + Len(ModelFiles) + 1, open : BOOLEAN]
  BY DEF AtFirst
<1>5. front_inst \in [made : {"none", "null", "short", "whole", "abort"}, upset : BOOLEAN]
  BY DEF Init, NoEngine
<1>6. readAs \in [Range(ModelFiles) -> [file : {"absent", "partial", "whole", "own"}, excused : BOOLEAN]]
  BY SMTT(30) DEF Init
<1>7. StorageTypeOK
  BY SMTT(20), <1>2, <1>3, <1>4, <1>5, <1>6 DEF Init, StorageTypeOK, Processes
<1>8. CopyInv /\ TogetherInv
  BY ZenonT(40), <1>2 DEF Init, CopyInv, InLoop, TogetherInv, LoadPlaces, Processes
<1>9. StartInv /\ EngineInv /\ WriterInv
  BY <1>2 DEF Init, StartInv, EngineInv, WriterInv, NoEngine, Processes
<1>10. EngineRecovers /\ NativeDeathNeedsFault /\ ModelsAreWhole
  BY DEF Init, PredictorInit, EngineRecovers, NativeDeathNeedsFault, ModelsAreWhole
<1> QED BY <1>1, <1>7, <1>8, <1>9, <1>10 DEF StorageInv

\* The invariant behind the theorems below holds however copying, loading, rotation,
\* failing writes and killed processes interleave.
THEOREM StorageInvariant == Spec => []StorageInv
<1>1. StorageInv /\ [Next]_vars => StorageInv'
  BY PredictorTypeInStorage, StorageTypeInStorage, CopyStep, TogetherStep, StartStep, EngineStep,
     WriterStep, ModelsStep
  DEF StorageInv
<1> QED BY <1>1, StorageInvInit, PTL DEF Spec

\* Files, copying loops and the engine stay in their ranges.
THEOREM StorageTypeCorrect == Spec => [](PredictorTypeOK /\ StorageTypeOK)
  BY StorageInvariant, PTL DEF StorageInv

\* MainActivity.onCreate: whatever an earlier process left on the disk, an onCreate
\* that meets no fault ends with an engine of whole dictionaries.
THEOREM EngineAlwaysRecovers == Spec => []EngineRecovers
  BY StorageInvariant, PTL DEF StorageInv

\* fonttextclient.cc: the process dies in native code only after a failed copy.
THEOREM NativeDeathOnlyByFault == Spec => []NativeDeathNeedsFault
  BY StorageInvariant, PTL DEF StorageInv

\* Predictor.loadModel: cut model files are used only after a fault in copying them or
\* beside another loading worker.
THEOREM ModelsAlwaysWhole == Spec => []ModelsAreWhole
  BY StorageInvariant, PTL DEF StorageInv

\* Utils.copyDirectoryFromAssets, AssetCopyer.copy: without faults, any number of
\* threads that copy the same files leave whole files once all are done.
THEOREM ConcurrentCopiesEndWhole == Spec => []CopiesEndWhole
<1>1. StorageInv => CopiesEndWhole
  BY DEF StorageInv, WriterInv, CopiesEndWhole, StorageTypeOK
<1> QED BY <1>1, StorageInvariant, PTL
=============================================================================
