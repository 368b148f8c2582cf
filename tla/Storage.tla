------------------------------ MODULE Storage ------------------------------
(***************************************************************************)
(* The files of the app and what is built from them.  onCreate copies the  *)
(* dictionaries from the assets on the UI thread (AssetCopyer) and builds  *)
(* the front engine of them (CalcMac.init, Native_Jni); a worker copies    *)
(* the models before it loads each of them (Predictor.loadModel, Utils).   *)
(* Files outlive the process; a copy or the process may fail at any step.  *)
(***************************************************************************)
EXTENDS Predictor, Sequences, Functions

CONSTANTS
  DictFiles,    \* the files of assets/dict, in the order of AssetManager.list
  ModelFiles,   \* the files of the model directory, likewise
  Assets,       \* the Configs whose path is in the assets and not absolute
  MaxCreates,   \* bound: calls of onCreate
  MaxFaults     \* bound: failed copies and killed processes

ASSUME StorageAssumption ==
  /\ Workers # {}
  /\ DictFiles \in Seq({"conf", "jieba", "g2p", "table"}) /\ "conf" \in Range(DictFiles)
  /\ ModelFiles \in Seq({"AM", "VOC"}) /\ Range(ModelFiles) = {"AM", "VOC"}
  /\ Assets \subseteq Configs
  /\ MaxCreates \in Nat /\ MaxFaults \in Nat

VARIABLES
  disk,         \* each file: absent, partial (opened for writing) or whole
  owner,        \* the thread that truncated a file last: only its bytes make it whole
  upc,          \* the UI thread: off (no process), copy, up, destroy
  copier,       \* each thread in its copying loop: the next file, and whether it is open
  current,      \* the worker of the activity in front
  session,      \* whether a session thread is alive that may call getPhoneIds
  front_inst,   \* the engine: none, null, short (files were missing data) or whole
  readAs,       \* each model file as createPaddlePredictor last found it, and whether
                \* the reader had met a fault or another worker
  died,         \* why the process ended: no, killed, abort, segv
  upset,        \* history: threads that met a fault since they began to copy
  together,     \* history: workers that loaded at the same time as another one
  creates, faults

diskVars == <<disk, owner, copier>>
storageVars == <<diskVars, upc, current, session, front_inst, readAs, died, upset, together,
                 creates, faults>>
vars == <<predictorVars, storageVars>>

Files == Range(DictFiles) \cup Range(ModelFiles)

Source(p) == IF p = UI THEN DictFiles ELSE ModelFiles

AtFirst == [next |-> 1, open |-> FALSE]

NoEngine == [made |-> "none", upset |-> FALSE]

Init ==
  /\ PredictorInit
  /\ disk = [f \in Files |-> "absent"]
  /\ owner = [f \in Files |-> UI]
  /\ upc = "off" /\ session = FALSE
  /\ current = CHOOSE w \in Workers : TRUE
  /\ copier = [p \in Processes |-> AtFirst]
  /\ front_inst = NoEngine
  /\ readAs = [f \in Range(ModelFiles) |-> [file |-> "absent", excused |-> FALSE]]
  /\ died = "no" /\ upset = {} /\ together = {} /\ creates = 0 /\ faults = 0

-----------------------------------------------------------------------------
(* One turn of the copying loops.  FileOutputStream truncates the file.    *)

LoadPlaces == {"loadAM", "loadVOC"}

Copying(p) ==
  /\ copier[p].next <= Len(Source(p))
  /\ IF p = UI THEN upc = "copy" ELSE ppc[p] \in LoadPlaces /\ job[p].config \in Assets

ModelsCopied(w) == job[w].config \notin Assets \/ copier[w].next > Len(ModelFiles)

File(p) == Source(p)[copier[p].next]

\* mutant: the stream is not closed
StillOpen(p, next) == [copier EXCEPT ![p].next = next]

Closed(p, next) == [copier EXCEPT ![p] = [next |-> next, open |-> FALSE]]

\* mutant: a file that is there already is left as it is
OpenMissingFile(p) ==
  /\ Copying(p) /\ ~copier[p].open
  /\ IF disk[File(p)] = "absent"
     THEN /\ disk' = [disk EXCEPT ![File(p)] = "partial"]
          /\ owner' = [owner EXCEPT ![File(p)] = p]
          /\ copier' = [copier EXCEPT ![p] = [next |-> @.next, open |-> TRUE]]
     ELSE /\ copier' = Closed(p, copier[p].next + 1)
          /\ UNCHANGED <<disk, owner>>
  /\ UNCHANGED <<predictorVars, upc, current, session, front_inst, readAs, died, upset,
                 together, creates, faults>>

\* mutant: a model that is there already is left as it is
OpenMissingModel(p) ==
  /\ Copying(p) /\ ~copier[p].open
  /\ IF disk[File(p)] = "absent" \/ p = UI
     THEN /\ disk' = [disk EXCEPT ![File(p)] = "partial"]
          /\ owner' = [owner EXCEPT ![File(p)] = p]
          /\ copier' = [copier EXCEPT ![p] = [next |-> @.next, open |-> TRUE]]
     ELSE /\ copier' = Closed(p, copier[p].next + 1)
          /\ UNCHANGED <<disk, owner>>
  /\ UNCHANGED <<predictorVars, upc, current, session, front_inst, readAs, died, upset,
                 together, creates, faults>>

OpenFile(p) ==
  /\ Copying(p) /\ ~copier[p].open
  /\ disk' = [disk EXCEPT ![File(p)] = "partial"]
  /\ owner' = [owner EXCEPT ![File(p)] = p]
  /\ copier' = [copier EXCEPT ![p] = [next |-> @.next, open |-> TRUE]]
  /\ UNCHANGED <<predictorVars, upc, current, session, front_inst, readAs, died, upset,
                 together, creates, faults>>

\* mutant: the buffer is not written out
CloseUnflushed(p) ==
  /\ Copying(p) /\ copier[p].open
  /\ copier' = Closed(p, copier[p].next + 1)
  /\ UNCHANGED <<predictorVars, disk, owner, upc, current, session, front_inst, readAs, died,
                 upset, together, creates, faults>>

\* mutant: the loop does not move on
CloseAndRepeat(p) ==
  /\ Copying(p) /\ copier[p].open
  /\ disk' = IF owner[File(p)] = p THEN [disk EXCEPT ![File(p)] = "whole"] ELSE disk
  /\ copier' = Closed(p, copier[p].next)
  /\ UNCHANGED <<predictorVars, owner, upc, current, session, front_inst, readAs, died, upset,
                 together, creates, faults>>

CloseFile(p) ==
  /\ Copying(p) /\ copier[p].open
  /\ disk' = IF owner[File(p)] = p THEN [disk EXCEPT ![File(p)] = "whole"] ELSE disk
  /\ copier' = Closed(p, copier[p].next + 1)
  /\ UNCHANGED <<predictorVars, owner, upc, current, session, front_inst, readAs, died, upset,
                 together, creates, faults>>

\* An exception.  AssetCopyer catches it for one file and goes on.  In Utils a
\* failed open leaves os null, and the finally block throws out of the loop.
CopyFails(p) ==
  /\ Copying(p)
  /\ faults < MaxFaults
  /\ faults' = faults + 1
  /\ upset' = upset \cup {p}
  /\ copier' = Closed(p, IF p = UI \/ copier[p].open THEN copier[p].next + 1
                                                      ELSE Len(Source(p)) + 1)
  /\ UNCHANGED <<predictorVars, disk, owner, upc, current, session, front_inst, readAs, died,
                 together, creates>>

-----------------------------------------------------------------------------
(* The process. *)

\* The memory of a process that has ended; loads goes on counting.
Forget ==
  /\ AMPredictor' = NoModel /\ VOCPredictor' = NoModel /\ isLoaded' = FALSE
  /\ speakId' = DefaultSpeaker
  /\ ppc' = [p \in Processes |-> "idle"]
  /\ job' = [w \in Workers |-> NoJob]
  /\ upc' = "off" /\ session' = FALSE
  /\ copier' = [p \in Processes |-> AtFirst]
  /\ together' = {}
  /\ UNCHANGED <<loads, disk, owner, current, readAs, upset, creates>>

Die(why) == Forget /\ died' = why

Killed ==
  /\ upc # "off"
  /\ faults < MaxFaults
  /\ faults' = faults + 1
  /\ Die("killed")
  /\ front_inst' = NoEngine

\* onCreate of the first activity of a process.
Launch ==
  /\ upc = "off"
  /\ creates < MaxCreates
  /\ creates' = creates + 1
  /\ upc' = "copy"
  /\ died' = "no"
  /\ upset' = {}
  /\ front_inst' = NoEngine
  /\ UNCHANGED <<predictorVars, diskVars, current, session, readAs, together, faults>>

\* The activity is destroyed and created again, with a new worker (which may have
\* the name of one that is idle): onDestroy releases the models, onCreate copies and
\* builds once more.
Destroy ==
  /\ upc = "up"
  /\ creates < MaxCreates
  /\ creates' = creates + 1
  /\ BeginRelease
  /\ upc' = "destroy"
  /\ UNCHANGED <<diskVars, current, session, front_inst, readAs, died, upset, together, faults>>

\* mutant: the engine is deleted before the files are copied
RecreateWithoutEngine ==
  /\ upc = "destroy"
  /\ ppc[UI] = "idle"
  /\ upc' = "copy"
  /\ current' \in {w \in Workers : ppc[w] = "idle"} /\ (ppc[current] = "idle" => UNCHANGED current)
  /\ copier' = [copier EXCEPT ![UI] = AtFirst]
  /\ upset' = upset \ {UI}
  /\ front_inst' = [front_inst EXCEPT !.made = "null"]
  /\ UNCHANGED <<predictorVars, disk, owner, session, readAs, died, together, creates, faults>>

Recreate ==
  /\ upc = "destroy"
  /\ ppc[UI] = "idle"
  /\ upc' = "copy"
  /\ current' \in {w \in Workers : ppc[w] = "idle"} /\ (ppc[current] = "idle" => UNCHANGED current)
  /\ copier' = [copier EXCEPT ![UI] = AtFirst]
  /\ upset' = upset \ {UI}
  /\ UNCHANGED <<predictorVars, disk, owner, session, front_inst, readAs, died, together,
                 creates, faults>>

-----------------------------------------------------------------------------
(* CalcMac. *)

\* What FrontEngineInterface.init makes of the files: a missing configuration or
\* table fails; jieba and the interpreters of G2pEModel do not survive a missing
\* file and may not survive a cut one; data that is only missing goes unnoticed.
Tables == Range(DictFiles) \ {"conf", "jieba", "g2p"}

InitOutcomes ==
  LET state(F) == {disk[f] : f \in F}
      fragile == {"jieba", "g2p"} \cap Range(DictFiles)
  IN  IF disk["conf"] = "absent" THEN {"null"}
      ELSE (IF state(fragile \cup {"conf"}) = {"whole"} THEN {} ELSE {"abort"}) \cup
           (IF "absent" \in state(fragile) THEN {}
            ELSE (IF "absent" \in state(Tables) \/ disk["conf"] = "partial" THEN {"null"} ELSE {})
                 \cup (IF "absent" \in state(Tables) THEN {}
                       ELSE {IF state(Range(DictFiles)) = {"whole"} THEN "whole" ELSE "short"}))

\* Native_Jni: an engine that failed twice is deleted.  What the one before it
\* was does not matter: the pointer is replaced.
Native_Jni(o) == [made |-> o, upset |-> UI \in upset]

InitEngine(o) ==
  /\ upc = "copy" /\ ~Copying(UI)
  /\ front_inst' = Native_Jni(o)
  /\ UNCHANGED faults
  /\ IF o = "abort"
     THEN Die("abort")
     ELSE /\ upc' = "up"
          /\ UNCHANGED <<predictorVars, diskVars, current, session, readAs, died, upset,
                         together, creates>>

\* The play button starts a session; it outlives the activity.
Speak ==
  /\ upc = "up"
  /\ session' = TRUE
  /\ UNCHANGED <<predictorVars, diskVars, upc, current, front_inst, readAs, died, upset,
                 together, creates, faults>>

\* getPhoneIds dereferences the engine unchecked.
getPhoneIds ==
  /\ session
  /\ IF front_inst.made = "null"
     THEN /\ Die("segv")
          /\ UNCHANGED <<front_inst, faults>>
     ELSE /\ session' = FALSE
          /\ UNCHANGED <<predictorVars, diskVars, upc, current, front_inst, readAs, died, upset,
                         together, creates, faults>>

-----------------------------------------------------------------------------
(* Predictor.init on a worker, with the copying that loadModel begins with. *)

BeginLoad(w) ==
  /\ upc = "up" /\ w = current
  /\ \E c \in Configs, s \in Speakers : BeginInit(w, c, s)
  /\ LET others == {v \in Workers \ {w} : ppc[v] # "idle"}
     IN  together' = IF others = {} THEN together \ {w} ELSE together \cup others \cup {w}
  /\ copier' = [copier EXCEPT ![w] = AtFirst]
  /\ upset' = upset \ {w}
  /\ UNCHANGED <<disk, owner, upc, current, session, front_inst, readAs, died, creates, faults>>

\* createPaddlePredictor makes nothing of a file that is not there.
Load(w, f) ==
  /\ ModelsCopied(w)
  /\ \E m \in IF job[w].config \in Assets /\ disk[f] = "absent" THEN {NoModel}
              ELSE loadModel(job[w]) :
       IF f = "AM" THEN LoadAM(w, m) ELSE LoadVOC(w, m)
  /\ readAs' = [readAs EXCEPT ![f] = [file    |-> IF job[w].config \in Assets THEN disk[f] ELSE "own",
                                      excused |-> w \in upset \cup together]]
  /\ copier' = [copier EXCEPT ![w] = AtFirst]
  /\ UNCHANGED <<disk, owner, upc, current, session, front_inst, died, upset, together,
                 creates, faults>>

WorkerStep(w) ==
  \/ OpenFile(w) \/ CloseFile(w)
  \/ Load(w, "AM") \/ Load(w, "VOC")
  \/ (Release(w) \/ SetSpeaker(w) \/ SetLoaded(w)) /\ UNCHANGED storageVars

UIStep ==
  \/ OpenFile(UI) \/ CloseFile(UI)
  \/ \E o \in InitOutcomes : InitEngine(o)
  \/ Recreate
  \/ Release(UI) /\ UNCHANGED storageVars

Next ==
  \/ UIStep \/ getPhoneIds
  \/ \E w \in Workers : WorkerStep(w) \/ BeginLoad(w)
  \/ \E p \in Processes : CopyFails(p)
  \/ Killed \/ Launch \/ Destroy \/ Speak

Spec == Init /\ [][Next]_vars

\* The threads of the process run; nothing is assumed of user and system.
FairSpec == Spec /\ WF_vars(UIStep) /\ \A w \in Workers : WF_vars(WorkerStep(w))

-----------------------------------------------------------------------------
(* Type invariant: files, copying loops and the engine stay in their       *)
(* ranges, and a file is open only inside a copying loop.                  *)
StorageTypeOK ==
  /\ disk \in [Files -> {"absent", "partial", "whole"}]
  /\ owner \in [Files -> Processes]
  /\ upc \in {"off", "copy", "up", "destroy"}
  /\ copier \in [Processes -> [next : 1 .. Len(DictFiles) + Len(ModelFiles) + 1, open : BOOLEAN]]
  /\ \A p \in Processes : copier[p].open => Copying(p)
  /\ current \in Workers /\ session \in BOOLEAN
  /\ front_inst \in [made : {"none", "null", "short", "whole", "abort"}, upset : BOOLEAN]
  /\ readAs \in [Range(ModelFiles) -> [file : {"absent", "partial", "whole", "own"}, excused : BOOLEAN]]
  /\ died \in {"no", "killed", "abort", "segv"}
  /\ upset \subseteq Processes /\ together \subseteq Workers
  /\ creates \in 0 .. MaxCreates /\ faults \in 0 .. MaxFaults

(* MainActivity.onCreate copies everything again each time: whatever an    *)
(* earlier process left on the disk when it died, an onCreate that meets   *)
(* no fault of its own ends with an engine of whole dictionaries.          *)
EngineRecovers ==
  upc = "up" /\ UI \notin upset => front_inst.made = "whole"

(* fonttextclient.cc: getPhoneIds meets a null engine, and init aborts in  *)
(* jieba or G2pEModel, only if a copy failed before that init.             *)
NativeDeathNeedsFault == died \in {"abort", "segv"} => front_inst.upset

(* Predictor.loadModel: a model is made of a file that is cut short only   *)
(* after a fault in copying it, or if another worker loaded meanwhile.     *)
ModelsAreWhole ==
  /\ AMPredictor # NoModel => readAs["AM"].file # "partial" \/ readAs["AM"].excused
  /\ VOCPredictor # NoModel => readAs["VOC"].file # "partial" \/ readAs["VOC"].excused

(* Two workers that copy the same files at once, without faults, leave     *)
(* whole files when both are done.                                         *)
CopiesEndWhole ==
  faults = 0 /\ (\A p \in Processes : ~Copying(p)) => \A f \in Files : disk[f] # "partial"

(* onCreate and every load come to an end, or the process does.            *)
StartsAndLoadsEnd ==
  /\ upc = "copy" ~> upc \in {"up", "off"}
  /\ \A w \in Workers : ppc[w] # "idle" ~> ppc[w] = "idle"
=============================================================================
