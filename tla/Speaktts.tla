------------------------------ MODULE Speaktts ------------------------------
(***************************************************************************)
(* Speaktts: the speech player.  SpeakText starts one Java thread per      *)
(* call (a session).  The thread cleans and splits the text, and for each  *)
(* segment asks the front end for phone ids, runs the two models of the    *)
(* Predictor, scales the wave to 16 bits and writes it to an AudioTrack.   *)
(* pauseAudioTrack, StopAudioTrack and onDestroy are called by the UI      *)
(* thread meanwhile.                                                       *)
(*                                                                         *)
(* content, audioTrack, audioData, singlewav, maxwav and speakId are       *)
(* static or belong to the static predictor: all sessions share them.      *)
(* A statement that reads one of them and assigns one of them is two       *)
(* steps, with the value read kept in the locals "my" of the session.      *)
(***************************************************************************)
EXTENDS Predictor, Sequences, FiniteSets

CONSTANTS
  Threads,     \* sessions: calls of SpeakText, each with its thread and its track
  NoThread,    \* null
  Texts,       \* the texts a caller may ask to speak, sequences of Items
  Items,       \* the characters of a text, up to what splitting tells apart
  charSplit,   \* the separators that are replaced by a comma, in their order
  Comma,       \* the full-width comma
  Newline,     \* \n or \r
  Blank,       \* white space
  Phone,       \* phone id the front end gives an item, 0 for none
  Sil,         \* phone id 277
  Noise,       \* what the models yield when two sessions race inside them
  Loud,        \* amplitude of the sample a phone becomes
  InitialMax,  \* initial maxwav
  BufferSize,  \* chunks a track holds before write blocks
  Client       \* the liberties the caller of this instance takes

\* "overlap": SpeakText while a session runs; "pause", "stop": calls of
\* pauseAudioTrack, StopAudioTrack; "reload": SpeakText before the models are loaded,
\* init and onDestroy while a session runs.
Liberties == {"overlap", "pause", "stop", "reload"}

Phones == {Phone[x] : x \in Items} \cup {Sil, Noise}

ASSUME SpeakttsAssumption ==
  /\ NoThread \notin Threads
  /\ Texts \subseteq Seq(Items)
  /\ {Comma, Newline, Blank} \subseteq Items /\ Comma # Newline
  /\ charSplit \in Seq(Items)
  /\ Phone \in [Items -> Nat]
  /\ Sil \in Nat \ {0}
  /\ Noise \in Nat \ {0}
  /\ Loud \in [Phones -> Nat]
  /\ InitialMax \in Nat
  /\ BufferSize \in Nat \ {0}
  /\ Client \subseteq Liberties

VARIABLES
  content, audioTrack, audioData, message,  \* statics of Speaktts
  thread, interrupted,                      \* the latest thread; the interrupt flags
  singlewav, maxwav, obj,                   \* fields of Predictor; obj is the monitor
  amOutput, vocInput,                       \* tensors inside the native models
  pc, my,                                   \* the session threads and their locals
  trackState, queue,                        \* the AudioTrack objects
  uipc,                                     \* the UI thread inside pauseAudioTrack
  crash,                                    \* the uncaught exception that ended the process
  asked, spoken, heard,                     \* history: calls, writes, sound
  overlapped, disturbed, silenced           \* history: sessions that met another one or
                                            \* a model (un)load; tracks the user cut

callVars  == <<thread, interrupted, asked, overlapped, disturbed, uipc>>
modelVars == <<singlewav, maxwav, obj, amOutput, vocInput>>
trackVars == <<audioTrack, trackState, queue, heard, silenced>>
outVars   == <<audioData, spoken, message>>
shared    == <<predictorVars, callVars, modelVars, trackVars, outVars, content>>
vars == <<shared, pc, my, crash>>

-----------------------------------------------------------------------------
(* What the thread does to a text. *)

\* The elements of s at the positions in P, in their order.
Elements(s, P) ==
  [k \in 1 .. Cardinality(P) |-> s[CHOOSE n \in P : Cardinality({m \in P : m <= n}) = k]]

StripNewlines(c) == Elements(c, {n \in DOMAIN c : c[n] # Newline})

KeepSeparators(c, x) == c

ReplaceBy(c, x) == [n \in DOMAIN c |-> IF c[n] = x THEN Comma ELSE c[n]]

\* content.split(comma); the empty pieces it drops or keeps are skipped later anyway.
SplitAtCommas(c) ==
  LET commas == {n \in DOMAIN c : c[n] = Comma}
      before(n) == Cardinality({m \in commas : m < n})
  IN  [k \in 1 .. Cardinality(commas) + 1 |->
         Elements(c, {n \in DOMAIN c \ commas : before(n) = k - 1})]

Trim(s) ==
  LET ink == {n \in DOMAIN s : s[n] \notin {Blank, Newline}}
  IN  Elements(s, {n \in DOMAIN s : \E j, k \in ink : j <= n /\ n <= k})

\* CalcMac.getPhoneIds followed by the loop that fills ft: a silence for an
\* answer without ids, and one more silence at the end.
ft(str) ==
  LET codes == [n \in DOMAIN str |-> Phone[str[n]]]
      ids == Elements(codes, {n \in DOMAIN str : codes[n] # 0})
  IN  (IF ids = <<>> THEN <<Sil>> ELSE ids) \o <<Sil>>

Wave(phones, voice) == [phones |-> phones, voice |-> voice]
NoWave == Wave(<<>>, DefaultSpeaker)
NoiseWave == Wave(<<Noise>>, DefaultSpeaker)
ChunkFromSecondSample(w, scale) ==
  [phones |-> SubSeq(w.phones, 2, Len(w.phones)), voice |-> w.voice, scale |-> scale]
Chunk(w, scale) == [phones |-> w.phones, voice |-> w.voice, scale |-> scale]

NoLocals == [tmp |-> <<>>, round |-> 0, segmentText |-> <<>>, index |-> 1,
             phones |-> <<>>, voice |-> DefaultSpeaker, am |-> NoModel, voc |-> NoModel,
             shape |-> 0, sample |-> 1, value |-> 0, wav |-> NoWave,
             buf |-> Chunk(NoWave, 0), track |-> NoThread]

Init ==
  /\ PredictorInit
  /\ content = <<>> /\ audioTrack = NoThread /\ audioData = Chunk(NoWave, 0)
  /\ message = NoThread /\ thread = NoThread /\ interrupted = {}
  /\ singlewav = NoWave /\ maxwav = InitialMax /\ obj = NoThread
  /\ amOutput = [l \in 1 .. MaxLoads |-> NoWave]
  /\ vocInput = [l \in 1 .. MaxLoads |-> NoWave]
  /\ pc = [t \in Threads |-> "new"]
  /\ my = [t \in Threads |-> NoLocals]
  /\ trackState = [t \in Threads |-> "none"]
  /\ queue = [t \in Threads |-> <<>>]
  /\ uipc = "idle" /\ crash = "none"
  /\ asked = [t \in Threads |-> [text |-> <<>>, voice |-> DefaultSpeaker]]
  /\ spoken = [t \in Threads |-> <<>>]
  /\ heard = [t \in Threads |-> <<>>]
  /\ overlapped = {} /\ disturbed = {} /\ silenced = {}

Live == {t \in Threads : pc[t] \notin {"new", "done"}}

Quiet == IsLoaded /\ \A p \in Processes : ppc[p] = "idle"

UIFree == crash = "none" /\ uipc = "idle" /\ ppc[UI] = "idle"

-----------------------------------------------------------------------------
(* Calls by the UI thread. *)

SpeakText(t, text, voice) ==
  /\ UIFree
  /\ pc[t] = "new"
  /\ "overlap" \in Client \/ Live = {}
  /\ "reload" \in Client \/ Quiet
  /\ content' = text
  /\ speakId' = voice
  /\ thread' = t
  /\ pc' = [pc EXCEPT ![t] = "read"]
  /\ asked' = [asked EXCEPT ![t] = [text |-> text, voice |-> voice]]
  /\ overlapped' = overlapped \cup (IF Live = {} THEN {} ELSE Live \cup {t})
  /\ disturbed' = disturbed \cup (IF Quiet THEN {} ELSE {t})
  /\ UNCHANGED <<AMPredictor, VOCPredictor, isLoaded, ppc, job, loads, interrupted, uipc,
                 modelVars, trackVars, outVars, my, crash>>

\* The interrupt only sets a flag: the session neither sleeps nor looks at it.
pauseAudioTrack ==
  /\ UIFree
  /\ "pause" \in Client
  /\ audioTrack # NoThread
  /\ interrupted' = interrupted \cup {thread}
  /\ IF trackState[audioTrack] = "released"
     THEN /\ crash' = "pause"
          /\ UNCHANGED <<trackState, silenced, uipc>>
     ELSE /\ trackState' = [trackState EXCEPT ![audioTrack] = "paused"]
          /\ silenced' = silenced \cup {audioTrack}
          /\ uipc' = "flush"
          /\ UNCHANGED crash
  /\ UNCHANGED <<predictorVars, thread, asked, overlapped, disturbed, modelVars, audioTrack,
                 queue, heard, outVars, content, pc, my>>

\* flush() is ignored by a track that is playing (again) or released.
flushAudioTrack ==
  /\ crash = "none" /\ uipc = "flush"
  /\ uipc' = "idle"
  /\ LET cut == trackState[audioTrack] \in {"stopped", "paused"}
     IN  /\ queue' = IF cut THEN [queue EXCEPT ![audioTrack] = <<>>] ELSE queue
         /\ silenced' = IF cut THEN silenced \cup {audioTrack} ELSE silenced
  /\ UNCHANGED <<predictorVars, thread, interrupted, asked, overlapped, disturbed, modelVars,
                 audioTrack, trackState, heard, outVars, content, pc, my, crash>>

StopAudioTrack ==
  /\ UIFree
  /\ "stop" \in Client
  /\ audioTrack # NoThread
  /\ interrupted' = interrupted \cup {thread}
  /\ trackState' = [trackState EXCEPT ![audioTrack] = "released"]
  /\ queue' = [queue EXCEPT ![audioTrack] = <<>>]
  /\ silenced' = silenced \cup {audioTrack}
  /\ UNCHANGED <<predictorVars, thread, asked, overlapped, disturbed, uipc, modelVars,
                 audioTrack, heard, outVars, content, pc, my, crash>>

\* Speaktts.init on a worker, Speaktts.onDestroy on the UI thread.
ModelStep ==
  /\ crash = "none"
  /\ "reload" \in Client \/ Live = {}
  /\ \/ \E w \in Workers, c \in Configs, s \in Speakers : BeginInit(w, c, s)
     \/ uipc = "idle" /\ BeginRelease
     \/ \E p \in Processes : Release(p)
     \/ \E w \in Workers : InitStep(w)
  /\ disturbed' = disturbed \cup Live
  /\ UNCHANGED <<thread, interrupted, asked, overlapped, uipc, modelVars, trackVars, outVars,
                 content, pc, my, crash>>

-----------------------------------------------------------------------------
(* The session thread.  A step that throws outside the try block ends the  *)
(* process.                                                                *)

Step(t, from, to) ==
  /\ crash = "none"
  /\ pc[t] = from
  /\ pc' = [pc EXCEPT ![t] = to]

Throw(t, from, exception, failed, to) ==
  /\ Step(t, from, IF failed THEN from ELSE to)
  /\ crash' = IF failed THEN exception ELSE "none"

ReadContent(t) ==
  /\ Step(t, "read", "replace")
  /\ my' = [my EXCEPT ![t].tmp = content]
  /\ UNCHANGED <<shared, crash>>

ReplaceContent(t) ==
  LET round == my[t].round
  IN  /\ Step(t, "replace", IF round = Len(charSplit) THEN "split" ELSE "read")
      /\ content' = IF round = 0 THEN StripNewlines(my[t].tmp)
                                 ELSE ReplaceBy(my[t].tmp, charSplit[round])
      /\ my' = [my EXCEPT ![t].round = round + 1, ![t].tmp = <<>>]
      /\ UNCHANGED <<predictorVars, callVars, modelVars, trackVars, outVars, crash>>

SplitContent(t) ==
  /\ Step(t, "split", "track")
  /\ my' = [my EXCEPT ![t].segmentText = SplitAtCommas(content)]
  /\ UNCHANGED <<shared, crash>>

\* The track of an earlier session is neither stopped nor released.
NewTrack(t) ==
  /\ Step(t, "track", "firstPlay")
  /\ audioTrack' = t
  /\ trackState' = [trackState EXCEPT ![t] = "stopped"]
  /\ UNCHANGED <<predictorVars, callVars, modelVars, queue, heard, silenced, outVars,
                 content, my, crash>>

NotPlayed(a) == trackState

Played(a) ==
  IF trackState[a] = "released" THEN trackState ELSE [trackState EXCEPT ![a] = "playing"]

FirstPlayUnready(t) ==
  /\ Throw(t, "firstPlay", "play", trackState[audioTrack] # "playing", "loop")
  /\ trackState' = Played(audioTrack)
  /\ UNCHANGED <<predictorVars, callVars, modelVars, audioTrack, queue, heard, silenced,
                 outVars, content, my>>

FirstPlay(t) ==
  /\ Throw(t, "firstPlay", "play", trackState[audioTrack] = "released", "loop")
  /\ trackState' = Played(audioTrack)
  /\ UNCHANGED <<predictorVars, callVars, modelVars, audioTrack, queue, heard, silenced,
                 outVars, content, my>>

Finish(t) ==
  /\ Step(t, "loop", "done")
  /\ my[t].index > Len(my[t].segmentText)
  /\ message' = t
  /\ UNCHANGED <<predictorVars, callVars, modelVars, trackVars, audioData, spoken, content,
                 my, crash>>

\* CalcMac.getPhoneIds is a static synchronized method: one step.
NextSegment(t) ==
  LET str == Trim(my[t].segmentText[my[t].index])
  IN  /\ my[t].index <= Len(my[t].segmentText)
      /\ Step(t, "loop", IF str = <<>> THEN "loop" ELSE "check")
      /\ my' = IF str = <<>> THEN [my EXCEPT ![t].index = @ + 1]
                             ELSE [my EXCEPT ![t].phones = ft(str)]
      /\ UNCHANGED <<shared, crash>>

\* runSegmentModel; its result is ignored, so without models the session goes
\* on with whatever singlewav holds.
CheckLoaded(t) ==
  /\ Step(t, "check", IF IsLoaded THEN "speaker" ELSE "wave")
  /\ UNCHANGED <<shared, my, crash>>

ReadSpeaker(t) ==
  /\ Step(t, "speaker", "am")
  /\ my' = [my EXCEPT ![t].voice = speakId]
  /\ UNCHANGED <<shared, crash>>

ReadAM(t) ==
  /\ Step(t, "am", "monitor")
  /\ my' = [my EXCEPT ![t].am = AMPredictor]
  /\ UNCHANGED <<shared, crash>>

\* getAMOutput enters the monitor of obj and dereferences the model.
EnterAM(t) ==
  /\ obj = NoThread
  /\ Throw(t, "monitor", "NullPointer", my[t].am = NoModel, "run")
  /\ obj' = IF my[t].am = NoModel THEN NoThread ELSE t
  /\ UNCHANGED <<predictorVars, callVars, singlewav, maxwav, amOutput, vocInput, trackVars,
                 outVars, content, my>>

\* It returns a handle on the output tensor, not a copy, and leaves the monitor.
RunAMAndStay(t) ==
  /\ Step(t, "run", "voc")
  /\ amOutput' = [amOutput EXCEPT ![my[t].am.load] = Wave(my[t].phones, my[t].voice)]
  /\ UNCHANGED <<predictorVars, callVars, singlewav, maxwav, obj, vocInput, trackVars, outVars,
                 content, my, crash>>

RunAM(t) ==
  /\ Step(t, "run", "voc")
  /\ amOutput' = [amOutput EXCEPT ![my[t].am.load] = Wave(my[t].phones, my[t].voice)]
  /\ obj' = NoThread
  /\ UNCHANGED <<predictorVars, callVars, singlewav, maxwav, vocInput, trackVars, outVars,
                 content, my, crash>>

\* getVOCOutput holds no lock: the shape and the data of the tensor are read one
\* after the other, while another session may run the same model.
ReadShape(t) ==
  /\ Throw(t, "voc", "NullPointer", VOCPredictor = NoModel, "mel")
  /\ my' = [my EXCEPT ![t].voc = VOCPredictor,
                      ![t].shape = Len(amOutput[my[t].am.load].phones)]
  /\ UNCHANGED shared

SetMel(t) ==
  LET l == my[t].am.load
      torn == \/ Len(amOutput[l].phones) # my[t].shape
              \/ obj # NoThread /\ my[obj].am.load = l
  IN  /\ Step(t, "mel", "vocoder")
      /\ vocInput' = [vocInput EXCEPT ![my[t].voc.load] = IF torn THEN NoiseWave ELSE amOutput[l]]
      /\ UNCHANGED <<predictorVars, callVars, singlewav, maxwav, obj, amOutput, trackVars,
                     outVars, content, my, crash>>

\* Two sessions inside one native vocoder: its output is either's input or noise.
RunVOC(t) ==
  LET l == my[t].voc.load
      raced == \E u \in Threads \ {t} : pc[u] = "vocoder" /\ my[u].voc.load = l
  IN  /\ Step(t, "vocoder", "scan")
      /\ singlewav' \in {vocInput[l]} \cup (IF raced THEN {NoiseWave} ELSE {})
      /\ my' = [my EXCEPT ![t].sample = 1]
      /\ UNCHANGED <<predictorVars, callVars, maxwav, obj, amOutput, vocInput, trackVars,
                     outVars, content, crash>>

\* The loop that raises maxwav reads the field singlewav afresh each time: its
\* length for the test, then the array for the sample.
ScanTooFar(t) ==
  /\ Step(t, "scan", IF my[t].sample > Len(singlewav.phones) + 1 THEN "wave" ELSE "sample")
  /\ UNCHANGED <<shared, my, crash>>

Scan(t) ==
  /\ Step(t, "scan", IF my[t].sample > Len(singlewav.phones) THEN "wave" ELSE "sample")
  /\ UNCHANGED <<shared, my, crash>>

ReadSample(t) ==
  LET outside == my[t].sample > Len(singlewav.phones)
  IN  /\ Throw(t, "sample", "ArrayIndexOutOfBounds", outside, "compare")
      /\ my' = IF outside THEN my
               ELSE [my EXCEPT ![t].value = Loud[singlewav.phones[my[t].sample]]]
      /\ UNCHANGED shared

QuieterThanMax(t) == my[t].value < maxwav

Louder(t) == my[t].value > maxwav

CompareSample(t) ==
  /\ Step(t, "compare", IF Louder(t) THEN "raise" ELSE "scan")
  /\ my' = IF Louder(t) THEN my ELSE [my EXCEPT ![t].sample = @ + 1]
  /\ UNCHANGED <<shared, crash>>

RaiseMax(t) ==
  /\ Step(t, "raise", "scan")
  /\ maxwav' = my[t].value
  /\ my' = [my EXCEPT ![t].sample = @ + 1]
  /\ UNCHANGED <<predictorVars, callVars, singlewav, obj, amOutput, vocInput, trackVars,
                 outVars, content, crash>>

\* totalLength += predictor.singlewav.length, and the first argument of segToByte.
ReadWave(t) ==
  /\ Throw(t, "wave", "NullPointer", singlewav = NoWave, "convert")
  /\ my' = [my EXCEPT ![t].wav = singlewav]
  /\ UNCHANGED shared

\* segToByte scales every sample by 32767 / maxwav: one above maxwav overflows a short.
segToByte(t) ==
  /\ Step(t, "convert", "fetch")
  /\ audioData' = Chunk(my[t].wav, maxwav)
  /\ UNCHANGED <<predictorVars, callVars, modelVars, trackVars, spoken, message, content,
                 my, crash>>

FetchAudio(t) ==
  /\ Step(t, "fetch", "write")
  /\ my' = [my EXCEPT ![t].buf = audioData, ![t].track = audioTrack]
  /\ UNCHANGED <<shared, crash>>

\* AudioTrack.write blocks while a playing track is full, comes back short when
\* the track is not playing, and with an error code when it is released.
Room(a) == trackState[a] # "released" /\ Len(queue[a]) < BufferSize

WaitsForRoom(a) == Room(a)

WriteReturns(a) == Room(a) \/ trackState[a] # "playing"

WriteAudio(t) ==
  LET a == my[t].track
  IN  /\ Step(t, "write", "play")
      /\ WriteReturns(a)
      /\ queue' = IF Room(a) THEN [queue EXCEPT ![a] = Append(@, my[t].buf)] ELSE queue
      /\ spoken' = [spoken EXCEPT ![t] = Append(@, [chunk |-> my[t].buf, to |-> a])]
      /\ UNCHANGED <<predictorVars, callVars, modelVars, audioTrack, trackState, heard,
                     silenced, audioData, message, content, my, crash>>

\* play() inside the try block: the exception of a released track is caught.
PlayAgain(t) ==
  /\ Step(t, "play", "loop")
  /\ trackState' = Played(audioTrack)
  /\ my' = [my EXCEPT ![t].index = @ + 1]
  /\ UNCHANGED <<predictorVars, callVars, modelVars, audioTrack, queue, heard, silenced,
                 outVars, content, crash>>

SessionStep(t) ==
  \/ ReadContent(t) \/ ReplaceContent(t) \/ SplitContent(t) \/ NewTrack(t) \/ FirstPlay(t)
  \/ Finish(t) \/ NextSegment(t) \/ CheckLoaded(t) \/ ReadSpeaker(t) \/ ReadAM(t)
  \/ EnterAM(t) \/ RunAM(t) \/ ReadShape(t) \/ SetMel(t) \/ RunVOC(t)
  \/ Scan(t) \/ ReadSample(t) \/ CompareSample(t) \/ RaiseMax(t)
  \/ ReadWave(t) \/ segToByte(t) \/ FetchAudio(t) \/ WriteAudio(t) \/ PlayAgain(t)

\* The audio system takes the next chunk of a playing track.
Sound(a) ==
  /\ crash = "none"
  /\ trackState[a] = "playing"
  /\ queue[a] # <<>>
  /\ queue' = [queue EXCEPT ![a] = Tail(@)]
  /\ heard' = [heard EXCEPT ![a] = Append(@, Head(queue[a]))]
  /\ UNCHANGED <<predictorVars, callVars, modelVars, audioTrack, trackState, silenced,
                 outVars, content, pc, my, crash>>

Next ==
  \/ \E t \in Threads, text \in Texts, voice \in Speakers : SpeakText(t, text, voice)
  \/ pauseAudioTrack \/ flushAudioTrack \/ StopAudioTrack
  \/ ModelStep
  \/ \E t \in Threads : SessionStep(t)
  \/ \E t \in Threads : Sound(t)

Spec == Init /\ [][Next]_vars

\* The Java scheduler runs every thread that can run, and a playing track plays.
Fairness ==
  /\ \A t \in Threads : WF_vars(SessionStep(t)) /\ WF_vars(Sound(t))

FairSpec == Spec /\ Fairness

-----------------------------------------------------------------------------
(* Properties. *)

SessionPlaces ==
  {"new", "read", "replace", "split", "track", "firstPlay", "loop", "check", "speaker", "am",
   "monitor", "run", "voc", "mel", "vocoder", "scan", "sample", "compare", "raise", "wave",
   "convert", "fetch", "write", "play", "done"}

Waves == [phones : Seq(Phones), voice : Speakers]
Chunks == [phones : Seq(Phones), voice : Speakers, scale : Nat]

Locals == [tmp : Seq(Items), round : 0 .. Len(charSplit) + 1, segmentText : Seq(Seq(Items)),
           index : Nat \ {0}, phones : Seq(Phones), voice : Speakers,
           am : Models \cup {NoModel}, voc : Models \cup {NoModel}, shape : Nat,
           sample : Nat \ {0}, value : Nat, wav : Waves, buf : Chunks,
           track : Threads \cup {NoThread}]

CallTypeOK ==
  /\ thread \in Threads \cup {NoThread}
  /\ interrupted \subseteq Threads \cup {NoThread}
  /\ asked \in [Threads -> [text : Seq(Items), voice : Speakers]]
  /\ {overlapped, disturbed} \subseteq SUBSET Threads
  /\ uipc \in {"idle", "flush"}

ModelTypeOK ==
  /\ singlewav \in Waves
  /\ maxwav \in Nat
  /\ obj \in Threads \cup {NoThread}
  /\ amOutput \in [1 .. MaxLoads -> Waves]
  /\ vocInput \in [1 .. MaxLoads -> Waves]

TrackTypeOK ==
  /\ audioTrack \in Threads \cup {NoThread}
  /\ trackState \in [Threads -> {"none", "stopped", "playing", "paused", "released"}]
  /\ queue \in [Threads -> Seq(Chunks)]
  /\ heard \in [Threads -> Seq(Chunks)]
  /\ silenced \subseteq Threads

OutTypeOK ==
  /\ audioData \in Chunks
  /\ spoken \in [Threads -> Seq([chunk : Chunks, to : Threads \cup {NoThread}])]
  /\ message \in Threads \cup {NoThread}

\* Type invariant of the player: the statics, the Predictor's fields, the locals
\* and the tracks stay in their ranges.
TypeOK ==
  /\ PredictorTypeOK /\ CallTypeOK /\ ModelTypeOK /\ TrackTypeOK /\ OutTypeOK
  /\ content \in Seq(Items)
  /\ pc \in [Threads -> SessionPlaces]
  /\ my \in [Threads -> Locals]
  /\ crash \in {"none", "pause", "play", "NullPointer", "ArrayIndexOutOfBounds"}

\* A session that ran alone, with the models loaded all the while.
Clean(t) == pc[t] # "new" /\ t \notin overlapped \cup disturbed

\* What SpeakText means by a text: no newlines, a comma for every separator,
\* and the phones of the pieces that are not blank.
Cleaned(text) ==
  LET s == StripNewlines(text)
  IN  [n \in DOMAIN s |-> IF \E k \in DOMAIN charSplit : s[n] = charSplit[k]
                         THEN Comma ELSE s[n]]

Expected(text) ==
  LET pieces == SplitAtCommas(Cleaned(text))
      inked == {n \in DOMAIN pieces : Trim(pieces[n]) # <<>>}
  IN  Elements([n \in DOMAIN pieces |-> ft(Trim(pieces[n]))], inked)

\* Speaktts.SpeakText: a clean session writes the segments of its own text, in
\* order, each once, in the voice it was asked for and to its own track; when it
\* is done it has written them all.
SpeaksItsText ==
  \A t \in Threads : Clean(t) =>
    /\ Len(spoken[t]) <= Len(Expected(asked[t].text))
    /\ \A n \in DOMAIN spoken[t] :
         /\ spoken[t][n].chunk.phones = Expected(asked[t].text)[n]
         /\ spoken[t][n].chunk.voice = asked[t].voice
         /\ spoken[t][n].to = t
    /\ pc[t] = "done" => Len(spoken[t]) = Len(Expected(asked[t].text))

\* runSegmentModel and segToByte: in a clean session no sample is scaled above
\* 32767, whatever earlier sessions left in maxwav.
NoClipping ==
  \A t \in Threads : Clean(t) =>
    \A n \in DOMAIN spoken[t] :
      \A j \in DOMAIN spoken[t][n].chunk.phones :
        Loud[spoken[t][n].chunk.phones[j]] <= spoken[t][n].chunk.scale

\* Overlapping sessions may take each other's text, track and models, but what is
\* heard on any track is the phones of one stretch of one requested text (or noise).
HeardWasAsked ==
  \A a \in Threads : \A n \in DOMAIN heard[a] :
    \/ heard[a][n].phones = <<Noise>>
    \/ \E t \in Threads :
         LET s == StripNewlines(asked[t].text)
         IN  \E j, k \in DOMAIN s : heard[a][n].phones = ft(SubSeq(s, j, k))

\* The exceptions outside the try block: the process dies only after sessions
\* overlapped, or the models were missing or replaced under a session, or the user
\* stopped a track.
CleanUseNeverCrashes ==
  crash # "none" =>
    \/ overlapped # {} \/ disturbed # {}
    \/ \E t \in Threads : trackState[t] = "released"

\* A session waits only at the monitor of getAMOutput, for a session inside it that
\* can go on, or in write, for a track that plays: however sessions overlap, none
\* holds up another one for ever.
WaitsAreShort ==
  crash = "none" =>
    \A t \in Live :
      \/ ENABLED SessionStep(t)
      \/ pc[t] = "monitor" /\ obj # NoThread /\ ENABLED SessionStep(obj)
      \/ pc[t] = "write" /\ ENABLED Sound(my[t].track)

\* Every session comes to its end, paused, stopped or interrupted, unless the
\* process dies.
SessionEnds ==
  \A t \in Threads : pc[t] # "new" ~> pc[t] = "done" \/ crash # "none"

\* Once a clean session is done and is left alone, all of its text is heard.
AllHeard ==
  \A t \in Threads :
    pc[t] = "done" /\ Clean(t)
      ~> \/ Len(heard[t]) = Len(Expected(asked[t].text))
         \/ t \in silenced \/ crash # "none"
=============================================================================
