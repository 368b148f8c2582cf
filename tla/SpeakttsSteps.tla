--------------------------- MODULE SpeakttsSteps ---------------------------
(***************************************************************************)
(* Proofs about the player, second part: every step keeps the inductive    *)
(* invariant.  What the thread does to a text is a hypothesis here         *)
(* (TextTypes and TextSteps), which SpeakttsText proves.                   *)
(***************************************************************************)
EXTENDS SpeakttsWords, PredictorProofs

Crashes == {"none", "pause", "play", "NullPointer", "ArrayIndexOutOfBounds"}

LEMMA WaveTypes ==
  /\ \A phones \in Seq(Phones), voice \in Speakers : Wave(phones, voice) \in Waves
  /\ \A w \in Waves, scale \in Nat : Chunk(w, scale) \in Chunks
  /\ NoWave \in Waves /\ NoiseWave \in Waves
<1>1. \A phones \in Seq(Phones), voice \in Speakers : Wave(phones, voice) \in Waves
  BY Zenon DEF Wave, Waves
<1>2. \A w \in Waves, scale \in Nat : Chunk(w, scale) \in Chunks
  BY Zenon DEF Chunk, Chunks, Waves
<1>3. Noise \in Phones
  BY Zenon DEF Phones
<1>4. <<>> \in Seq(Phones) /\ <<Noise>> \in Seq(Phones) /\ DefaultSpeaker \in Speakers
  BY <1>3, PredictorAssumption
<1> QED BY <1>1, <1>2, <1>4, Zenon DEF NoWave, NoiseWave

\* What a place of the thread says about its locals.
Placed(p, l) ==
  /\ p \in {"new", "read", "replace"} => l.round <= Len(charSplit)
  /\ p \in {"run", "voc", "mel"} => l.am # NoModel
  /\ p \in {"mel", "vocoder"} => l.voc # NoModel

\* flush() is called on the track that pause() was called on.
PlayInv ==
  /\ TypeOK
  /\ \A t \in Threads : Placed(pc[t], my[t])
  /\ uipc = "flush" => audioTrack \in Threads

LEMMA PlayInit == Init => PlayInv
<1> SUFFICES ASSUME Init PROVE PlayInv
  OBVIOUS
<1>0. /\ DefaultSpeaker \in Speakers /\ InitialMax \in Nat /\ charSplit \in Seq(Items)
      /\ Chunk(NoWave, 0) \in Chunks /\ NoWave \in Waves
  BY SpeakttsAssumption, PredictorAssumption, WaveTypes
<1>1. PredictorTypeOK
  BY PredictorInitType, Zenon DEF Init
<1>2. CallTypeOK
  BY <1>0 DEF Init, CallTypeOK
<1>3. ModelTypeOK
  BY <1>0 DEF Init, ModelTypeOK
<1>4. TrackTypeOK
  BY DEF Init, TrackTypeOK
<1>5. OutTypeOK
  BY <1>0 DEF Init, OutTypeOK
<1>6. content \in Seq(Items) /\ pc \in [Threads -> SessionPlaces] /\ crash = "none" /\ uipc = "idle"
  BY DEF Init, SessionPlaces
<1>7. NoLocals \in Locals /\ Placed("new", NoLocals)
  BY <1>0 DEF NoLocals, Locals, Placed
<1>8. my \in [Threads -> Locals] /\ \A t \in Threads : Placed(pc[t], my[t])
  BY <1>7 DEF Init
<1> QED BY <1>1, <1>2, <1>3, <1>4, <1>5, <1>6, <1>8 DEF PlayInv, TypeOK

-----------------------------------------------------------------------------
\* What a statement of a session leaves alone.
LEMMA SessionFrame ==
  ASSUME NEW t \in Threads, SessionStep(t)
  PROVE  /\ UNCHANGED <<predictorVars, callVars, heard, silenced>>
         /\ crash = "none" /\ crash' \in Crashes
         /\ audioTrack' \in {audioTrack, t}
         /\ \/ UNCHANGED modelVars
            \/ EnterAM(t) \/ RunAM(t) \/ SetMel(t) \/ RunVOC(t) \/ RaiseMax(t)
         /\ \/ UNCHANGED trackVars
            \/ NewTrack(t) \/ FirstPlay(t) \/ WriteAudio(t) \/ PlayAgain(t)
         /\ \/ UNCHANGED outVars
            \/ Finish(t) \/ segToByte(t) \/ WriteAudio(t)
         /\ UNCHANGED content \/ ReplaceContent(t)
<1> USE DEF shared, trackVars, Throw, Step, Crashes
<1>1. CASE ReadContent(t) \/ ReplaceContent(t) \/ SplitContent(t) \/ NewTrack(t) \/ FirstPlay(t)
  BY <1>1, Zenon DEF ReadContent, ReplaceContent, SplitContent, NewTrack, FirstPlay
<1>2. CASE Finish(t) \/ NextSegment(t) \/ CheckLoaded(t) \/ ReadSpeaker(t) \/ ReadAM(t)
  BY <1>2, Zenon DEF Finish, NextSegment, CheckLoaded, ReadSpeaker, ReadAM
<1>3. CASE EnterAM(t) \/ RunAM(t) \/ ReadShape(t) \/ SetMel(t) \/ RunVOC(t)
  BY <1>3, Zenon DEF EnterAM, RunAM, ReadShape, SetMel, RunVOC
<1>4. CASE Scan(t) \/ ReadSample(t) \/ CompareSample(t) \/ RaiseMax(t) \/ ReadWave(t)
  BY <1>4, Zenon DEF Scan, ReadSample, CompareSample, RaiseMax, ReadWave
<1>5. CASE segToByte(t) \/ FetchAudio(t) \/ WriteAudio(t) \/ PlayAgain(t)
  BY <1>5, Zenon DEF segToByte, FetchAudio, WriteAudio, PlayAgain
<1> QED BY <1>1, <1>2, <1>3, <1>4, <1>5, Zenon DEF SessionStep

\* The thread of session t goes to place p with locals l; no other one moves.
Shift(t, p, l) ==
  /\ pc' = [pc EXCEPT ![t] = p]
  /\ my' = [my EXCEPT ![t] = l]

LEMMA ShiftType ==
  ASSUME PlayInv, NEW t \in Threads, NEW p \in SessionPlaces, NEW l \in Locals,
         Shift(t, p, l), Placed(p, l)
  PROVE  /\ pc' \in [Threads -> SessionPlaces] /\ my' \in [Threads -> Locals]
         /\ \A u \in Threads : Placed(pc'[u], my'[u])
<1>1. pc \in [Threads -> SessionPlaces] /\ my \in [Threads -> Locals]
      /\ \A u \in Threads : Placed(pc[u], my[u])
  BY Zenon DEF PlayInv, TypeOK
<1> QED BY <1>1, Zenon DEF Shift

LEMMA LocalTypes ==
  ASSUME PlayInv, NEW t \in Threads
  PROVE  /\ my[t] \in Locals /\ Placed(pc[t], my[t])
         /\ [my EXCEPT ![t] = my[t]] = my
  BY Zenon DEF PlayInv, TypeOK

\* No model is null behind the places that check for it.
LEMMA ModelLoads ==
  ASSUME PlayInv, NEW t \in Threads
  PROVE  /\ pc[t] \in {"run", "voc", "mel"} => my[t].am.load \in 1 .. MaxLoads
         /\ pc[t] \in {"mel", "vocoder"} => my[t].voc.load \in 1 .. MaxLoads
<1>1. \A m \in Models \cup {NoModel} : m # NoModel => m.load \in 1 .. MaxLoads
  BY Zenon DEF Models
<1>2. my[t].am \in Models \cup {NoModel} /\ my[t].voc \in Models \cup {NoModel}
  BY LocalTypes, Zenon DEF Locals
<1> QED BY <1>1, <1>2, LocalTypes, Zenon DEF Placed

LEMMA ElementOf ==
  ASSUME NEW S, NEW s \in Seq(S), NEW n \in Nat \ {0}, n <= Len(s)
  PROVE  s[n] \in S
  OBVIOUS

LEMMA SessionLocals ==
  ASSUME PlayInv, TextTypes, NEW t \in Threads, SessionStep(t)
  PROVE  /\ pc' \in [Threads -> SessionPlaces] /\ my' \in [Threads -> Locals]
         /\ \A u \in Threads : Placed(pc'[u], my'[u])
<1>0. my[t] \in Locals /\ Placed(pc[t], my[t]) /\ [my EXCEPT ![t] = my[t]] = my
  BY LocalTypes
<1>1. CASE ReadContent(t)
  <2> DEFINE l == [my[t] EXCEPT !.tmp = content]
  <2>1. Shift(t, "replace", l)
    BY <1>1, Zenon DEF ReadContent, Throw, Step, Shift
  <2>2. content \in Seq(Items)
    BY Zenon DEF PlayInv, TypeOK
  <2>3. l \in Locals
    BY <1>0, <2>2, Zenon DEF Locals
  <2>4. Placed("replace", l) /\ "replace" \in SessionPlaces
    BY <1>0, <1>1, Zenon DEF Placed, SessionPlaces, Locals, ReadContent, Step
  <2> QED BY <2>1, <2>3, <2>4, ShiftType, Zenon
<1>2. CASE ReplaceContent(t)
  <2> DEFINE r == my[t].round
             p == IF r = Len(charSplit) THEN "split" ELSE "read"
             l == [my[t] EXCEPT !.round = r + 1, !.tmp = <<>>]
  <2>1. Shift(t, p, l)
    BY <1>2, Zenon DEF ReplaceContent, Step, Shift
  <2>2. r \in 0 .. Len(charSplit) + 1 /\ r <= Len(charSplit)
    BY <1>0, <1>2, Zenon DEF Locals, Placed, ReplaceContent, Step
  <2>3. charSplit \in Seq(Items)
    BY SpeakttsAssumption
  <2> HIDE DEF r
  <2>4. r + 1 \in 0 .. Len(charSplit) + 1 /\ <<>> \in Seq(Items)
        /\ (r # Len(charSplit) => r + 1 <= Len(charSplit))
    BY <2>2, <2>3
  <2>5. l \in Locals /\ l.round = r + 1
    BY <1>0, <2>4, Zenon DEF Locals
  <2> HIDE DEF l
  <2>6. Placed(p, l) /\ p \in SessionPlaces
    BY <2>4, <2>5, Zenon DEF Placed, SessionPlaces
  <2> QED BY <2>1, <2>5, <2>6, ShiftType, Zenon
<1>3. CASE SplitContent(t)
  <2> DEFINE l == [my[t] EXCEPT !.segmentText = SplitAtCommas(content)]
  <2>1. Shift(t, "track", l)
    BY <1>3, Zenon DEF SplitContent, Throw, Step, Shift
  <2>2. SplitAtCommas(content) \in Seq(Seq(Items))
    BY Zenon DEF PlayInv, TypeOK, TextTypes
  <2>3. l \in Locals
    BY <1>0, <2>2, Zenon DEF Locals
  <2>4. Placed("track", l) /\ "track" \in SessionPlaces
    BY Zenon DEF Placed, SessionPlaces
  <2> QED BY <2>1, <2>3, <2>4, ShiftType, Zenon
<1>4. CASE NewTrack(t)
  <2>1. Shift(t, "firstPlay", my[t])
    BY <1>4, <1>0, Zenon DEF NewTrack, Throw, Step, Shift
  <2>2. Placed("firstPlay", my[t]) /\ "firstPlay" \in SessionPlaces
    BY <1>4, <1>0, Zenon DEF Placed, SessionPlaces, NewTrack, Throw, Step
  <2> QED BY <1>0, <2>1, <2>2, ShiftType, Zenon
<1>5. CASE FirstPlay(t)
  <2>1. Shift(t, IF trackState[audioTrack] = "released" THEN "firstPlay" ELSE "loop", my[t])
    BY <1>5, <1>0, Zenon DEF FirstPlay, Throw, Step, Shift
  <2>2. Placed((IF trackState[audioTrack] = "released" THEN "firstPlay" ELSE "loop"), my[t]) /\ (IF trackState[audioTrack] = "released" THEN "firstPlay" ELSE "loop") \in SessionPlaces
    BY <1>5, <1>0, Zenon DEF Placed, SessionPlaces, FirstPlay, Throw, Step
  <2> QED BY <1>0, <2>1, <2>2, ShiftType, Zenon
<1>6. CASE Finish(t)
  <2>1. Shift(t, "done", my[t])
    BY <1>6, <1>0, Zenon DEF Finish, Throw, Step, Shift
  <2>2. Placed("done", my[t]) /\ "done" \in SessionPlaces
    BY <1>6, <1>0, Zenon DEF Placed, SessionPlaces, Finish, Throw, Step
  <2> QED BY <1>0, <2>1, <2>2, ShiftType, Zenon
<1>7. CASE NextSegment(t)
  <2> DEFINE str == Trim(my[t].segmentText[my[t].index])
             l == [my[t] EXCEPT !.index = my[t].index + 1]
             m == [my[t] EXCEPT !.phones = ft(str)]
  <2>1. /\ my[t].segmentText \in Seq(Seq(Items)) /\ my[t].index \in Nat \ {0}
        /\ my[t].index <= Len(my[t].segmentText)
    BY <1>0, <1>7, Zenon DEF Locals, NextSegment
  <2>2. my[t].segmentText[my[t].index] \in Seq(Items)
    BY <2>1, ElementOf, Zenon
  <2>7. my[t].index + 1 \in Nat \ {0}
    BY <2>1
  <2>3. ft(str) \in Seq(Phones)
    BY <2>2, Zenon DEF TextTypes
  <2>4. l \in Locals /\ m \in Locals
    BY <1>0, <2>3, <2>7, Zenon DEF Locals
  <2>5. Shift(t, "loop", l) \/ Shift(t, "check", m)
    BY <1>7, Zenon DEF NextSegment, Step, Shift
  <2>6. /\ Placed("loop", l) /\ Placed("check", m)
        /\ "loop" \in SessionPlaces /\ "check" \in SessionPlaces
    BY Zenon DEF Placed, SessionPlaces
  <2> QED BY <2>4, <2>5, <2>6, ShiftType, Zenon
<1>8. CASE CheckLoaded(t)
  <2>1. Shift(t, IF IsLoaded THEN "speaker" ELSE "wave", my[t])
    BY <1>8, <1>0, Zenon DEF CheckLoaded, Throw, Step, Shift
  <2>2. Placed((IF IsLoaded THEN "speaker" ELSE "wave"), my[t]) /\ (IF IsLoaded THEN "speaker" ELSE "wave") \in SessionPlaces
    BY <1>8, <1>0, Zenon DEF Placed, SessionPlaces, CheckLoaded, Throw, Step
  <2> QED BY <1>0, <2>1, <2>2, ShiftType, Zenon
<1>9. CASE ReadSpeaker(t)
  <2> DEFINE l == [my[t] EXCEPT !.voice = speakId]
  <2>1. Shift(t, "am", l)
    BY <1>9, Zenon DEF ReadSpeaker, Throw, Step, Shift
  <2>2. speakId \in Speakers
    BY Zenon DEF PlayInv, TypeOK, PredictorTypeOK
  <2>3. l \in Locals
    BY <1>0, <2>2, Zenon DEF Locals
  <2>4. Placed("am", l) /\ "am" \in SessionPlaces
    BY Zenon DEF Placed, SessionPlaces
  <2> QED BY <2>1, <2>3, <2>4, ShiftType, Zenon
<1>10. CASE ReadAM(t)
  <2> DEFINE l == [my[t] EXCEPT !.am = AMPredictor]
  <2>1. Shift(t, "monitor", l)
    BY <1>10, Zenon DEF ReadAM, Throw, Step, Shift
  <2>2. AMPredictor \in Models \cup {NoModel}
    BY Zenon DEF PlayInv, TypeOK, PredictorTypeOK
  <2>3. l \in Locals
    BY <1>0, <2>2, Zenon DEF Locals
  <2>4. Placed("monitor", l) /\ "monitor" \in SessionPlaces
    BY Zenon DEF Placed, SessionPlaces
  <2> QED BY <2>1, <2>3, <2>4, ShiftType, Zenon
<1>11. CASE EnterAM(t)
  <2>1. Shift(t, IF my[t].am = NoModel THEN "monitor" ELSE "run", my[t])
    BY <1>11, <1>0, Zenon DEF EnterAM, Throw, Step, Shift
  <2>2. Placed((IF my[t].am = NoModel THEN "monitor" ELSE "run"), my[t]) /\ (IF my[t].am = NoModel THEN "monitor" ELSE "run") \in SessionPlaces
    BY <1>11, <1>0, Zenon DEF Placed, SessionPlaces, EnterAM, Throw, Step
  <2> QED BY <1>0, <2>1, <2>2, ShiftType, Zenon
<1>12. CASE RunAM(t)
  <2>1. Shift(t, "voc", my[t])
    BY <1>12, <1>0, Zenon DEF RunAM, Throw, Step, Shift
  <2>2. Placed("voc", my[t]) /\ "voc" \in SessionPlaces
    BY <1>12, <1>0, Zenon DEF Placed, SessionPlaces, RunAM, Throw, Step
  <2> QED BY <1>0, <2>1, <2>2, ShiftType, Zenon
<1>13. CASE ReadShape(t)
  <2> DEFINE size == Len(amOutput[my[t].am.load].phones)
             p == IF VOCPredictor = NoModel THEN "voc" ELSE "mel"
             l == [my[t] EXCEPT !.voc = VOCPredictor, !.shape = size]
  <2>1. Shift(t, p, l)
    BY <1>13, Zenon DEF ReadShape, Throw, Step, Shift
  <2>2. VOCPredictor \in Models \cup {NoModel}
    BY Zenon DEF PlayInv, TypeOK, PredictorTypeOK
  <2>3. amOutput[my[t].am.load] \in Waves
    BY <1>13, ModelLoads, Zenon DEF PlayInv, TypeOK, ModelTypeOK, ReadShape, Throw, Step
  <2>4. size \in Nat
    BY <2>3 DEF Waves
  <2> HIDE DEF size
  <2>5. l \in Locals /\ l.am = my[t].am /\ l.voc = VOCPredictor
    BY <1>0, <2>2, <2>4, Zenon DEF Locals
  <2> HIDE DEF l
  <2>6. Placed(p, l) /\ p \in SessionPlaces
    BY <1>0, <1>13, <2>5, Zenon DEF Placed, SessionPlaces, ReadShape, Throw, Step
  <2> QED BY <2>1, <2>5, <2>6, ShiftType, Zenon
<1>14. CASE SetMel(t)
  <2>1. Shift(t, "vocoder", my[t])
    BY <1>14, <1>0, Zenon DEF SetMel, Throw, Step, Shift
  <2>2. Placed("vocoder", my[t]) /\ "vocoder" \in SessionPlaces
    BY <1>14, <1>0, Zenon DEF Placed, SessionPlaces, SetMel, Throw, Step
  <2> QED BY <1>0, <2>1, <2>2, ShiftType, Zenon
<1>15. CASE RunVOC(t)
  <2> DEFINE l == [my[t] EXCEPT !.sample = 1]
  <2>1. Shift(t, "scan", l)
    BY <1>15, Zenon DEF RunVOC, Throw, Step, Shift
  <2>2. 1 \in Nat \ {0}
    OBVIOUS
  <2>3. l \in Locals
    BY <1>0, <2>2, Zenon DEF Locals
  <2>4. Placed("scan", l) /\ "scan" \in SessionPlaces
    BY Zenon DEF Placed, SessionPlaces
  <2> QED BY <2>1, <2>3, <2>4, ShiftType, Zenon
<1>16. CASE Scan(t)
  <2>1. Shift(t, IF my[t].sample > Len(singlewav.phones) THEN "wave" ELSE "sample", my[t])
    BY <1>16, <1>0, Zenon DEF Scan, Throw, Step, Shift
  <2>2. Placed((IF my[t].sample > Len(singlewav.phones) THEN "wave" ELSE "sample"), my[t]) /\ (IF my[t].sample > Len(singlewav.phones) THEN "wave" ELSE "sample") \in SessionPlaces
    BY <1>16, <1>0, Zenon DEF Placed, SessionPlaces, Scan, Throw, Step
  <2> QED BY <1>0, <2>1, <2>2, ShiftType, Zenon
<1>17. CASE ReadSample(t)
  <2> DEFINE v == Loud[singlewav.phones[my[t].sample]]
             l == [my[t] EXCEPT !.value = v]
  <2>1. \/ Shift(t, "sample", my[t])
        \/ Shift(t, "compare", l) /\ ~ (my[t].sample > Len(singlewav.phones))
    BY <1>0, <1>17, Zenon DEF ReadSample, Throw, Step, Shift
  <2>2. my[t].sample \in Nat \ {0}
    BY <1>0, Zenon DEF Locals
  <2>3. singlewav.phones \in Seq(Phones) /\ Loud \in [Phones -> Nat]
    BY SpeakttsAssumption, Zenon DEF PlayInv, TypeOK, ModelTypeOK, Waves
  <2>4. my[t].sample > Len(singlewav.phones) \/ v \in Nat
    BY <2>2, <2>3
  <2> HIDE DEF v
  <2>5. v \in Nat => l \in Locals
    BY <1>0, Zenon DEF Locals
  <2>6. /\ Placed("sample", my[t]) /\ Placed("compare", l)
        /\ "sample" \in SessionPlaces /\ "compare" \in SessionPlaces
    BY Zenon DEF Placed, SessionPlaces
  <2> HIDE DEF l
  <2> QED BY <1>0, <2>1, <2>4, <2>5, <2>6, ShiftType, Zenon
<1>18. CASE CompareSample(t) \/ RaiseMax(t)
  <2> DEFINE l == [my[t] EXCEPT !.sample = my[t].sample + 1]
  <2>1. Shift(t, "raise", my[t]) \/ Shift(t, "scan", l)
    BY <1>0, <1>18, Zenon DEF CompareSample, RaiseMax, Step, Shift
  <2>2. my[t].sample \in Nat \ {0}
    BY <1>0, Zenon DEF Locals
  <2>3. my[t].sample + 1 \in Nat \ {0}
    BY <2>2
  <2>4. l \in Locals
    BY <1>0, <2>3, Zenon DEF Locals
  <2>5. /\ Placed("raise", my[t]) /\ Placed("scan", l)
        /\ "raise" \in SessionPlaces /\ "scan" \in SessionPlaces
    BY Zenon DEF Placed, SessionPlaces
  <2> QED BY <1>0, <2>1, <2>4, <2>5, ShiftType, Zenon
<1>19. CASE ReadWave(t)
  <2> DEFINE l == [my[t] EXCEPT !.wav = singlewav]
  <2>1. Shift(t, IF singlewav = NoWave THEN "wave" ELSE "convert", l)
    BY <1>19, Zenon DEF ReadWave, Throw, Step, Shift
  <2>2. singlewav \in Waves
    BY Zenon DEF PlayInv, TypeOK, ModelTypeOK
  <2>3. l \in Locals
    BY <1>0, <2>2, Zenon DEF Locals
  <2>4. Placed((IF singlewav = NoWave THEN "wave" ELSE "convert"), l) /\ (IF singlewav = NoWave THEN "wave" ELSE "convert") \in SessionPlaces
    BY Zenon DEF Placed, SessionPlaces
  <2> QED BY <2>1, <2>3, <2>4, ShiftType, Zenon
<1>20. CASE segToByte(t)
  <2>1. Shift(t, "fetch", my[t])
    BY <1>20, <1>0, Zenon DEF segToByte, Throw, Step, Shift
  <2>2. Placed("fetch", my[t]) /\ "fetch" \in SessionPlaces
    BY <1>20, <1>0, Zenon DEF Placed, SessionPlaces, segToByte, Throw, Step
  <2> QED BY <1>0, <2>1, <2>2, ShiftType, Zenon
<1>21. CASE FetchAudio(t)
  <2> DEFINE l == [my[t] EXCEPT !.buf = audioData, !.track = audioTrack]
  <2>1. Shift(t, "write", l)
    BY <1>21, Zenon DEF FetchAudio, Throw, Step, Shift
  <2>2. audioData \in Chunks /\ audioTrack \in Threads \cup {NoThread}
    BY Zenon DEF PlayInv, TypeOK, OutTypeOK, TrackTypeOK
  <2>3. l \in Locals
    BY <1>0, <2>2, Zenon DEF Locals
  <2>4. Placed("write", l) /\ "write" \in SessionPlaces
    BY Zenon DEF Placed, SessionPlaces
  <2> QED BY <2>1, <2>3, <2>4, ShiftType, Zenon
<1>22. CASE WriteAudio(t)
  <2>1. Shift(t, "play", my[t])
    BY <1>22, <1>0, Zenon DEF WriteAudio, Throw, Step, Shift
  <2>2. Placed("play", my[t]) /\ "play" \in SessionPlaces
    BY <1>22, <1>0, Zenon DEF Placed, SessionPlaces, WriteAudio, Throw, Step
  <2> QED BY <1>0, <2>1, <2>2, ShiftType, Zenon
<1>23. CASE PlayAgain(t)
  <2> DEFINE l == [my[t] EXCEPT !.index = my[t].index + 1]
  <2>1. Shift(t, "loop", l)
    BY <1>23, Zenon DEF PlayAgain, Throw, Step, Shift
  <2>2. my[t].index + 1 \in Nat \ {0}
    <3>1. my[t].index \in Nat \ {0}
      BY <1>0, Zenon DEF Locals
    <3> QED BY <3>1
  <2>3. l \in Locals
    BY <1>0, <2>2, Zenon DEF Locals
  <2>4. Placed("loop", l) /\ "loop" \in SessionPlaces
    BY Zenon DEF Placed, SessionPlaces
  <2> QED BY <2>1, <2>3, <2>4, ShiftType, Zenon
<1> QED
  BY <1>1, <1>2, <1>3, <1>4, <1>5, <1>6, <1>7, <1>8, <1>9, <1>10, <1>11, <1>12, <1>13, <1>14, <1>15, <1>16, <1>17, <1>18, <1>19, <1>20, <1>21, <1>22, <1>23,
     Zenon DEF SessionStep

LEMMA Frames ==
  /\ PredictorTypeOK /\ UNCHANGED predictorVars => PredictorTypeOK'
  /\ CallTypeOK /\ UNCHANGED callVars => CallTypeOK'
  /\ ModelTypeOK /\ UNCHANGED modelVars => ModelTypeOK'
  /\ TrackTypeOK /\ UNCHANGED trackVars => TrackTypeOK'
  /\ OutTypeOK /\ UNCHANGED outVars => OutTypeOK'
<1>1. PredictorTypeOK /\ UNCHANGED predictorVars => PredictorTypeOK'
  BY PredictorTypeStep, Zenon
<1>2. CallTypeOK /\ UNCHANGED callVars => CallTypeOK'
  BY Zenon DEF CallTypeOK, callVars
<1>3. ModelTypeOK /\ UNCHANGED modelVars => ModelTypeOK'
  BY Zenon DEF ModelTypeOK, modelVars
<1>4. TrackTypeOK /\ UNCHANGED trackVars => TrackTypeOK'
  BY Zenon DEF TrackTypeOK, trackVars
<1>5. OutTypeOK /\ UNCHANGED outVars => OutTypeOK'
  BY Zenon DEF OutTypeOK, outVars
<1> QED BY <1>1, <1>2, <1>3, <1>4, <1>5, Zenon

LEMMA Appended ==
  ASSUME NEW C, NEW f \in [Threads -> Seq(C)], NEW a, NEW c \in C
  PROVE  [f EXCEPT ![a] = Append(f[a], c)] \in [Threads -> Seq(C)]
<1>1. CASE a \in Threads
  BY <1>1
<1>2. CASE a \notin Threads
  BY <1>2, Zenon
<1> QED BY <1>1, <1>2

\* Every statement of every session keeps the types.
LEMMA SessionType ==
  ASSUME PlayInv, TextTypes, NEW t \in Threads, SessionStep(t)
  PROVE  PlayInv'
<1>0. /\ ModelTypeOK /\ TrackTypeOK /\ OutTypeOK /\ content \in Seq(Items) /\ my[t] \in Locals
  BY LocalTypes, Zenon DEF PlayInv, TypeOK
<1>1. ModelTypeOK'
  <2>1. CASE EnterAM(t)
    BY <1>0, <2>1, Zenon DEF ModelTypeOK, EnterAM
  <2>2. CASE RunAM(t)
    <3>1. Wave(my[t].phones, my[t].voice) \in Waves
      BY <1>0, WaveTypes, Zenon DEF Locals
    <3> QED BY <1>0, <2>2, <3>1, Zenon DEF ModelTypeOK, RunAM
  <2>3. CASE SetMel(t)
    <3>1. amOutput[my[t].am.load] \in Waves /\ NoiseWave \in Waves
      BY <1>0, <2>3, ModelLoads, WaveTypes, Zenon DEF ModelTypeOK, SetMel, Step
    <3> QED BY <1>0, <2>3, <3>1, Zenon DEF ModelTypeOK, SetMel
  <2>4. CASE RunVOC(t)
    <3>1. vocInput[my[t].voc.load] \in Waves /\ NoiseWave \in Waves
      BY <1>0, <2>4, ModelLoads, WaveTypes, Zenon DEF ModelTypeOK, RunVOC, Step
    <3>2. singlewav' \in {vocInput[my[t].voc.load], NoiseWave}
      BY <2>4, Zenon DEF RunVOC
    <3> QED BY <1>0, <2>4, <3>1, <3>2, Zenon DEF ModelTypeOK, RunVOC
  <2>5. CASE RaiseMax(t)
    BY <1>0, <2>5, Zenon DEF ModelTypeOK, RaiseMax, Locals
  <2> QED BY <1>0, <2>1, <2>2, <2>3, <2>4, <2>5, SessionFrame, Frames, Zenon
<1>2. TrackTypeOK'
  <2>1. CASE NewTrack(t)
    BY <1>0, <2>1, Zenon DEF TrackTypeOK, NewTrack
  <2>2. CASE FirstPlay(t) \/ PlayAgain(t)
    <3>1. Played(audioTrack) \in [Threads -> {"none", "stopped", "playing", "paused", "released"}]
      BY <1>0, Zenon DEF TrackTypeOK, Played
    <3> QED BY <1>0, <2>2, <3>1, Zenon DEF TrackTypeOK, FirstPlay, PlayAgain
  <2>3. CASE WriteAudio(t)
    <3>1. [queue EXCEPT ![my[t].track] = Append(queue[my[t].track], my[t].buf)]
          \in [Threads -> Seq(Chunks)]
      BY <1>0, Appended, Zenon DEF TrackTypeOK, Locals
    <3> QED BY <1>0, <2>3, <3>1, Zenon DEF TrackTypeOK, WriteAudio
  <2> QED BY <1>0, <2>1, <2>2, <2>3, SessionFrame, Frames, Zenon
<1>3. OutTypeOK'
  <2>1. CASE Finish(t)
    BY <1>0, <2>1, Zenon DEF OutTypeOK, Finish
  <2>2. CASE segToByte(t)
    <3>1. Chunk(my[t].wav, maxwav) \in Chunks
      BY <1>0, WaveTypes, Zenon DEF ModelTypeOK, Locals
    <3> QED BY <1>0, <2>2, <3>1, Zenon DEF OutTypeOK, segToByte
  <2>3. CASE WriteAudio(t)
    <3> DEFINE said == [chunk |-> my[t].buf, to |-> my[t].track]
    <3>1. said \in [chunk : Chunks, to : Threads \cup {NoThread}]
      BY <1>0, Zenon DEF Locals
    <3> HIDE DEF said
    <3>2. [spoken EXCEPT ![t] = Append(spoken[t], said)]
          \in [Threads -> Seq([chunk : Chunks, to : Threads \cup {NoThread}])]
      BY <1>0, <3>1, Appended, Zenon DEF OutTypeOK
    <3> QED BY <1>0, <2>3, <3>2, Zenon DEF OutTypeOK, WriteAudio, said
  <2> QED BY <1>0, <2>1, <2>2, <2>3, SessionFrame, Frames, Zenon
<1>4. content' \in Seq(Items)
  <2>1. CASE ReplaceContent(t)
    <3>1. my[t].tmp \in Seq(Items)
      BY <1>0, Zenon DEF Locals
    <3> QED BY <2>1, <3>1, Zenon DEF ReplaceContent, TextTypes
  <2> QED BY <1>0, <2>1, SessionFrame, Zenon
<1>5. PredictorTypeOK' /\ CallTypeOK' /\ crash' \in Crashes
  BY SessionFrame, Frames, Zenon DEF PlayInv, TypeOK
<1>6. uipc' = "flush" => audioTrack' \in Threads
  BY SessionFrame, Zenon DEF PlayInv, callVars
<1> QED BY <1>1, <1>2, <1>3, <1>4, <1>5, <1>6, SessionLocals, Zenon DEF PlayInv, TypeOK, Crashes

-----------------------------------------------------------------------------
LEMMA ModelStepMoves == ModelStep => PredictorNext
  BY Zenon DEF ModelStep, PredictorNext

LEMMA SpeakTextType ==
  ASSUME PlayInv, NEW t \in Threads, NEW text \in Texts, NEW voice \in Speakers,
         SpeakText(t, text, voice)
  PROVE  PlayInv'
<1>1. my[t] \in Locals /\ Shift(t, "read", my[t]) /\ Placed("new", my[t])
  BY LocalTypes, Zenon DEF SpeakText, Shift
<1>2. Placed("read", my[t]) /\ "read" \in SessionPlaces
  BY <1>1, Zenon DEF Placed, SessionPlaces
<1>3. text \in Seq(Items)
  BY SpeakttsAssumption, Zenon
<1>4. PredictorTypeOK'
  BY Zenon DEF PlayInv, TypeOK, PredictorTypeOK, SpeakText
<1>5. CallTypeOK'
  BY <1>3, Zenon DEF PlayInv, TypeOK, CallTypeOK, SpeakText, Live
<1>6. ModelTypeOK' /\ TrackTypeOK' /\ OutTypeOK' /\ content' \in Seq(Items)
  BY <1>3, Frames, Zenon DEF PlayInv, TypeOK, SpeakText
<1>7. crash' = crash /\ (uipc' = "flush" => audioTrack' \in Threads)
  BY Zenon DEF PlayInv, SpeakText, trackVars
<1> QED BY <1>1, <1>2, <1>4, <1>5, <1>6, <1>7, ShiftType, Zenon DEF PlayInv, TypeOK

\* The calls of the UI thread, the steps of init and releaseModel, and the sound.
LEMMA CallType ==
  ASSUME PlayInv,
         pauseAudioTrack \/ flushAudioTrack \/ StopAudioTrack \/ ModelStep
         \/ (\E a \in Threads : Sound(a)) \/ UNCHANGED vars
  PROVE  PlayInv'
<1> DEFINE Call == pauseAudioTrack \/ flushAudioTrack \/ StopAudioTrack
<1>0. /\ CallTypeOK /\ TrackTypeOK /\ PredictorTypeOK /\ ModelTypeOK /\ OutTypeOK
      /\ content \in Seq(Items) /\ crash \in Crashes /\ <<>> \in Seq(Chunks)
  BY DEF PlayInv, TypeOK, Crashes
<1>1. CASE pauseAudioTrack \/ flushAudioTrack \/ StopAudioTrack
  <2>1. CallTypeOK'
    BY <1>0, <1>1 DEF CallTypeOK, TrackTypeOK, pauseAudioTrack, flushAudioTrack, StopAudioTrack
  <2>2. pauseAudioTrack => TrackTypeOK'
    BY <1>0, Zenon DEF TrackTypeOK, pauseAudioTrack
  <2>3. flushAudioTrack => TrackTypeOK'
    <3> HAVE flushAudioTrack
    <3>1. audioTrack \in Threads
      BY Zenon DEF PlayInv, flushAudioTrack
    <3> QED BY <1>0, <3>1, Zenon DEF TrackTypeOK, flushAudioTrack
  <2>4. StopAudioTrack => TrackTypeOK'
    BY <1>0, Zenon DEF TrackTypeOK, StopAudioTrack
  <2>5. PredictorTypeOK' /\ ModelTypeOK' /\ OutTypeOK' /\ content' \in Seq(Items)
    BY <1>0, <1>1, Frames, Zenon DEF pauseAudioTrack, flushAudioTrack, StopAudioTrack
  <2>6. UNCHANGED <<pc, my>> /\ crash' \in Crashes
    BY <1>0, <1>1, Zenon DEF Crashes, pauseAudioTrack, flushAudioTrack, StopAudioTrack
  <2>7. uipc' = "flush" => audioTrack' \in Threads
    BY <1>0, <1>1, Zenon DEF PlayInv, TrackTypeOK, pauseAudioTrack, flushAudioTrack, StopAudioTrack
  <2>8. TrackTypeOK'
    BY <1>1, <2>2, <2>3, <2>4, Zenon
  <2> QED BY <2>1, <2>5, <2>6, <2>7, <2>8, ZenonT(40) DEF PlayInv, TypeOK, Crashes
<1>2. CASE ModelStep
  <2>1. PredictorTypeOK' /\ CallTypeOK'
    BY <1>0, <1>2, ModelStepMoves, PredictorTypeStep, Zenon DEF CallTypeOK, ModelStep, Live
  <2>2. ModelTypeOK' /\ TrackTypeOK' /\ OutTypeOK' /\ content' \in Seq(Items)
    BY <1>0, <1>2, Frames, Zenon DEF ModelStep
  <2>3. UNCHANGED <<pc, my, crash, uipc, audioTrack>>
    BY <1>2, Zenon DEF ModelStep, trackVars
  <2> QED BY <1>0, <2>1, <2>2, <2>3, Zenon DEF PlayInv, TypeOK, Crashes
<1>3. ASSUME NEW a \in Threads, Sound(a) PROVE PlayInv'
  <2>1. queue[a] \in Seq(Chunks) /\ queue[a] # <<>>
    BY <1>0, <1>3, Zenon DEF TrackTypeOK, Sound
  <2>2. Head(queue[a]) \in Chunks /\ Tail(queue[a]) \in Seq(Chunks)
    BY <2>1
  <2>3. [heard EXCEPT ![a] = Append(heard[a], Head(queue[a]))] \in [Threads -> Seq(Chunks)]
    BY <1>0, <2>2, Appended, Zenon DEF TrackTypeOK
  <2>4. TrackTypeOK'
    BY <1>0, <1>3, <2>2, <2>3, Zenon DEF TrackTypeOK, Sound
  <2>5. PredictorTypeOK' /\ CallTypeOK' /\ ModelTypeOK' /\ OutTypeOK' /\ content' \in Seq(Items)
    BY <1>0, <1>3, Frames, Zenon DEF Sound
  <2>6. UNCHANGED <<pc, my, crash, uipc, audioTrack>>
    BY <1>3, Zenon DEF Sound, callVars
  <2> QED BY <1>0, <2>4, <2>5, <2>6, Zenon DEF PlayInv, TypeOK, Crashes
<1>4. CASE UNCHANGED vars
  <2>1. UNCHANGED <<predictorVars, callVars, modelVars, trackVars, outVars, content, pc, my, crash>>
    BY <1>4, Zenon DEF vars, shared
  <2>2. UNCHANGED <<uipc, audioTrack>>
    BY <2>1, Zenon DEF callVars, trackVars
  <2> QED BY <1>0, <2>1, <2>2, Frames, Zenon DEF PlayInv, TypeOK, Crashes
<1> QED BY <1>1, <1>2, <1>3, <1>4, Zenon

LEMMA PlayStep == PlayInv /\ TextTypes /\ [Next]_vars => PlayInv'
  BY SpeakTextType, CallType, SessionType, Zenon DEF Next

-----------------------------------------------------------------------------
(* Sessions that run alone. *)

\* The monitor is held by a session inside getAMOutput.  A session that met no other
\* one is the only one; with the models left alone, they are loaded and the speaker
\* field is its voice.
AloneInv ==
  /\ obj # NoThread => pc[obj] = "run"
  /\ \A t \in Threads : pc[t] = "new" => my[t] = NoLocals /\ spoken[t] = <<>>
  /\ \A t \in Live \ overlapped : \A u \in Live : u = t
  /\ \A t \in Live \ (overlapped \cup disturbed) : Quiet /\ speakId = asked[t].voice

Cleaning == {"read", "replace", "split"}
Early == {"new", "read", "replace", "split", "track", "firstPlay"}
Between == {"new", "read", "replace", "split", "track", "firstPlay", "loop", "done"}

\* What a clean session knows at each place: of its text,
Reading(t) ==
  LET text == asked[t].text
  IN  /\ pc[t] = "read" => content = Worked(text, my[t].round)
      /\ pc[t] = "replace" => my[t].tmp = Worked(text, my[t].round)
      /\ pc[t] = "split" => content = Cleaned(text)
      /\ pc[t] \in Cleaning => my[t].index = 1

\* of the pieces it goes through,
Walking(t) ==
  LET text == asked[t].text
  IN  /\ pc[t] \notin Cleaning =>
           my[t].segmentText = Pieces(text) /\ my[t].index <= Len(Pieces(text)) + 1
      /\ pc[t] \notin Between =>
           /\ my[t].index \in Inked(text)
           /\ my[t].phones = ft(Trim(Pieces(text)[my[t].index]))
      /\ pc[t] = "done" => my[t].index > Len(Pieces(text))

\* of what runSegmentModel does,
Synthesizing(t) ==
  LET wave == Wave(my[t].phones, asked[t].voice)
  IN  /\ pc[t] \in {"am", "monitor", "run"} => my[t].voice = asked[t].voice
      /\ pc[t] = "monitor" => my[t].am # NoModel
      /\ pc[t] \in {"voc", "mel"} => amOutput[my[t].am.load] = wave
      /\ pc[t] = "mel" => my[t].shape = Len(my[t].phones)
      /\ pc[t] = "vocoder" => vocInput[my[t].voc.load] = wave
      /\ pc[t] \in {"scan", "sample", "compare", "raise", "wave"} => singlewav = wave
      /\ pc[t] = "convert" => my[t].wav = wave

\* of the largest sample and the bytes made with it,
Fits(phones, scale) == \A j \in DOMAIN phones : Loud[phones[j]] <= scale

Good(chunk, phones, voice) ==
  chunk.phones = phones /\ chunk.voice = voice /\ Fits(phones, chunk.scale)

FitsBefore(phones, n, scale) == \A j \in DOMAIN phones : j < n => Loud[phones[j]] <= scale

Scaling(t) ==
  LET phones == my[t].phones
      n == my[t].sample
  IN  /\ pc[t] \in {"scan", "sample", "compare", "raise"} => FitsBefore(phones, n, maxwav)
      /\ pc[t] \in {"sample", "compare", "raise"} => n <= Len(phones)
      /\ pc[t] \in {"compare", "raise"} => my[t].value = Loud[phones[n]]
      /\ pc[t] = "raise" => my[t].value > maxwav
      /\ pc[t] \in {"wave", "convert"} => Fits(phones, maxwav)
      /\ pc[t] = "fetch" => Good(audioData, phones, asked[t].voice)
      /\ pc[t] = "write" => Good(my[t].buf, phones, asked[t].voice) /\ my[t].track = t

\* of what it has written,
Right(entry, t, phones, voice) == Good(entry.chunk, phones, voice) /\ entry.to = t

Saying(t) ==
  LET text == asked[t].text
  IN  /\ Len(spoken[t]) = SaidBy(text, IF pc[t] = "play" THEN my[t].index ELSE my[t].index - 1)
      /\ \A n \in DOMAIN spoken[t] : Right(spoken[t][n], t, Expected(text)[n], asked[t].voice)

\* and of its track, which stands still only when the user has cut it.
Sounding(t) ==
  /\ pc[t] \notin Cleaning \cup {"track", "done"} => audioTrack = t
  /\ pc[t] \notin Early \cup {"done"} => trackState[t] = "playing" \/ t \in silenced

Knows(t) ==
  Reading(t) /\ Walking(t) /\ Synthesizing(t) /\ Scaling(t) /\ Saying(t) /\ Sounding(t)

CleanInv == \A t \in Threads : Clean(t) => Knows(t)

\* The user has cut a released track, and the current track is of a session.
TrackInv ==
  /\ audioTrack # NoThread => pc[audioTrack] # "new"
  /\ \A a \in Threads : trackState[a] = "released" => a \in silenced

LEMMA AloneInit == Init => AloneInv /\ TrackInv /\ CleanInv
<1> SUFFICES ASSUME Init PROVE AloneInv /\ TrackInv /\ CleanInv
  OBVIOUS
<1>1. /\ obj = NoThread /\ audioTrack = NoThread
      /\ \A t \in Threads : /\ pc[t] = "new" /\ my[t] = NoLocals /\ spoken[t] = <<>>
                            /\ trackState[t] = "none"
  BY Zenon DEF Init
<1>2. Live = {}
  BY <1>1, Zenon DEF Live
<1> QED BY <1>1, <1>2, Zenon DEF AloneInv, TrackInv, CleanInv, Clean

\* Where a statement of session t leads, and what it leaves to the other sessions.
LEMMA SessionMoves ==
  ASSUME PlayInv, NEW t \in Threads, SessionStep(t)
  PROVE  /\ pc[t] \notin {"new", "done"} /\ pc'[t] # "new"
         /\ \A u \in Threads : u # t => pc'[u] = pc[u] /\ my'[u] = my[u] /\ spoken'[u] = spoken[u]
         /\ pc[t] = "run" => RunAM(t)
         /\ EnterAM(t) => obj' = NoThread \/ (obj' = t /\ pc'[t] = "run")
         /\ \/ Finish(t) \/ WriteAudio(t)
            \/ pc'[t] # "done" /\ UNCHANGED <<spoken, queue>>
<1>0. /\ pc \in [Threads -> SessionPlaces] /\ my \in [Threads -> Locals] /\ DOMAIN spoken = Threads
  BY Zenon DEF PlayInv, TypeOK, OutTypeOK
<1> USE DEF shared, outVars, trackVars, Throw, Step
<1>1. CASE ReadContent(t) \/ ReplaceContent(t) \/ SplitContent(t) \/ NewTrack(t) \/ FirstPlay(t)
  BY <1>0, <1>1, Zenon DEF ReadContent, ReplaceContent, SplitContent, NewTrack, FirstPlay, EnterAM
<1>2. CASE Finish(t) \/ NextSegment(t) \/ CheckLoaded(t) \/ ReadSpeaker(t) \/ ReadAM(t)
  BY <1>0, <1>2, Zenon DEF Finish, NextSegment, CheckLoaded, ReadSpeaker, ReadAM, EnterAM
<1>3. CASE EnterAM(t) \/ RunAM(t) \/ ReadShape(t) \/ SetMel(t) \/ RunVOC(t)
  BY <1>0, <1>3, Zenon DEF EnterAM, RunAM, ReadShape, SetMel, RunVOC
<1>4. CASE Scan(t) \/ ReadSample(t) \/ CompareSample(t) \/ RaiseMax(t) \/ ReadWave(t)
  BY <1>0, <1>4, Zenon DEF Scan, ReadSample, CompareSample, RaiseMax, ReadWave, EnterAM
<1>5. CASE segToByte(t) \/ FetchAudio(t) \/ WriteAudio(t) \/ PlayAgain(t)
  BY <1>0, <1>5, Zenon DEF segToByte, FetchAudio, WriteAudio, PlayAgain, EnterAM
<1> QED BY <1>1, <1>2, <1>3, <1>4, <1>5, Zenon DEF SessionStep

\* Pausing, stopping and sound touch tracks alone; a track the user touches is cut.
LEMMA OutsideFrame ==
  ASSUME PlayInv,
         pauseAudioTrack \/ flushAudioTrack \/ StopAudioTrack
         \/ (\E a \in Threads : Sound(a)) \/ UNCHANGED vars
  PROVE  /\ UNCHANGED <<predictorVars, asked, overlapped, disturbed, modelVars, outVars, content,
                        pc, my, audioTrack>>
         /\ silenced \subseteq silenced'
         /\ \A a \in Threads : trackState'[a] = trackState[a] \/ a \in silenced'
<1>0. trackState \in [Threads -> {"none", "stopped", "playing", "paused", "released"}]
  BY Zenon DEF PlayInv, TypeOK, TrackTypeOK
<1>1. CASE pauseAudioTrack
  BY <1>0, <1>1, Zenon DEF pauseAudioTrack
<1>2. CASE flushAudioTrack
  BY <1>0, <1>2, Zenon DEF flushAudioTrack
<1>3. CASE StopAudioTrack
  BY <1>0, <1>3, Zenon DEF StopAudioTrack
<1>4. CASE (\E a \in Threads : Sound(a)) \/ UNCHANGED vars
  BY <1>0, <1>4, Zenon DEF Sound, vars, shared, callVars, trackVars
<1> QED BY <1>1, <1>2, <1>3, <1>4, Zenon

\* A model load or release disturbs every session there is.
LEMMA ModelFrame ==
  ASSUME ModelStep
  PROVE  /\ UNCHANGED <<asked, overlapped, modelVars, trackVars, outVars, content, pc, my>>
         /\ disturbed' = disturbed \cup Live
  BY Zenon DEF ModelStep

LEMMA AloneStep == PlayInv /\ AloneInv /\ [Next]_vars => AloneInv'
<1> SUFFICES ASSUME PlayInv, AloneInv, [Next]_vars
             PROVE  AloneInv'
  OBVIOUS
<1>0. /\ pc \in [Threads -> SessionPlaces] /\ obj \in Threads \cup {NoThread}
      /\ NoThread \notin Threads /\ Live \in SUBSET Threads
      /\ asked \in [Threads -> [text : Seq(Items), voice : Speakers]]
  BY SpeakttsAssumption, Zenon DEF PlayInv, TypeOK, CallTypeOK, ModelTypeOK, Live
<1>1. CASE \E t \in Threads, text \in Texts, voice \in Speakers : SpeakText(t, text, voice)
  <2>0. PICK t \in Threads, text \in Texts, voice \in Speakers : SpeakText(t, text, voice)
    BY <1>1, Zenon
  <2>1. /\ pc[t] = "new" /\ pc' = [pc EXCEPT ![t] = "read"]
        /\ UNCHANGED <<my, spoken, obj>>
        /\ overlapped' = overlapped \cup (IF Live = {} THEN {} ELSE Live \cup {t})
        /\ disturbed' = disturbed \cup (IF Quiet THEN {} ELSE {t})
        /\ speakId' = voice /\ asked' = [asked EXCEPT ![t] = [text |-> text, voice |-> voice]]
        /\ UNCHANGED <<AMPredictor, VOCPredictor, isLoaded, ppc>>
    BY <2>0, Zenon DEF SpeakText, modelVars, outVars
  <2>10. pc'[t] = "read" /\ \A u \in Threads : u # t => pc'[u] = pc[u]
    BY <1>0, <2>1, Zenon
  <2>9. Live' = Live \cup {t}
    BY <2>1, <2>10, ZenonT(40) DEF Live
  <2>2. Live' = Live \cup {t} /\ Quiet' = Quiet
    BY <2>1, <2>9, Zenon DEF Quiet, IsLoaded
  <2>3. (obj # NoThread => pc[obj] = "run")'
    BY <1>0, <2>1, Zenon DEF AloneInv
  <2>4. \A u \in Threads : pc'[u] = "new" => my'[u] = NoLocals /\ spoken'[u] = <<>>
    BY <1>0, <2>1, Zenon DEF AloneInv
  <2>5. \A u \in Live' \ overlapped' : u = t /\ Live = {}
    BY <2>1, <2>2, Zenon
  <2>6. asked'[t].voice = voice
    BY <1>0, <2>1, Zenon
  <2>7. \A u \in Live' \ overlapped' : \A v \in Live' : v = u
    BY <2>2, <2>5, Zenon
  <2>8. \A u \in Live' \ (overlapped' \cup disturbed') : Quiet' /\ speakId' = asked'[u].voice
    BY <2>1, <2>2, <2>5, <2>6, Zenon
  <2> QED BY <2>3, <2>4, <2>7, <2>8, Zenon DEF AloneInv
<1>2. CASE ModelStep
  <2>1. Live' = Live
    BY <1>2, ModelFrame, Zenon DEF Live
  <2> QED BY <1>2, <2>1, ModelFrame, Zenon DEF AloneInv, modelVars, outVars
<1>3. CASE pauseAudioTrack \/ flushAudioTrack \/ StopAudioTrack
           \/ (\E a \in Threads : Sound(a)) \/ UNCHANGED vars
  <2>1. UNCHANGED <<predictorVars, asked, overlapped, disturbed, modelVars, outVars, pc, my>>
    BY <1>3, OutsideFrame, Zenon
  <2>2. Live' = Live /\ Quiet' = Quiet
    BY <2>1, Zenon DEF Live, Quiet, IsLoaded, predictorVars
  <2> QED BY <2>1, <2>2, Zenon DEF AloneInv, modelVars, outVars, predictorVars
<1>4. ASSUME NEW t \in Threads, SessionStep(t)
      PROVE  AloneInv'
  <2>1. /\ UNCHANGED <<predictorVars, callVars>>
        /\ pc[t] \notin {"new", "done"} /\ pc'[t] # "new"
        /\ \A u \in Threads : u # t => pc'[u] = pc[u] /\ my'[u] = my[u] /\ spoken'[u] = spoken[u]
    BY <1>4, SessionFrame, SessionMoves, Zenon
  <2>2. Live' \subseteq Live /\ Quiet' = Quiet
    BY <2>1, Zenon DEF Live, Quiet, IsLoaded, predictorVars
  <2>3. obj' = NoThread \/ pc'[obj'] = "run"
    <3>1. CASE EnterAM(t) \/ RunAM(t)
      BY <1>4, <3>1, SessionMoves, Zenon DEF RunAM
    <3>2. CASE ~EnterAM(t) /\ ~RunAM(t)
      <4>1. obj' = obj
        BY <1>4, <3>2, SessionFrame, Zenon DEF modelVars, SetMel, RunVOC, RaiseMax
      <4> QED BY <1>0, <1>4, <2>1, <3>2, <4>1, SessionMoves, Zenon DEF AloneInv
    <3> QED BY <3>1, <3>2, Zenon
  <2>4. \A u \in Threads : pc'[u] = "new" => my'[u] = NoLocals /\ spoken'[u] = <<>>
    BY <2>1, Zenon DEF AloneInv
  <2> QED BY <2>1, <2>2, <2>3, <2>4, Zenon DEF AloneInv, callVars, predictorVars
<1> QED BY <1>1, <1>2, <1>3, <1>4, Zenon DEF Next

LEMMA TrackStep == PlayInv /\ TrackInv /\ [Next]_vars => TrackInv'
<1> SUFFICES ASSUME PlayInv, TrackInv, [Next]_vars
             PROVE  TrackInv'
  OBVIOUS
<1>0. /\ pc \in [Threads -> SessionPlaces] /\ audioTrack \in Threads \cup {NoThread}
      /\ trackState \in [Threads -> {"none", "stopped", "playing", "paused", "released"}]
  BY Zenon DEF PlayInv, TypeOK, TrackTypeOK
<1>1. CASE \E t \in Threads, text \in Texts, voice \in Speakers : SpeakText(t, text, voice)
  <2>1. /\ \A u \in Threads : pc'[u] = "new" => pc[u] = "new"
        /\ UNCHANGED <<audioTrack, trackState, silenced>>
    BY <1>0, <1>1, ZenonT(40) DEF SpeakText, trackVars
  <2> QED BY <1>0, <2>1, Zenon DEF TrackInv
<1>2. CASE ModelStep
  BY <1>2, ModelFrame, Zenon DEF TrackInv, trackVars
<1>3. CASE pauseAudioTrack \/ flushAudioTrack \/ StopAudioTrack
           \/ (\E a \in Threads : Sound(a)) \/ UNCHANGED vars
  BY <1>3, OutsideFrame, Zenon DEF TrackInv
<1>4. ASSUME NEW t \in Threads, SessionStep(t)
      PROVE  TrackInv'
  <2>1. audioTrack' # NoThread => pc'[audioTrack'] # "new"
    BY <1>0, <1>4, SessionFrame, SessionMoves, Zenon DEF TrackInv
  <2>2. silenced' = silenced
    BY <1>4, SessionFrame, Zenon
  <2>3. \A a \in Threads : trackState'[a] = "released" => trackState[a] = "released"
    BY <1>0, <1>4, SessionFrame, Zenon
       DEF NewTrack, FirstPlay, WriteAudio, PlayAgain, Played, trackVars
  <2> QED BY <2>1, <2>2, <2>3, Zenon DEF TrackInv
<1> QED BY <1>1, <1>2, <1>3, <1>4, Zenon DEF Next

Modelling == {"am", "monitor", "run", "voc", "mel", "vocoder", "scan", "sample", "compare",
              "raise", "wave", "convert"}

\* Synthesizing and Scaling speak of the places of runSegmentModel and after it;
\* on the way there the piece, the track and what was written stay.
Keeps(t) ==
  /\ my'[t].segmentText = my[t].segmentText
  /\ my'[t].index = my[t].index /\ my'[t].phones = my[t].phones

LEMMA Silent ==
  ASSUME NEW t
  PROVE  /\ pc'[t] \notin Cleaning => Reading(t)'
         /\ pc'[t] \notin Modelling => Synthesizing(t)'
         /\ pc'[t] \notin Modelling \cup {"fetch", "write"} => Scaling(t)'
         /\ pc'[t] \in {"am", "monitor", "run", "voc", "mel", "vocoder"} => Scaling(t)'
<1>1. pc'[t] \notin Cleaning => Reading(t)'
  BY Zenon DEF Cleaning, Reading
<1>2. pc'[t] \notin Modelling => Synthesizing(t)'
  BY Zenon DEF Modelling, Synthesizing
<1>3. /\ pc'[t] \notin Modelling \cup {"fetch", "write"} => Scaling(t)'
      /\ pc'[t] \in {"am", "monitor", "run", "voc", "mel", "vocoder"} => Scaling(t)'
  BY Zenon DEF Modelling, Scaling
<1> QED BY <1>1, <1>2, <1>3, Zenon

LEMMA Steadily ==
  ASSUME NEW t, Knows(t), Keeps(t), spoken'[t] = spoken[t],
         pc[t] \notin Between \cup {"play"}, pc'[t] \notin Between \cup {"play"},
         UNCHANGED <<callVars, trackVars>>
  PROVE  Reading(t)' /\ Walking(t)' /\ Saying(t)' /\ Sounding(t)'
<1>1. pc[t] \notin Cleaning /\ pc'[t] \notin Cleaning /\ pc[t] \notin Early /\ pc'[t] \notin Early
      /\ pc[t] \notin {"track", "done", "play"} /\ pc'[t] \notin {"track", "done", "play"}
  BY Zenon DEF Cleaning, Early, Between
<1>2. asked' = asked
  BY Zenon DEF callVars
<1>3. Walking(t)'
  BY <1>1, <1>2, Zenon DEF Knows, Walking, Keeps
<1>4. Saying(t)'
  BY <1>1, <1>2, Zenon DEF Knows, Saying, Keeps
<1>5. Sounding(t)'
  BY <1>1, Zenon DEF Knows, Sounding, trackVars
<1> QED BY <1>1, <1>3, <1>4, <1>5, Silent, Zenon

\* What is so whenever a session takes a step by itself.
LEMMA OwnFacts ==
  ASSUME PlayInv, AloneInv, NEW t \in Threads, Clean(t), pc[t] # "done"
  PROVE  /\ Quiet /\ speakId = asked[t].voice
         /\ \A u \in Threads : pc[u] \notin {"new", "done"} => u = t
         /\ obj # NoThread => pc[t] = "run"
         /\ my[t] \in Locals /\ my[t].phones \in Seq(Phones) /\ my[t].index \in Nat \ {0}
         /\ my[t].sample \in Nat \ {0} /\ my[t].value \in Nat
         /\ asked[t].text \in Seq(Items) /\ asked[t].voice \in Speakers
<1>1. t \in Live \ (overlapped \cup disturbed) /\ t \in Live \ overlapped
  BY Zenon DEF Live, Clean
<1>2. my[t] \in Locals /\ asked[t] \in [text : Seq(Items), voice : Speakers]
  BY Zenon DEF PlayInv, TypeOK, CallTypeOK
<1>3. obj \in Threads \cup {NoThread}
  BY Zenon DEF PlayInv, TypeOK, ModelTypeOK
<1>4. \A u \in Threads : pc[u] \notin {"new", "done"} => u = t
  BY <1>1, Zenon DEF AloneInv, Live
<1>5. obj # NoThread => pc[t] = "run"
  BY <1>3, <1>4, Zenon DEF AloneInv
<1>6. my[t].phones \in Seq(Phones) /\ my[t].index \in Nat \ {0}
      /\ my[t].sample \in Nat \ {0} /\ my[t].value \in Nat
  BY <1>2, Zenon DEF Locals
<1> QED BY <1>1, <1>2, <1>4, <1>5, <1>6, Zenon DEF AloneInv

\* The statements from CheckLoaded to FetchAudio in a session that is alone.
LEMMA ModelKnows ==
  ASSUME PlayInv, AloneInv, TextTypes, TextSteps, NEW t \in Threads, SessionStep(t),
         Clean(t), Knows(t), pc[t] \notin Between \cup {"write", "play"}
  PROVE  Knows(t)' /\ crash' = "none"
<1> DEFINE l == my[t]
           voice == asked[t].voice
           wave == Wave(l.phones, voice)
           Steady == /\ Keeps(t) /\ spoken'[t] = spoken[t] /\ UNCHANGED trackVars
                     /\ pc'[t] \notin Between \cup {"play"}
<1>0. /\ pc \in [Threads -> SessionPlaces] /\ my \in [Threads -> Locals] /\ l \in Locals
      /\ spoken \in [Threads -> Seq([chunk : Chunks, to : Threads \cup {NoThread}])]
      /\ amOutput \in [1 .. MaxLoads -> Waves] /\ vocInput \in [1 .. MaxLoads -> Waves]
      /\ maxwav \in Nat /\ Loud \in [Phones -> Nat]
  BY SpeakttsAssumption, Zenon DEF PlayInv, TypeOK, ModelTypeOK, OutTypeOK
<1>00. pc[t] # "done"
  BY Zenon DEF Between
<1>01. /\ Quiet /\ speakId = voice /\ AMPredictor # NoModel /\ VOCPredictor # NoModel
       /\ \A u \in Threads : pc[u] \notin {"new", "done"} => u = t
       /\ obj # NoThread => pc[t] = "run"
       /\ l.phones \in Seq(Phones) /\ l.sample \in Nat \ {0} /\ l.value \in Nat
       /\ voice \in Speakers
  BY <1>00, OwnFacts, Zenon DEF Quiet, IsLoaded
<1>02. UNCHANGED <<predictorVars, callVars>> /\ asked' = asked
  BY SessionFrame, Zenon DEF callVars
<1>03. Synthesizing(t) /\ Scaling(t) /\ Walking(t) /\ Sounding(t)
  BY Zenon DEF Knows
<1>04. ASSUME Steady, Synthesizing(t)', Scaling(t)' PROVE Knows(t)'
  BY <1>02, <1>04, Steadily, Zenon DEF Knows
<1>05. wave.phones = l.phones /\ wave.voice = voice
  BY ZenonT(40) DEF Wave
<1>06. \A j \in DOMAIN l.phones : j \in Nat /\ Loud[l.phones[j]] \in Nat
  BY SMTT(30), <1>0, <1>01
<1> HIDE DEF l
<1> USE DEF shared, Throw, Step, Keeps, Between
<1>1. CASE CheckLoaded(t)
  <2>1. Steady /\ pc'[t] = "speaker" /\ crash' = crash /\ crash = "none"
    BY <1>0, <1>01, <1>1 DEF CheckLoaded, outVars, Quiet
  <2> QED BY <1>04, <2>1, Silent, Zenon DEF Modelling
<1>2. CASE ReadSpeaker(t)
  <2>1. Steady /\ pc'[t] = "am" /\ crash' = "none" /\ my'[t].voice = speakId
    BY <1>0, <1>2 DEF ReadSpeaker, outVars, Locals, l
  <2>2. Synthesizing(t)'
    BY <1>01, <1>02, <2>1, Zenon DEF Synthesizing
  <2> QED BY <1>04, <2>1, <2>2, Silent, Zenon
<1>3. CASE ReadAM(t)
  <2>1. /\ Steady /\ pc[t] = "am" /\ pc'[t] = "monitor" /\ crash' = "none"
        /\ my'[t].am = AMPredictor /\ my'[t].voice = my[t].voice
    BY <1>0, <1>3 DEF ReadAM, outVars, Locals, l
  <2>2. Synthesizing(t)'
    BY <1>01, <1>02, <1>03, <2>1, Zenon DEF Synthesizing
  <2> QED BY <1>04, <2>1, <2>2, Silent, Zenon
<1>4. CASE EnterAM(t)
  <2>0. pc[t] = "monitor" /\ my[t].am # NoModel
    BY <1>03, <1>4, Zenon DEF EnterAM, Synthesizing
  <2>1. Steady /\ pc'[t] = "run" /\ crash' = "none" /\ my' = my
    BY <1>0, <1>4, <2>0 DEF EnterAM, outVars
  <2>2. Synthesizing(t)'
    BY <1>02, <1>03, <2>0, <2>1, Zenon DEF Synthesizing
  <2> QED BY <1>04, <2>1, <2>2, Silent, Zenon
<1>5. CASE RunAM(t)
  <2>0. pc[t] = "run" /\ my[t].am.load \in 1 .. MaxLoads /\ my[t].voice = voice
    BY <1>03, <1>5, ModelLoads, Zenon DEF RunAM, Synthesizing
  <2>1. Steady /\ pc'[t] = "voc" /\ crash' = "none" /\ my' = my
    BY <1>0, <1>5 DEF RunAM, outVars
  <2>2. amOutput'[my[t].am.load] = wave
    BY <1>0, <1>5, <2>0, Zenon DEF RunAM, l
  <2>3. Synthesizing(t)'
    BY <1>02, <2>1, <2>2, Zenon DEF Synthesizing, l
  <2> QED BY <1>04, <2>1, <2>3, Silent, Zenon
<1>6. CASE ReadShape(t)
  <2>0. pc[t] = "voc" /\ amOutput[my[t].am.load] = wave
    BY <1>03, <1>6, Zenon DEF ReadShape, Synthesizing, l
  <2>1. Steady /\ pc'[t] = "mel" /\ crash' = "none" /\ my'[t].am = my[t].am
    BY <1>0, <1>01, <1>6 DEF ReadShape, outVars, Locals, l
  <2>2. my'[t].shape = Len(amOutput[my[t].am.load].phones) /\ amOutput' = amOutput
    BY <1>0, <1>6 DEF ReadShape, modelVars, Locals, l
  <2>3. my'[t].shape = Len(l.phones)
    BY <1>05, <2>0, <2>2
  <2>4. Synthesizing(t)'
    BY <1>02, <2>0, <2>1, <2>2, <2>3, Zenon DEF Synthesizing, l
  <2> QED BY <1>04, <2>1, <2>4, Silent, Zenon
<1>7. CASE SetMel(t)
  <2>0. /\ pc[t] = "mel" /\ amOutput[my[t].am.load] = wave /\ my[t].shape = Len(l.phones)
        /\ my[t].voc.load \in 1 .. MaxLoads /\ obj = NoThread
    BY <1>01, <1>03, <1>7, ModelLoads, ZenonT(40) DEF SetMel, Synthesizing, l
  <2>1. Steady /\ pc'[t] = "vocoder" /\ crash' = "none" /\ my' = my
    BY SMTT(30), <1>0, <1>7 DEF SetMel, outVars
  <2>2. Len(amOutput[my[t].am.load].phones) = my[t].shape
    BY <1>05, <2>0
  <2>3. vocInput' = [vocInput EXCEPT ![my[t].voc.load] = amOutput[my[t].am.load]]
    BY <1>7, <2>0, <2>2, Zenon DEF SetMel
  <2>4. vocInput'[my[t].voc.load] = wave
    BY <1>0, <2>0, <2>3, Zenon
  <2>5. Synthesizing(t)'
    BY <1>02, <2>1, <2>4, Zenon DEF Synthesizing, l
  <2> QED BY <1>04, <2>1, <2>5, Silent, Zenon
<1>8. CASE RunVOC(t)
  <2>0. pc[t] = "vocoder" /\ vocInput[my[t].voc.load] = wave
    BY <1>03, <1>8, Zenon DEF RunVOC, Synthesizing, l
  <2>1. Steady /\ pc'[t] = "scan" /\ crash' = "none" /\ my'[t].sample = 1
    BY <1>0, <1>8 DEF RunVOC, outVars, Locals, l
  <2>2. singlewav' = wave
    BY <1>01, <1>8, <2>0, Zenon DEF RunVOC
  <2>3. Synthesizing(t)'
    BY <1>02, <2>1, <2>2, Zenon DEF Synthesizing, l
  <2>4. FitsBefore(l.phones, 1, maxwav')
    BY <1>01 DEF FitsBefore
  <2>5. Scaling(t)'
    BY <2>1, <2>4, Zenon DEF Scaling, l
  <2> QED BY <1>04, <2>1, <2>3, <2>5, Zenon
<1>9. CASE Scan(t)
  <2>0. pc[t] = "scan" /\ singlewav = wave /\ FitsBefore(l.phones, l.sample, maxwav)
    BY <1>03, <1>9, ZenonT(40) DEF Scan, Synthesizing, Scaling, l
  <2>1. /\ Steady /\ crash' = "none" /\ my' = my /\ maxwav' = maxwav /\ singlewav' = singlewav
        /\ pc'[t] = IF l.sample > Len(l.phones) THEN "wave" ELSE "sample"
    BY <1>0, <1>9, <1>05, <2>0 DEF Scan, outVars, modelVars, l
  <2>2. Synthesizing(t)'
    BY <1>02, <2>0, <2>1, ZenonT(40) DEF Synthesizing, l
  <2>3. l.sample > Len(l.phones) => Fits(l.phones, maxwav)
    BY <1>01, <2>0 DEF Fits, FitsBefore
  <2>4. ~ (l.sample > Len(l.phones)) => l.sample <= Len(l.phones)
    BY <1>01
  <2>5. Scaling(t)'
    BY <2>0, <2>1, <2>3, <2>4, Zenon DEF Scaling, l
  <2> QED BY <1>04, <2>1, <2>2, <2>5, Zenon
<1>10. CASE ReadSample(t)
  <2>0. /\ pc[t] = "sample" /\ singlewav = wave /\ FitsBefore(l.phones, l.sample, maxwav)
        /\ l.sample <= Len(l.phones)
    BY <1>03, <1>10, ZenonT(40) DEF ReadSample, Synthesizing, Scaling, l
  <2>01. ~ (l.sample > Len(singlewav.phones)) /\ singlewav.phones = l.phones
    BY SMTT(30), <1>01, <1>05, <2>0
  <2>1. /\ Steady /\ crash' = "none" /\ pc'[t] = "compare" /\ maxwav' = maxwav
        /\ singlewav' = singlewav /\ my'[t].value = Loud[l.phones[l.sample]]
        /\ my'[t].sample = l.sample
    BY <1>0, <1>10, <2>01 DEF ReadSample, outVars, modelVars, Locals, l
  <2>2. Synthesizing(t)'
    BY <1>02, <2>0, <2>1, Zenon DEF Synthesizing, l
  <2>3. Scaling(t)'
    BY <2>0, <2>1, Zenon DEF Scaling, l
  <2> QED BY <1>04, <2>1, <2>2, <2>3, Zenon
<1>11. CASE CompareSample(t)
  <2>0. /\ pc[t] = "compare" /\ singlewav = wave /\ FitsBefore(l.phones, l.sample, maxwav)
        /\ l.sample <= Len(l.phones) /\ l.value = Loud[l.phones[l.sample]]
    BY <1>03, <1>11, Zenon DEF CompareSample, Synthesizing, Scaling, l
  <2>1. /\ Steady /\ crash' = "none" /\ maxwav' = maxwav /\ singlewav' = singlewav
        /\ pc'[t] = IF l.value > maxwav THEN "raise" ELSE "scan"
        /\ my'[t].sample = IF l.value > maxwav THEN l.sample ELSE l.sample + 1
        /\ my'[t].value = l.value
    BY <1>0, <1>11 DEF CompareSample, Louder, outVars, modelVars, Locals, l
  <2>2. Synthesizing(t)'
    BY <1>02, <2>0, <2>1, ZenonT(40) DEF Synthesizing, l
  <2>3. ~ (l.value > maxwav) => FitsBefore(l.phones, l.sample + 1, maxwav)
    BY SMTT(30), <1>0, <1>01, <2>0 DEF FitsBefore
  <2>4. Scaling(t)'
    BY <2>0, <2>1, <2>3, Zenon DEF Scaling, l
  <2> QED BY <1>04, <2>1, <2>2, <2>4, Zenon
<1>12. CASE RaiseMax(t)
  <2>0. /\ pc[t] = "raise" /\ singlewav = wave /\ FitsBefore(l.phones, l.sample, maxwav)
        /\ l.value = Loud[l.phones[l.sample]] /\ l.value > maxwav
    BY <1>03, <1>12, Zenon DEF RaiseMax, Synthesizing, Scaling, l
  <2>1. /\ Steady /\ crash' = "none" /\ pc'[t] = "scan" /\ maxwav' = l.value
        /\ singlewav' = singlewav /\ my'[t].sample = l.sample + 1
    BY <1>0, <1>12 DEF RaiseMax, outVars, Locals, l
  <2>2. Synthesizing(t)'
    BY <1>02, <2>0, <2>1, Zenon DEF Synthesizing, l
  <2>3. FitsBefore(l.phones, l.sample + 1, l.value)
    <3>1. \A j \in DOMAIN l.phones : j < l.sample + 1 => j < l.sample \/ j = l.sample
      BY SMTT(30), <1>01, <1>06
    <3>2. \A j \in DOMAIN l.phones : Loud[l.phones[j]] <= maxwav => Loud[l.phones[j]] <= l.value
      BY SMTT(30), <1>0, <1>01, <1>06, <2>0
    <3>3. l.value <= l.value
      BY <1>01
    <3> QED BY <2>0, <3>1, <3>2, <3>3, Zenon DEF FitsBefore
  <2>4. Scaling(t)'
    BY <2>1, <2>3, Zenon DEF Scaling, l
  <2> QED BY <1>04, <2>1, <2>2, <2>4, Zenon
<1>13. CASE ReadWave(t)
  <2>0. pc[t] = "wave" /\ singlewav = wave /\ Fits(l.phones, maxwav)
    BY <1>03, <1>13, Zenon DEF ReadWave, Synthesizing, Scaling, l
  <2>01. l.phones # <<>>
    <3>1. /\ l.index \in Inked(asked[t].text)
          /\ l.phones = ft(Trim(Pieces(asked[t].text)[l.index]))
      BY <1>03, Zenon DEF Walking, l
    <3>2. Pieces(asked[t].text) \in Seq(Seq(Items))
      BY <1>00, OwnFacts, Zenon DEF TextSteps
    <3>3. Pieces(asked[t].text)[l.index] \in Seq(Items)
      BY <3>1, <3>2 DEF Inked
    <3> QED BY <3>1, <3>3, Zenon DEF TextTypes
  <2>02. singlewav # NoWave
    <3>1. NoWave.phones = <<>>
      BY Zenon DEF NoWave, Wave
    <3> QED BY <1>05, <2>0, <2>01, <3>1
  <2>1. /\ Steady /\ crash' = "none" /\ pc'[t] = "convert" /\ maxwav' = maxwav
        /\ my'[t].wav = singlewav
    BY <1>0, <1>13, <2>02 DEF ReadWave, outVars, modelVars, Locals, l
  <2>2. Synthesizing(t)'
    BY <1>02, <2>0, <2>1, Zenon DEF Synthesizing, l
  <2>3. Scaling(t)'
    BY <2>0, <2>1, Zenon DEF Scaling, l
  <2> QED BY <1>04, <2>1, <2>2, <2>3, Zenon
<1>14. CASE segToByte(t)
  <2>0. pc[t] = "convert" /\ l.wav = wave /\ Fits(l.phones, maxwav)
    BY <1>03, <1>14, Zenon DEF segToByte, Synthesizing, Scaling, l
  <2>1. /\ Steady /\ crash' = "none" /\ pc'[t] = "fetch" /\ audioData' = Chunk(l.wav, maxwav)
        /\ my' = my
    BY <1>0, <1>14 DEF segToByte, l
  <2>2. Good(audioData', l.phones, voice)
    <3>1. audioData'.phones = l.wav.phones /\ audioData'.voice = l.wav.voice
          /\ audioData'.scale = maxwav
      BY <2>1, ZenonT(40) DEF Chunk
    <3>2. l.wav.phones = l.phones /\ l.wav.voice = voice
      BY <1>05, <2>0
    <3> QED BY <2>0, <3>1, <3>2, Zenon DEF Good
  <2>3. Scaling(t)'
    BY <1>02, <2>1, <2>2, Zenon DEF Scaling, l
  <2> QED BY <1>04, <2>1, <2>3, Silent, Zenon DEF Modelling
<1>15. CASE FetchAudio(t)
  <2>0. pc[t] = "fetch" /\ Good(audioData, l.phones, voice) /\ audioTrack = t
    BY <1>03, <1>15, Zenon DEF FetchAudio, Scaling, Sounding, Cleaning, l
  <2>1. /\ Steady /\ crash' = "none" /\ pc'[t] = "write" /\ my'[t].buf = audioData
        /\ my'[t].track = audioTrack
    BY <1>0, <1>15 DEF FetchAudio, outVars, Locals, l
  <2>3. Scaling(t)'
    BY <1>02, <2>0, <2>1, Zenon DEF Scaling, l
  <2> QED BY <1>04, <2>1, <2>3, Silent, Zenon DEF Modelling
<1>16. ~ (\/ ReadContent(t) \/ ReplaceContent(t) \/ SplitContent(t) \/ NewTrack(t)
          \/ FirstPlay(t) \/ Finish(t) \/ NextSegment(t) \/ WriteAudio(t) \/ PlayAgain(t))
  BY Zenon DEF ReadContent, ReplaceContent, SplitContent, NewTrack, FirstPlay, Finish, NextSegment,
               WriteAudio, PlayAgain
<1> QED BY <1>1, <1>2, <1>3, <1>4, <1>5, <1>6, <1>7, <1>8, <1>9, <1>10, <1>11, <1>12, <1>13,
           <1>14, <1>15, <1>16, ZenonT(40) DEF SessionStep

\* The other statements in a session that is alone; only play() on a track that the
\* user has released throws.
LEMMA TextKnows ==
  ASSUME PlayInv, AloneInv, TextTypes, TextSteps, NEW t \in Threads, SessionStep(t),
         Clean(t), Knows(t), pc[t] \in Between \cup {"write", "play"}
  PROVE  Knows(t)' /\ (crash' # "none" => trackState'[t] = "released")
<1> DEFINE l == my[t]
           text == asked[t].text
           voice == asked[t].voice
           n == Len(Pieces(text))
           Keeping == Keeps(t) /\ spoken' = spoken
           Mute == pc'[t] \in Between \cup {"check", "play"}
<1>0. /\ pc \in [Threads -> SessionPlaces] /\ my \in [Threads -> Locals] /\ l \in Locals
      /\ spoken \in [Threads -> Seq([chunk : Chunks, to : Threads \cup {NoThread}])]
      /\ trackState \in [Threads -> {"none", "stopped", "playing", "paused", "released"}]
      /\ Placed(pc[t], l)
  BY Zenon DEF PlayInv, TypeOK, TrackTypeOK, OutTypeOK
<1>00. pc[t] # "done"
  BY SessionMoves, ZenonT(40)
<1>01. /\ l.index \in Nat \ {0} /\ l.round \in 0 .. Len(charSplit) + 1 /\ Len(charSplit) \in Nat
       /\ text \in Seq(Items) /\ n \in Nat /\ DOMAIN Pieces(text) = 1 .. n
  <2>1. text \in Seq(Items) /\ l.index \in Nat \ {0} /\ l.round \in 0 .. Len(charSplit) + 1
    BY <1>0, <1>00, OwnFacts, Zenon DEF Locals
  <2>2. Pieces(text) \in Seq(Seq(Items)) /\ charSplit \in Seq(Items)
    BY <2>1, SpeakttsAssumption, Zenon DEF TextSteps
  <2> QED BY <2>1, <2>2
<1>02. asked' = asked /\ silenced' = silenced
  BY SessionFrame, Zenon DEF callVars
<1>03. Reading(t) /\ Walking(t) /\ Saying(t) /\ Sounding(t) /\ Scaling(t)
  BY Zenon DEF Knows
<1>04. ASSUME Mute, Reading(t)', Walking(t)', Saying(t)', Sounding(t)' PROVE Knows(t)'
  <2>1. pc'[t] \notin Modelling \cup {"fetch", "write"}
    BY <1>04, Zenon DEF Between, Modelling
  <2> QED BY <1>04, <2>1, Silent, Zenon DEF Knows
<1>05. ASSUME Keeping, pc[t] # "play", pc'[t] # "play" PROVE Saying(t)'
  BY <1>02, <1>03, <1>05, Zenon DEF Saying, Keeps
<1>06. l.index - 1 \in Nat
  BY <1>01
<1>07. /\ SaidBy(text, l.index) = SaidBy(text, l.index - 1) + (IF l.index \in Inked(text) THEN 1 ELSE 0)
       /\ SaidBy(text, l.index - 1) \in 0 .. Len(Expected(text))
  BY <1>01, <1>06, Zenon DEF TextSteps
<1> HIDE DEF l, n
<1> USE DEF shared, Throw, Step, Keeps, Between, Cleaning, Early
<1>1. CASE ReadContent(t)
  <2>1. /\ Keeping /\ pc[t] = "read" /\ pc'[t] = "replace" /\ crash' = "none"
        /\ my'[t].tmp = content /\ my'[t].round = my[t].round
    BY <1>0, <1>1 DEF ReadContent, outVars, Locals, l
  <2>2. Reading(t)'
    BY <1>02, <1>03, <2>1, Zenon DEF Reading
  <2>3. Walking(t)' /\ Sounding(t)'
    BY <2>1, Zenon DEF Walking, Sounding
  <2> QED BY <1>04, <1>05, <2>1, <2>2, <2>3, Zenon
<1>2. CASE ReplaceContent(t)
  <2>0. pc[t] = "replace" /\ l.tmp = Worked(text, l.round) /\ l.index = 1 /\ l.round <= Len(charSplit)
    BY <1>0, <1>03, <1>2, Zenon DEF ReplaceContent, Reading, Placed, l
  <2>1. /\ Keeping /\ crash' = "none" /\ my'[t].round = l.round + 1
        /\ pc'[t] = IF l.round = Len(charSplit) THEN "split" ELSE "read"
        /\ content' = IF l.round = 0 THEN StripNewlines(l.tmp) ELSE ReplaceBy(l.tmp, charSplit[l.round])
    BY <1>0, <1>2 DEF ReplaceContent, outVars, Locals, l
  <2>2. content' = Worked(text, l.round + 1)
    <3>1. CASE l.round = 0
      <4>1. l.tmp = text /\ l.round + 1 = 1
        BY <2>0, <3>1 DEF Worked
      <4> QED BY <1>01, <2>1, <3>1, <4>1, Zenon DEF TextSteps
    <3>2. CASE l.round # 0
      <4>1. l.round \in 1 .. Len(charSplit)
        BY <1>01, <2>0, <3>2
      <4> QED BY <1>01, <2>0, <2>1, <3>2, <4>1, Zenon DEF TextSteps
    <3> QED BY <3>1, <3>2, Zenon
  <2>3. l.round = Len(charSplit) => content' = Cleaned(text)
    BY <1>01, <2>2, Zenon DEF TextSteps
  <2>4. Reading(t)'
    BY <1>02, <2>0, <2>1, <2>2, <2>3, Zenon DEF Reading, l
  <2>5. Walking(t)' /\ Sounding(t)'
    BY <2>1, Zenon DEF Walking, Sounding
  <2> QED BY <1>04, <1>05, <2>0, <2>1, <2>4, <2>5, Zenon
<1>3. CASE SplitContent(t)
  <2>0. pc[t] = "split" /\ content = Cleaned(text) /\ l.index = 1
    BY <1>03, <1>3, Zenon DEF SplitContent, Reading, l
  <2>1. /\ pc'[t] = "track" /\ crash' = "none" /\ spoken' = spoken
        /\ my'[t].segmentText = SplitAtCommas(content) /\ my'[t].index = l.index
    BY <1>0, <1>3 DEF SplitContent, outVars, Locals, l
  <2>2. 1 <= n + 1
    BY <1>01
  <2>3. Walking(t)'
    BY <1>02, <2>0, <2>1, <2>2, Zenon DEF Walking, Pieces, n
  <2>4. Saying(t)'
    BY <1>02, <1>03, <2>0, <2>1, Zenon DEF Saying, l
  <2>5. Reading(t)' /\ Sounding(t)'
    BY <2>1, Zenon DEF Reading, Sounding
  <2> QED BY <1>04, <2>1, <2>3, <2>4, <2>5, Zenon
<1>4. CASE NewTrack(t)
  <2>1. /\ Keeping /\ pc[t] = "track" /\ pc'[t] = "firstPlay" /\ crash' = "none"
        /\ audioTrack' = t
    BY <1>0, <1>4 DEF NewTrack, outVars
  <2>2. Walking(t)'
    BY <1>02, <1>03, <2>1, Zenon DEF Walking
  <2>3. Reading(t)' /\ Sounding(t)'
    BY <2>1, Zenon DEF Reading, Sounding
  <2> QED BY <1>04, <1>05, <2>1, <2>2, <2>3, Zenon
<1>5. CASE FirstPlay(t)
  <2>0. pc[t] = "firstPlay" /\ audioTrack = t
    BY <1>03, <1>5, Zenon DEF FirstPlay, Sounding
  <2>1. /\ Keeping /\ audioTrack' = t /\ trackState' = Played(t)
        /\ pc'[t] = IF trackState[t] = "released" THEN "firstPlay" ELSE "loop"
        /\ crash' = IF trackState[t] = "released" THEN "play" ELSE "none"
    BY <1>0, <1>5, <2>0 DEF FirstPlay, outVars
  <2>2. trackState'[t] = IF trackState[t] = "released" THEN "released" ELSE "playing"
    BY <1>0, <2>1, Zenon DEF Played
  <2>3. Walking(t)'
    BY <1>02, <1>03, <2>0, <2>1, Zenon DEF Walking
  <2>4. Reading(t)' /\ Sounding(t)'
    BY <2>1, <2>2, Zenon DEF Reading, Sounding
  <2>5. pc[t] # "play" /\ pc'[t] # "play" /\ Mute
    BY <2>0, <2>1, Zenon
  <2> QED BY <1>04, <1>05, <2>1, <2>2, <2>3, <2>4, <2>5, Zenon
<1>6. CASE Finish(t)
  <2>1. /\ Keeping /\ pc[t] = "loop" /\ pc'[t] = "done" /\ crash' = "none"
        /\ l.index > Len(l.segmentText)
    BY <1>0, <1>6 DEF Finish, l
  <2>2. Walking(t)'
    BY <1>02, <1>03, <2>1, Zenon DEF Walking, l
  <2>3. Reading(t)' /\ Sounding(t)'
    BY <2>1, Zenon DEF Reading, Sounding
  <2> QED BY <1>04, <1>05, <2>1, <2>2, <2>3, Zenon
<1>7. CASE NextSegment(t)
  <2> DEFINE str == Trim(l.segmentText[l.index])
  <2>0. /\ pc[t] = "loop" /\ l.segmentText = Pieces(text) /\ l.index <= n
        /\ Len(spoken[t]) = SaidBy(text, l.index - 1)
    BY <1>03, <1>7, ZenonT(40) DEF NextSegment, Walking, Saying, n, l
  <2>01. l.index \in 1 .. n /\ (l.index \in Inked(text) <=> str # <<>>)
    BY <1>01, <2>0 DEF Inked
  <2>1. /\ spoken' = spoken /\ crash' = "none" /\ UNCHANGED <<audioTrack, trackState>>
        /\ pc'[t] = IF str = <<>> THEN "loop" ELSE "check"
        /\ my' = IF str = <<>> THEN [my EXCEPT ![t].index = @ + 1] ELSE [my EXCEPT ![t].phones = ft(str)]
    BY <1>0, <1>7 DEF NextSegment, outVars, trackVars, l
  <2> HIDE DEF str
  <2>2. Sounding(t)'
    BY <1>02, <1>03, <2>0, <2>1, Zenon DEF Sounding
  <2>3. Reading(t)' /\ Mute
    BY <2>1, Zenon DEF Reading
  <2>4. CASE str = <<>>
    <3>1. my'[t].segmentText = l.segmentText /\ my'[t].index = l.index + 1
      BY <1>0, <2>1, <2>4 DEF Locals, l
    <3>2. l.index + 1 <= n + 1 /\ l.index + 1 - 1 = l.index
      BY SMTT(30), <1>01, <2>0
    <3>3. SaidBy(text, l.index) = SaidBy(text, l.index - 1) /\ my'[t].index - 1 = l.index
      BY <1>07, <2>01, <2>4, <3>1, <3>2
    <3>4. Walking(t)'
      BY <1>02, <2>0, <2>1, <2>4, <3>1, <3>2, Zenon DEF Walking, n
    <3>5. Saying(t)'
      BY <1>02, <1>03, <2>0, <2>1, <2>4, <3>3, ZenonT(40) DEF Saying
    <3> QED BY <1>04, <2>1, <2>2, <2>3, <3>4, <3>5, ZenonT(40)
  <2>5. CASE str # <<>>
    <3>1. my'[t].segmentText = l.segmentText /\ my'[t].index = l.index /\ my'[t].phones = ft(str)
      BY <1>0, <2>1, <2>5 DEF Locals, l
    <3>2. l.index <= n + 1
      BY <1>01, <2>0
    <3>3. Walking(t)'
      BY <1>02, <2>0, <2>01, <2>1, <2>5, <3>1, <3>2, Zenon DEF Walking, n, str
    <3>4. Saying(t)'
      BY <1>02, <1>03, <2>0, <2>1, <2>5, <3>1, Zenon DEF Saying, l
    <3> QED BY <1>04, <2>1, <2>2, <2>3, <3>3, <3>4, Zenon
  <2> QED BY <2>4, <2>5, Zenon
<1>8. CASE WriteAudio(t)
  <2> DEFINE entry == [chunk |-> l.buf, to |-> l.track]
             k == Len(spoken[t]) + 1
  <2>0. /\ pc[t] = "write" /\ Good(l.buf, l.phones, voice) /\ l.track = t
        /\ l.index \in Inked(text) /\ l.phones = ft(Trim(Pieces(text)[l.index]))
        /\ Len(spoken[t]) = SaidBy(text, l.index - 1)
    BY <1>03, <1>8, Zenon DEF WriteAudio, Scaling, Walking, Saying, l
  <2>1. /\ pc'[t] = "play" /\ crash' = "none" /\ my' = my /\ UNCHANGED <<audioTrack, trackState>>
        /\ spoken'[t] = Append(spoken[t], entry)
    BY <1>0, <1>8, Zenon DEF WriteAudio, l
  <2>2. entry.chunk = l.buf /\ entry.to = l.track
    BY Zenon
  <2> HIDE DEF entry
  <2>3. /\ Len(spoken'[t]) = k /\ spoken'[t][k] = entry /\ DOMAIN spoken'[t] = DOMAIN spoken[t] \cup {k}
        /\ \A j \in DOMAIN spoken[t] : spoken'[t][j] = spoken[t][j]
    <3>1. spoken[t] \in Seq([chunk : Chunks, to : Threads \cup {NoThread}])
      BY <1>0, ZenonT(40)
    <3> QED BY <2>1, <3>1
  <2>4. k = SaidBy(text, l.index)
    BY <1>07, <2>0
  <2> HIDE DEF k
  <2>5. Expected(text)[k] = l.phones
    BY <1>01, <2>0, <2>4, Zenon DEF TextSteps
  <2>6. Right(entry, t, Expected(text)[k], voice)
    BY <2>0, <2>2, <2>5, Zenon DEF Right
  <2>7. Saying(t)'
    BY <1>02, <1>03, <2>1, <2>3, <2>4, <2>6, Zenon DEF Saying, l
  <2>8. Walking(t)'
    BY <1>02, <1>03, <2>0, <2>1, Zenon DEF Walking, l
  <2>9. Reading(t)' /\ Sounding(t)'
    BY <1>02, <1>03, <2>0, <2>1, Zenon DEF Reading, Sounding
  <2> QED BY <1>04, <2>1, <2>7, <2>8, <2>9, ZenonT(40)
<1>9. CASE PlayAgain(t)
  <2>0. /\ pc[t] = "play" /\ audioTrack = t /\ (trackState[t] = "playing" \/ t \in silenced)
        /\ l.segmentText = Pieces(text) /\ l.index \in Inked(text)
        /\ Len(spoken[t]) = SaidBy(text, l.index)
    BY <1>03, <1>9, Zenon DEF PlayAgain, Walking, Saying, Sounding, l
  <2>1. /\ pc'[t] = "loop" /\ crash' = "none" /\ spoken' = spoken /\ audioTrack' = audioTrack
        /\ trackState' = Played(t)
        /\ my'[t].segmentText = l.segmentText /\ my'[t].index = l.index + 1
    BY <1>0, <1>9, <2>0 DEF PlayAgain, outVars, Locals, l
  <2>2. l.index \in 1 .. n
    BY <1>01, <2>0, ZenonT(40) DEF Inked
  <2>3. l.index + 1 <= n + 1 /\ my'[t].index - 1 = l.index
    BY SMTT(30), <1>01, <2>1, <2>2
  <2>4. Walking(t)'
    BY <1>02, <2>0, <2>1, <2>3, Zenon DEF Walking, n
  <2>5. Saying(t)'
    BY <1>02, <1>03, <2>0, <2>1, <2>3, Zenon DEF Saying
  <2>6. trackState'[t] = "playing" \/ t \in silenced
    BY <1>0, <2>0, <2>1, Zenon DEF Played
  <2>7. Reading(t)' /\ Sounding(t)'
    BY <1>02, <2>0, <2>1, <2>6, Zenon DEF Reading, Sounding
  <2> QED BY <1>04, <2>1, <2>4, <2>5, <2>7, Zenon
<1>10. ~ (\/ CheckLoaded(t) \/ ReadSpeaker(t) \/ ReadAM(t) \/ EnterAM(t) \/ RunAM(t)
          \/ ReadShape(t) \/ SetMel(t) \/ RunVOC(t) \/ Scan(t) \/ ReadSample(t)
          \/ CompareSample(t) \/ RaiseMax(t) \/ ReadWave(t) \/ segToByte(t) \/ FetchAudio(t))
  BY Zenon DEF CheckLoaded, ReadSpeaker, ReadAM, EnterAM, RunAM, ReadShape, SetMel, RunVOC, Scan,
               ReadSample, CompareSample, RaiseMax, ReadWave, segToByte, FetchAudio
<1> QED BY <1>1, <1>2, <1>3, <1>4, <1>5, <1>6, <1>7, <1>8, <1>9, <1>10, ZenonT(40) DEF SessionStep

\* A session that is done is left as it is.
LEMMA DoneKnows ==
  ASSUME NEW t, Knows(t), pc[t] = "done", pc'[t] = "done", my'[t] = my[t],
         asked'[t] = asked[t], spoken'[t] = spoken[t]
  PROVE  Knows(t)'
<1>1. Reading(t)' /\ Synthesizing(t)' /\ Scaling(t)'
  BY Silent, Zenon DEF Cleaning, Modelling
<1>2. Walking(t)'
  BY Zenon DEF Knows, Walking, Between
<1>3. Saying(t)'
  BY Zenon DEF Knows, Saying
<1>4. Sounding(t)'
  BY Zenon DEF Sounding
<1> QED BY <1>1, <1>2, <1>3, <1>4, Zenon DEF Knows

LEMMA FirstKnows ==
  ASSUME PlayInv, AloneInv, TextSteps, NEW t \in Threads, NEW text \in Texts, NEW voice \in Speakers,
         SpeakText(t, text, voice)
  PROVE  Knows(t)'
<1>1. /\ pc'[t] = "read" /\ my'[t] = NoLocals /\ spoken'[t] = <<>> /\ content' = text
      /\ asked'[t].text = text
  <2>1. /\ pc \in [Threads -> SessionPlaces]
        /\ asked \in [Threads -> [text : Seq(Items), voice : Speakers]]
    BY Zenon DEF PlayInv, TypeOK, CallTypeOK
  <2> QED BY <2>1, Zenon DEF SpeakText, AloneInv, outVars
<1>2. NoLocals.round = 0 /\ NoLocals.index = 1
  BY Zenon DEF NoLocals
<1>3. text \in Seq(Items)
  BY SpeakttsAssumption, Zenon
<1>4. Worked(text, 0) = text
  BY Zenon DEF Worked
<1>5. SaidBy(text, 0) = 0 /\ Len(<<>>) = 0 /\ DOMAIN <<>> = {} /\ 1 - 1 = 0
  <2>1. SaidBy(text, 0) = 0
    BY <1>3, Zenon DEF TextSteps
  <2> QED BY <2>1
<1>6. Reading(t)'
  BY <1>1, <1>2, <1>4, Zenon DEF Reading
<1>7. Saying(t)'
  BY <1>1, <1>2, <1>5, Zenon DEF Saying
<1>8. Walking(t)' /\ Sounding(t)'
  BY <1>1, Zenon DEF Walking, Sounding, Cleaning, Between, Early
<1>9. Synthesizing(t)' /\ Scaling(t)'
  BY <1>1, Silent, Zenon DEF Modelling
<1> QED BY <1>6, <1>7, <1>8, <1>9, Zenon DEF Knows

LEMMA OutsideKnows ==
  ASSUME NEW t \in Threads, Knows(t),
         UNCHANGED <<asked, modelVars, outVars, content, pc, my, audioTrack>>,
         silenced \subseteq silenced',
         \A a \in Threads : trackState'[a] = trackState[a] \/ a \in silenced'
  PROVE  Knows(t)'
<1>1. Reading(t)' /\ Walking(t)'
  BY Zenon DEF Knows, Reading, Walking
<1>0. UNCHANGED <<amOutput, vocInput, singlewav, maxwav, audioData>>
  BY Zenon DEF modelVars, outVars
<1>2. Synthesizing(t)'
  BY <1>0, Zenon DEF Knows, Synthesizing
<1>4. Scaling(t)'
  BY <1>0, ZenonT(40) DEF Knows, Scaling
<1>3. Saying(t)' /\ Sounding(t)'
  BY Zenon DEF Knows, Saying, Sounding, outVars
<1> QED BY <1>1, <1>2, <1>3, <1>4, Zenon DEF Knows

\* Whatever happens, a clean session knows what it should, and one that dies was not
\* clean or lost its track.
LEMMA CleanStep ==
  ASSUME PlayInv, AloneInv, TextTypes, TextSteps, CleanInv, [Next]_vars
  PROVE  CleanInv'
<1> SUFFICES ASSUME NEW t \in Threads, Clean(t)'
             PROVE  Knows(t)'
  BY Zenon DEF CleanInv
<1>0. /\ pc \in [Threads -> SessionPlaces] /\ my \in [Threads -> Locals]
      /\ asked \in [Threads -> [text : Seq(Items), voice : Speakers]]
  BY Zenon DEF PlayInv, TypeOK, CallTypeOK
<1>1. ASSUME NEW u \in Threads, NEW text \in Texts, NEW voice \in Speakers, SpeakText(u, text, voice)
      PROVE  Knows(t)'
  <2>1. CASE t = u
    BY <1>1, <2>1, FirstKnows, Zenon
  <2>2. CASE t # u
    <3>1. /\ pc'[t] = pc[t] /\ my' = my /\ asked'[t] = asked[t] /\ spoken' = spoken
          /\ overlapped' = overlapped \cup (IF Live = {} THEN {} ELSE Live \cup {u})
          /\ disturbed \subseteq disturbed'
      BY <1>0, <1>1, <2>2, Zenon DEF SpeakText, outVars
    <3>2. Clean(t) /\ t \notin Live
      BY <3>1, Zenon DEF Clean
    <3>3. pc[t] = "done"
      BY <3>2, Zenon DEF Clean, Live
    <3> QED BY <3>1, <3>2, <3>3, DoneKnows, Zenon DEF CleanInv
  <2> QED BY <2>1, <2>2, Zenon
<1>2. CASE ModelStep
  <2>1. UNCHANGED <<asked, overlapped, outVars, pc, my>> /\ disturbed' = disturbed \cup Live
    BY <1>2, ModelFrame, Zenon
  <2>2. Clean(t) /\ t \notin Live
    BY <2>1, Zenon DEF Clean
  <2>3. pc[t] = "done"
    BY <2>2, Zenon DEF Clean, Live
  <2> QED BY <2>1, <2>2, <2>3, DoneKnows, Zenon DEF CleanInv, outVars
<1>3. CASE pauseAudioTrack \/ flushAudioTrack \/ StopAudioTrack
           \/ (\E a \in Threads : Sound(a)) \/ UNCHANGED vars
  <2>1. Clean(t)
    BY <1>3, OutsideFrame, Zenon DEF Clean
  <2> QED BY <1>3, <2>1, OutsideFrame, OutsideKnows, Zenon DEF CleanInv
<1>4. ASSUME NEW u \in Threads, SessionStep(u)
      PROVE  Knows(t)'
  <2>1. /\ UNCHANGED callVars /\ pc[u] \notin {"new", "done"} /\ pc'[u] # "new"
        /\ \A v \in Threads : v # u => pc'[v] = pc[v] /\ my'[v] = my[v] /\ spoken'[v] = spoken[v]
    BY <1>4, SessionFrame, SessionMoves, Zenon
  <2>2. Clean(t)
    BY <2>1, Zenon DEF Clean, callVars
  <2>3. CASE t = u
    BY <1>4, <2>2, <2>3, ModelKnows, TextKnows, Zenon DEF CleanInv
  <2>4. CASE t # u
    <3>1. pc[t] = "done"
      BY <2>1, <2>2, <2>4, OwnFacts, Zenon
    <3> QED BY <2>1, <2>2, <2>4, <3>1, DoneKnows, Zenon DEF CleanInv, callVars
  <2> QED BY <2>3, <2>4, Zenon
<1> QED BY <1>1, <1>2, <1>3, <1>4, Zenon DEF Next

LEMMA CrashStep ==
  ASSUME PlayInv, AloneInv, TextTypes, TextSteps, CleanInv, CleanUseNeverCrashes, [Next]_vars
  PROVE  CleanUseNeverCrashes'
<1>1. CASE \E t \in Threads, text \in Texts, voice \in Speakers : SpeakText(t, text, voice)
  BY <1>1, Zenon DEF SpeakText, UIFree, CleanUseNeverCrashes
<1>2. CASE ModelStep
  BY <1>2, Zenon DEF ModelStep, CleanUseNeverCrashes
<1>3. CASE pauseAudioTrack
  <2>1. audioTrack \in Threads
    BY <1>3, Zenon DEF pauseAudioTrack, PlayInv, TypeOK, TrackTypeOK
  <2> QED BY <1>3, <2>1, Zenon DEF pauseAudioTrack, UIFree, CleanUseNeverCrashes
<1>4. CASE flushAudioTrack \/ StopAudioTrack \/ \E a \in Threads : Sound(a)
  BY <1>4, Zenon DEF flushAudioTrack, StopAudioTrack, Sound, UIFree, CleanUseNeverCrashes
<1>5. ASSUME NEW t \in Threads, SessionStep(t)
      PROVE  CleanUseNeverCrashes'
  <2>1. CASE Clean(t)
    BY <1>5, <2>1, ModelKnows, TextKnows, Zenon DEF CleanInv, CleanUseNeverCrashes
  <2>2. CASE ~Clean(t)
    <3>1. overlapped' # {} \/ disturbed' # {}
      BY <1>5, <2>2, SessionMoves, SessionFrame, Zenon DEF Clean, callVars
    <3> QED BY <3>1, Zenon DEF CleanUseNeverCrashes
  <2> QED BY <2>1, <2>2, Zenon
<1>6. CASE UNCHANGED vars
  BY <1>6, Zenon DEF vars, shared, callVars, trackVars, CleanUseNeverCrashes
<1> QED BY <1>1, <1>2, <1>3, <1>4, <1>5, <1>6, Zenon DEF Next
=============================================================================
