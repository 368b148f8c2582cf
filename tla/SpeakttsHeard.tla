---------------------------- MODULE SpeakttsHeard ----------------------------
(***************************************************************************)
(* Proofs about the player, third part: whatever sessions run at once,     *)
(* texts, waves and chunks that pass from one to another through the       *)
(* statics come from texts that were asked for.  What is drawn from a text *)
(* is a hypothesis here (DrawnSteps), which SpeakttsText proves.           *)
(***************************************************************************)
EXTENDS SpeakttsSteps

\* Phones that may be heard, and what may be in content, given the places of the
\* sessions and what they were asked.
Known(phones, place, calls) ==
  \/ phones = <<Noise>>
  \/ \E u \in Threads : place[u] # "new" /\ Stretch(phones, calls[u].text)

FromText(c, place, calls) ==
  \E u \in Threads : place[u] # "new" /\ Drawn(c, calls[u].text)

Pieced(pieces, place, calls) ==
  \A n \in DOMAIN pieces : Trim(pieces[n]) # <<>> => Known(ft(Trim(pieces[n])), place, calls)

\* What session t has read of a text,
Reads(t) ==
  /\ pc[t] = "replace" => FromText(my[t].tmp, pc, asked)
  /\ pc[t] \notin Cleaning \cup {"new"} => Pieced(my[t].segmentText, pc, asked)
  /\ pc[t] \notin Between => Known(my[t].phones, pc, asked)

\* and what it will take out of a tensor, a static or a local.
Takes(t) ==
  /\ pc[t] \in {"voc", "mel"} => Known(amOutput[my[t].am.load].phones, pc, asked)
  /\ pc[t] = "vocoder" => Known(vocInput[my[t].voc.load].phones, pc, asked)
  /\ pc[t] = "convert" => Known(my[t].wav.phones, pc, asked)
  /\ pc[t] = "fetch" => Known(audioData.phones, pc, asked)
  /\ pc[t] = "write" => Known(my[t].buf.phones, pc, asked)

Tracks(queues, place, calls) ==
  \A a \in Threads : \A n \in DOMAIN queues[a] : Known(queues[a][n].phones, place, calls)

HeardInv ==
  /\ \A t \in Threads : pc[t] # "new" => FromText(content, pc, asked)
  /\ singlewav = NoWave \/ Known(singlewav.phones, pc, asked)
  /\ Tracks(queue, pc, asked) /\ Tracks(heard, pc, asked)
  /\ \A t \in Threads : Reads(t) /\ Takes(t)

LEMMA HeardInit == Init => HeardInv
<1> SUFFICES ASSUME Init PROVE HeardInv
  OBVIOUS
<1>1. \A t \in Threads : pc[t] = "new" /\ queue[t] = <<>> /\ heard[t] = <<>>
  BY Zenon DEF Init
<1>2. singlewav = NoWave
  BY Zenon DEF Init
<1>3. \A t \in Threads : Reads(t) /\ Takes(t)
  BY <1>1, Zenon DEF Reads, Takes, Between, Cleaning
<1>4. \A n : n \notin DOMAIN <<>>
  OBVIOUS
<1> QED BY <1>1, <1>2, <1>3, <1>4, Zenon DEF HeardInv, Tracks

\* What was asked for stays asked for.
LEMMA Lasting ==
  ASSUME PlayInv, [Next]_vars
  PROVE  /\ \A u \in Threads : pc[u] # "new" => pc'[u] # "new" /\ asked'[u] = asked[u]
         /\ \A phones : Known(phones, pc, asked) => Known(phones, pc', asked')
         /\ \A c : FromText(c, pc, asked) => FromText(c, pc', asked')
         /\ \A pieces : Pieced(pieces, pc, asked) => Pieced(pieces, pc', asked')
<1>0. /\ pc \in [Threads -> SessionPlaces]
      /\ asked \in [Threads -> [text : Seq(Items), voice : Speakers]]
  BY Zenon DEF PlayInv, TypeOK, CallTypeOK
<1>4. ASSUME NEW t \in Threads, SessionStep(t), NEW u \in Threads, pc[u] # "new"
      PROVE  pc'[u] # "new" /\ asked'[u] = asked[u]
  BY <1>4, SessionFrame, SessionMoves, Zenon DEF callVars
<1>5. \A u \in Threads : pc[u] # "new" => pc'[u] # "new" /\ asked'[u] = asked[u]
  <2> SUFFICES ASSUME NEW u \in Threads, pc[u] # "new"
               PROVE  pc'[u] # "new" /\ asked'[u] = asked[u]
    OBVIOUS
  <2>1. CASE \E t \in Threads, text \in Texts, voice \in Speakers : SpeakText(t, text, voice)
    BY <1>0, <2>1, Zenon DEF SpeakText
  <2>2. CASE ModelStep
    BY <2>2, ModelFrame, Zenon
  <2>3. CASE pauseAudioTrack \/ flushAudioTrack \/ StopAudioTrack
             \/ (\E a \in Threads : Sound(a)) \/ UNCHANGED vars
    BY <2>3, OutsideFrame, Zenon
  <2>4. CASE \E t \in Threads : SessionStep(t)
    BY <1>4, <2>4, Zenon
  <2> QED BY <2>1, <2>2, <2>3, <2>4, Zenon DEF Next
<1>6. \A phones : Known(phones, pc, asked) => Known(phones, pc', asked')
  BY <1>5, Zenon DEF Known
<1>7. \A c : FromText(c, pc, asked) => FromText(c, pc', asked')
  BY <1>5, Zenon DEF FromText
<1>8. \A pieces : Pieced(pieces, pc, asked) => Pieced(pieces, pc', asked')
  BY <1>6, Zenon DEF Pieced
<1> QED BY <1>5, <1>6, <1>7, <1>8, Zenon

\* Everything shared is as it was, or new and asked for.
Flows ==
  /\ \A t \in Threads : pc'[t] # "new" => FromText(content', pc', asked')
  /\ singlewav' = singlewav \/ Known(singlewav'.phones, pc', asked')
  /\ \A l \in 1 .. MaxLoads :
       /\ amOutput'[l] = amOutput[l] \/ Known(amOutput'[l].phones, pc', asked')
       /\ vocInput'[l] = vocInput[l] \/ Known(vocInput'[l].phones, pc', asked')
  /\ audioData' = audioData \/ Known(audioData'.phones, pc', asked')
  /\ Tracks(queue', pc', asked') /\ Tracks(heard', pc', asked')

\* Then a session that does not move knows what it knew.
LEMMA OthersKeep ==
  ASSUME PlayInv, HeardInv, [Next]_vars, Flows, NEW u \in Threads, pc'[u] = pc[u], my'[u] = my[u]
  PROVE  Reads(u)' /\ Takes(u)'
<1>0. Reads(u) /\ Takes(u)
  BY Zenon DEF HeardInv
<1>1. /\ \A phones : Known(phones, pc, asked) => Known(phones, pc', asked')
      /\ \A c : FromText(c, pc, asked) => FromText(c, pc', asked')
      /\ \A pieces : Pieced(pieces, pc, asked) => Pieced(pieces, pc', asked')
  BY Lasting, Zenon
<1>2. Reads(u)'
  BY <1>0, <1>1, Zenon DEF Reads
<1>3. /\ pc[u] \in {"voc", "mel"} => my[u].am.load \in 1 .. MaxLoads
      /\ pc[u] = "vocoder" => my[u].voc.load \in 1 .. MaxLoads
  BY ModelLoads, Zenon
<1>4. pc[u] \in {"voc", "mel"} => Known(amOutput'[my[u].am.load].phones, pc', asked')
  BY <1>0, <1>1, <1>3, Zenon DEF Takes, Flows
<1>5. pc[u] = "vocoder" => Known(vocInput'[my[u].voc.load].phones, pc', asked')
  BY <1>0, <1>1, <1>3, Zenon DEF Takes, Flows
<1>6. pc[u] = "fetch" => Known(audioData'.phones, pc', asked')
  BY <1>0, <1>1, Zenon DEF Takes, Flows
<1>7. Takes(u)'
  BY <1>0, <1>1, <1>4, <1>5, <1>6, Zenon DEF Takes
<1> QED BY <1>2, <1>7, Zenon

\* Statements behind the cleaning, which leave the pieces alone and give new phones
\* only at the head of the loop.
LEMMA ReadsOn ==
  ASSUME PlayInv, HeardInv, [Next]_vars, NEW t \in Threads,
         pc[t] \notin Cleaning \cup {"new"}, pc'[t] \notin Cleaning,
         my'[t].segmentText = my[t].segmentText,
         pc'[t] \in Between \/ (pc[t] \notin Between /\ my'[t].phones = my[t].phones)
  PROVE  Reads(t)'
<1>1. Reads(t)
  BY Zenon DEF HeardInv
<1>2. pc'[t] # "replace"
  BY Zenon DEF Cleaning
<1> QED BY <1>1, <1>2, Lasting, Zenon DEF Reads

\* A place that takes nothing.
LEMMA TakesNothing ==
  ASSUME NEW t, pc'[t] \notin {"voc", "mel", "vocoder", "convert", "fetch", "write"}
  PROVE  Takes(t)'
  BY Zenon DEF Takes

LEMMA SessionFlows ==
  ASSUME PlayInv, HeardInv, DrawnSteps, [Next]_vars, NEW t \in Threads, SessionStep(t)
  PROVE  Flows /\ Reads(t)' /\ Takes(t)'
<1> DEFINE l == my[t]
           Same == /\ my'[t].segmentText = l.segmentText
                   /\ pc[t] \notin Cleaning \cup {"new"} /\ pc'[t] \notin Cleaning
                   /\ pc'[t] \in Between \/ (pc[t] \notin Between /\ my'[t].phones = l.phones)
<1>0. /\ pc \in [Threads -> SessionPlaces] /\ my \in [Threads -> Locals] /\ l \in Locals
      /\ content \in Seq(Items) /\ queue \in [Threads -> Seq(Chunks)]
      /\ amOutput \in [1 .. MaxLoads -> Waves] /\ vocInput \in [1 .. MaxLoads -> Waves]
      /\ \A u \in Threads : asked[u].text \in Seq(Items)
  BY Zenon DEF PlayInv, TypeOK, CallTypeOK, ModelTypeOK, TrackTypeOK
<1>1. /\ \A phones : Known(phones, pc, asked) => Known(phones, pc', asked')
      /\ \A c : FromText(c, pc, asked) => FromText(c, pc', asked')
      /\ \A pieces : Pieced(pieces, pc, asked) => Pieced(pieces, pc', asked')
  BY Lasting, Zenon
<1>2. Reads(t) /\ Takes(t)
  BY Zenon DEF HeardInv
<1>3. pc[t] # "new" /\ \A u \in Threads : pc'[u] # "new" => pc[u] # "new"
  BY SessionMoves, Zenon
<1>4. FromText(content, pc, asked) /\ asked' = asked
  BY <1>3, SessionFrame, Zenon DEF HeardInv, callVars
<1>5. ASSUME \/ ReplaceContent(t) /\ FromText(content', pc', asked')
             \/ content' = content,
             \/ singlewav' = singlewav
             \/ Known(singlewav'.phones, pc', asked'),
             \/ amOutput' = amOutput
             \/ \A k \in 1 .. MaxLoads : amOutput'[k] = amOutput[k] \/ Known(amOutput'[k].phones, pc', asked'),
             \/ vocInput' = vocInput
             \/ \A k \in 1 .. MaxLoads : vocInput'[k] = vocInput[k] \/ Known(vocInput'[k].phones, pc', asked'),
             \/ audioData' = audioData
             \/ Known(audioData'.phones, pc', asked'),
             \/ queue' = queue
             \/ Tracks(queue', pc', asked')
      PROVE  Flows
  <2>1. heard' = heard
    BY SessionFrame, Zenon
  <2>2. Tracks(queue', pc', asked') /\ Tracks(heard', pc', asked')
    BY <1>1, <1>5, <2>1, Zenon DEF HeardInv, Tracks
  <2>3. FromText(content', pc', asked')
    BY <1>1, <1>4, <1>5, Zenon
  <2> QED BY <1>5, <2>2, <2>3, Zenon DEF Flows
<1>6. ASSUME Same PROVE Reads(t)'
  BY <1>6, ReadsOn, Zenon
<1>7. ASSUME content' = content, UNCHANGED modelVars, UNCHANGED <<audioData, queue>>
      PROVE  Flows
  BY <1>5, <1>7, Zenon DEF modelVars
<1> USE DEF shared, Throw, Step, Between, Cleaning, outVars, trackVars
<1>8. CASE ReadContent(t)
  <2>1. pc'[t] = "replace" /\ my'[t].tmp = content
    BY SMTT(30), <1>0, <1>8 DEF ReadContent, Locals, l
  <2>2. Reads(t)'
    BY <1>1, <1>4, <2>1, Zenon DEF Reads
  <2>3. Flows
    BY <1>7, <1>8, Zenon DEF ReadContent
  <2> QED BY <2>1, <2>2, <2>3, TakesNothing, Zenon
<1>9. CASE ReplaceContent(t)
  <2>1. /\ pc[t] = "replace" /\ pc'[t] \in {"read", "split"}
        /\ content' = StripNewlines(l.tmp) \/ \E x : content' = ReplaceBy(l.tmp, x)
        /\ UNCHANGED <<modelVars, audioData, queue>>
    BY <1>0, <1>9, Zenon DEF ReplaceContent
  <2>2. PICK u \in Threads : pc[u] # "new" /\ Drawn(l.tmp, asked[u].text)
    BY <1>2, <2>1, Zenon DEF Reads, FromText
  <2>3. l.tmp \in Seq(Items)
    BY <1>0, Zenon DEF Locals
  <2>4. Drawn(content', asked[u].text)
    BY <1>0, <2>1, <2>2, <2>3, Zenon DEF DrawnSteps
  <2>5. FromText(content', pc', asked')
    BY <2>2, <2>4, Lasting, Zenon DEF FromText
  <2>6. Flows
    BY <1>5, <1>9, <2>1, <2>5, Zenon DEF modelVars
  <2>7. Reads(t)'
    BY <2>1, Zenon DEF Reads
  <2> QED BY <2>1, <2>6, <2>7, TakesNothing, Zenon
<1>10. CASE SplitContent(t)
  <2>1. pc'[t] = "track" /\ my'[t].segmentText = SplitAtCommas(content)
    BY SMTT(30), <1>0, <1>10 DEF SplitContent, Locals, l
  <2>2. PICK u \in Threads : pc[u] # "new" /\ Drawn(content, asked[u].text)
    BY <1>4, Zenon DEF FromText
  <2>3. \A n \in DOMAIN SplitAtCommas(content) :
          Trim(SplitAtCommas(content)[n]) # <<>> => Stretch(ft(Trim(SplitAtCommas(content)[n])), asked[u].text)
    BY <1>0, <2>2, Zenon DEF DrawnSteps
  <2>4. Pieced(SplitAtCommas(content), pc, asked)
    BY <2>2, <2>3, Zenon DEF Pieced, Known
  <2>5. Reads(t)'
    BY <1>1, <2>1, <2>4, Zenon DEF Reads
  <2>6. Flows
    BY <1>7, <1>10, Zenon DEF SplitContent
  <2> QED BY <2>1, <2>5, <2>6, TakesNothing, Zenon
<1>11. CASE NewTrack(t) \/ FirstPlay(t)
  <2>1. Same /\ pc'[t] \in {"firstPlay", "loop"}
    BY <1>0, <1>11, Zenon DEF NewTrack, FirstPlay
  <2>2. Flows
    BY <1>7, <1>11, Zenon DEF NewTrack, FirstPlay
  <2> QED BY <1>6, <2>1, <2>2, TakesNothing, Zenon
<1>12. CASE Finish(t)
  <2>1. Same /\ pc'[t] = "done"
    BY <1>0, <1>12, Zenon DEF Finish
  <2>2. Flows
    BY <1>7, <1>12, Zenon DEF Finish
  <2> QED BY <1>6, <2>1, <2>2, TakesNothing, Zenon
<1>13. CASE NextSegment(t)
  <2> DEFINE str == Trim(l.segmentText[l.index])
  <2>1. /\ pc[t] = "loop" /\ my'[t].segmentText = l.segmentText
        /\ \/ pc'[t] = "loop"
           \/ pc'[t] = "check" /\ my'[t].phones = ft(str) /\ str # <<>>
    BY SMTT(30), <1>0, <1>13 DEF NextSegment, Locals, l
  <2>2. l.index \in DOMAIN l.segmentText
    <3>1. l.index <= Len(l.segmentText)
      BY <1>13, Zenon DEF NextSegment
    <3> QED BY <1>0, <3>1 DEF Locals
  <2>3. str # <<>> => Known(ft(str), pc', asked')
    BY <1>1, <1>2, <2>1, <2>2, Zenon DEF Reads, Pieced
  <2>4. Reads(t)'
    BY <1>1, <1>2, <2>1, <2>3, Zenon DEF Reads
  <2>5. Flows
    BY <1>7, <1>13, Zenon DEF NextSegment
  <2> QED BY <2>1, <2>4, <2>5, TakesNothing, Zenon
<1>14. CASE CheckLoaded(t) \/ Scan(t)
  <2>1. Same /\ pc'[t] \in {"speaker", "wave", "sample"}
    BY <1>0, <1>14, Zenon DEF CheckLoaded, Scan
  <2>2. Flows
    BY <1>7, <1>14, Zenon DEF CheckLoaded, Scan
  <2> QED BY <1>6, <2>1, <2>2, TakesNothing, Zenon
<1>15. CASE ReadSpeaker(t) \/ ReadAM(t)
  <2>1. Same /\ pc'[t] \in {"am", "monitor"}
    <3>1. CASE ReadSpeaker(t)
      BY <1>0, <3>1, SMTT(30) DEF ReadSpeaker, Locals, l
    <3>2. CASE ReadAM(t)
      BY <1>0, <3>2, SMTT(30) DEF ReadAM, Locals, l
    <3> QED BY <1>15, <3>1, <3>2, Zenon
  <2>2. Flows
    BY <1>7, <1>15, Zenon DEF ReadSpeaker, ReadAM
  <2> QED BY <1>6, <2>1, <2>2, TakesNothing, Zenon
<1>16. CASE ReadSample(t) \/ CompareSample(t)
  <2>1. Same /\ pc'[t] \in {"sample", "compare", "raise", "scan"}
    <3>1. CASE ReadSample(t)
      BY <1>0, <3>1, SMTT(30) DEF ReadSample, Locals, l
    <3>2. CASE CompareSample(t)
      BY <1>0, <3>2, SMTT(30) DEF CompareSample, Locals, l
    <3> QED BY <1>16, <3>1, <3>2, Zenon
  <2>2. Flows
    BY <1>7, <1>16, Zenon DEF ReadSample, CompareSample
  <2> QED BY <1>6, <2>1, <2>2, TakesNothing, Zenon
<1>17. CASE EnterAM(t)
  <2>1. Same /\ pc'[t] \in {"monitor", "run"}
    BY <1>0, <1>17, Zenon DEF EnterAM
  <2>2. Flows
    BY <1>5, <1>17, Zenon DEF EnterAM
  <2> QED BY <1>6, <2>1, <2>2, TakesNothing, Zenon
<1>18. CASE RaiseMax(t)
  <2>1. Same /\ pc'[t] = "scan"
    BY SMTT(30), <1>0, <1>18 DEF RaiseMax, Locals, l
  <2>2. Flows
    BY <1>5, <1>18, Zenon DEF RaiseMax
  <2> QED BY <1>6, <2>1, <2>2, TakesNothing, Zenon
<1>19. CASE RunAM(t)
  <2>1. Same /\ pc[t] = "run" /\ pc'[t] = "voc" /\ my' = my
    BY <1>0, <1>19, Zenon DEF RunAM
  <2>2. l.am.load \in 1 .. MaxLoads /\ Known(l.phones, pc', asked')
    BY <1>1, <1>2, <2>1, ModelLoads, Zenon DEF Reads
  <2>3. Wave(l.phones, l.voice).phones = l.phones
    BY Zenon DEF Wave
  <2>4. /\ amOutput'[l.am.load].phones = l.phones
        /\ \A k \in 1 .. MaxLoads : k # l.am.load => amOutput'[k] = amOutput[k]
    BY <1>0, <1>19, <2>2, <2>3, Zenon DEF RunAM
  <2>5. Flows
    BY <1>5, <1>19, <2>2, <2>4, Zenon DEF RunAM
  <2>6. Takes(t)'
    BY <2>1, <2>2, <2>4, Zenon DEF Takes
  <2> QED BY <1>6, <2>1, <2>5, <2>6, Zenon
<1>20. CASE ReadShape(t)
  <2>1. Same /\ pc[t] = "voc" /\ pc'[t] \in {"voc", "mel"} /\ my'[t].am = l.am /\ amOutput' = amOutput
    BY SMTT(30), <1>0, <1>20 DEF ReadShape, modelVars, Locals, l
  <2>2. Flows
    BY <1>7, <1>20, Zenon DEF ReadShape
  <2>3. Takes(t)'
    BY <1>1, <1>2, <2>1, Zenon DEF Takes
  <2> QED BY <1>6, <2>1, <2>2, <2>3, Zenon
<1>21. CASE SetMel(t)
  <2>1. Same /\ pc[t] = "mel" /\ pc'[t] = "vocoder" /\ my' = my
    BY <1>0, <1>21, Zenon DEF SetMel
  <2>2. l.voc.load \in 1 .. MaxLoads
    BY <2>1, ModelLoads, Zenon
  <2>3. NoiseWave.phones = <<Noise>>
    BY Zenon DEF NoiseWave, Wave
  <2>4. /\ vocInput'[l.voc.load] \in {NoiseWave, amOutput[l.am.load]}
        /\ \A k \in 1 .. MaxLoads : k # l.voc.load => vocInput'[k] = vocInput[k]
    BY <1>0, <1>21, <2>2, Zenon DEF SetMel
  <2>5. Known(vocInput'[l.voc.load].phones, pc', asked')
    BY <1>1, <1>2, <2>1, <2>3, <2>4, Zenon DEF Takes, Known
  <2>6. Flows
    BY <1>5, <1>21, <2>4, <2>5, Zenon DEF SetMel
  <2>7. Takes(t)'
    BY <2>1, <2>5, Zenon DEF Takes
  <2> QED BY <1>6, <2>1, <2>6, <2>7, Zenon
<1>22. CASE RunVOC(t)
  <2>1. Same /\ pc[t] = "vocoder" /\ pc'[t] = "scan"
    BY SMTT(30), <1>0, <1>22 DEF RunVOC, Locals, l
  <2>2. NoiseWave.phones = <<Noise>>
    BY Zenon DEF NoiseWave, Wave
  <2>3. singlewav' \in {NoiseWave, vocInput[l.voc.load]}
    BY <1>22, Zenon DEF RunVOC
  <2>4. Known(singlewav'.phones, pc', asked')
    BY <1>1, <1>2, <2>1, <2>2, <2>3, Zenon DEF Takes, Known
  <2>5. Flows
    BY <1>5, <1>22, <2>4, Zenon DEF RunVOC
  <2> QED BY <1>6, <2>1, <2>5, TakesNothing, Zenon
<1>23. CASE ReadWave(t)
  <2>1. /\ Same /\ my'[t].wav = singlewav
        /\ pc'[t] = "wave" \/ (pc'[t] = "convert" /\ singlewav # NoWave)
    BY SMTT(30), <1>0, <1>23 DEF ReadWave, Locals, l
  <2>2. Flows
    BY <1>7, <1>23, Zenon DEF ReadWave
  <2>3. Takes(t)'
    BY <1>1, <2>1, Zenon DEF Takes, HeardInv
  <2> QED BY <1>6, <2>1, <2>2, <2>3, Zenon
<1>24. CASE segToByte(t)
  <2>1. Same /\ pc[t] = "convert" /\ pc'[t] = "fetch" /\ audioData' = Chunk(l.wav, maxwav)
    BY <1>0, <1>24, Zenon DEF segToByte
  <2>2. Chunk(l.wav, maxwav).phones = l.wav.phones
    BY Zenon DEF Chunk
  <2>3. Known(audioData'.phones, pc', asked')
    BY <1>1, <1>2, <2>1, <2>2, Zenon DEF Takes
  <2>4. Flows
    BY <1>5, <1>24, <2>3, Zenon DEF segToByte, modelVars
  <2>5. Takes(t)'
    BY <2>1, <2>3, Zenon DEF Takes
  <2> QED BY <1>6, <2>1, <2>4, <2>5, Zenon
<1>25. CASE FetchAudio(t)
  <2>1. Same /\ pc[t] = "fetch" /\ pc'[t] = "write" /\ my'[t].buf = audioData
    BY SMTT(30), <1>0, <1>25 DEF FetchAudio, Locals, l
  <2>2. Flows
    BY <1>7, <1>25, Zenon DEF FetchAudio
  <2>3. Takes(t)'
    BY <1>1, <1>2, <2>1, Zenon DEF Takes
  <2> QED BY <1>6, <2>1, <2>2, <2>3, Zenon
<1>26. CASE WriteAudio(t)
  <2>1. Same /\ pc[t] = "write" /\ pc'[t] = "play"
    BY <1>0, <1>26, Zenon DEF WriteAudio
  <2>2. queue' = queue \/ queue' = [queue EXCEPT ![l.track] = Append(queue[l.track], l.buf)]
    BY <1>26, Zenon DEF WriteAudio
  <2>3. Known(l.buf.phones, pc', asked')
    BY <1>1, <1>2, <2>1, Zenon DEF Takes
  <2>4. Tracks(queue, pc', asked')
    BY <1>1, Zenon DEF HeardInv, Tracks
  <2>5. ASSUME NEW a \in Threads, NEW n \in DOMAIN queue'[a]
        PROVE  Known(queue'[a][n].phones, pc', asked')
    <3>1. CASE queue'[a] = queue[a]
      BY <2>4, <2>5, <3>1, Zenon DEF Tracks
    <3>2. CASE queue'[a] = Append(queue[a], l.buf)
      <4>1. queue[a] \in Seq(Chunks)
        BY <1>0, Zenon
      <4>2. \/ (n \in DOMAIN queue[a] /\ queue'[a][n] = queue[a][n])
            \/ queue'[a][n] = l.buf
        <5> HIDE DEF l
        <5> QED BY <2>5, <3>2, <4>1
      <4> QED BY <2>3, <2>4, <4>2, Zenon DEF Tracks
    <3> QED BY <1>0, <2>2, <3>1, <3>2, Zenon
  <2>6. Tracks(queue', pc', asked')
    BY <2>5, Zenon DEF Tracks
  <2>7. Flows
    BY <1>5, <1>26, <2>6, Zenon DEF WriteAudio, modelVars
  <2> QED BY <1>6, <2>1, <2>7, TakesNothing, Zenon
<1>27. CASE PlayAgain(t)
  <2>1. Same /\ pc'[t] = "loop"
    BY SMTT(30), <1>0, <1>27 DEF PlayAgain, Locals, l
  <2>2. Flows
    BY <1>7, <1>27, Zenon DEF PlayAgain
  <2> QED BY <1>6, <2>1, <2>2, TakesNothing, Zenon
<1> QED
  BY <1>8, <1>9, <1>10, <1>11, <1>12, <1>13, <1>14, <1>15, <1>16, <1>17, <1>18, <1>19, <1>20,
     <1>21, <1>22, <1>23, <1>24, <1>25, <1>26, <1>27, Zenon DEF SessionStep

\* The other steps bring nothing new but a text that is asked for.
LEMMA OutsideFlows ==
  ASSUME PlayInv, HeardInv, DrawnSteps, [Next]_vars, \A t \in Threads : ~SessionStep(t)
  PROVE  Flows
<1>0. /\ pc \in [Threads -> SessionPlaces] /\ queue \in [Threads -> Seq(Chunks)]
      /\ heard \in [Threads -> Seq(Chunks)] /\ Texts \subseteq Seq(Items)
      /\ asked \in [Threads -> [text : Seq(Items), voice : Speakers]]
  BY SpeakttsAssumption, Zenon DEF PlayInv, TypeOK, CallTypeOK, TrackTypeOK
<1>1. /\ \A phones : Known(phones, pc, asked) => Known(phones, pc', asked')
      /\ \A c : FromText(c, pc, asked) => FromText(c, pc', asked')
  BY Lasting, Zenon
<1>2. Tracks(queue, pc', asked') /\ Tracks(heard, pc', asked')
  BY <1>1, Zenon DEF HeardInv, Tracks
<1>3. ASSUME UNCHANGED modelVars, UNCHANGED audioData,
             (pc' = pc /\ content' = content) \/ \A t \in Threads : pc'[t] # "new" => FromText(content', pc', asked'),
             \A a \in Threads : queue'[a] \in {queue[a], <<>>, Tail(queue[a])},
             heard' = heard \/ \E a \in Threads : /\ queue[a] # <<>>
                                                  /\ heard' = [heard EXCEPT ![a] = Append(heard[a], Head(queue[a]))]
      PROVE  Flows
  <2>1. \A a \in Threads : \A n \in DOMAIN queue'[a] : \E m \in DOMAIN queue[a] : queue'[a][n] = queue[a][m]
    <3> SUFFICES ASSUME NEW a \in Threads, NEW n \in DOMAIN queue'[a]
                 PROVE  \E m \in DOMAIN queue[a] : queue'[a][n] = queue[a][m]
      BY Zenon
    <3>1. queue[a] \in Seq(Chunks) /\ queue'[a] \in {queue[a], <<>>, Tail(queue[a])}
      BY <1>0, <1>3, Zenon
    <3>2. CASE queue'[a] = queue[a]
      BY <3>2, Zenon
    <3>3. CASE queue'[a] = <<>>
      BY <3>3
    <3>4. CASE queue'[a] = Tail(queue[a]) /\ queue[a] # <<>>
      <4>1. n + 1 \in DOMAIN queue[a] /\ queue'[a][n] = queue[a][n + 1]
        BY <3>1, <3>4
      <4> QED BY <4>1, Zenon
    <3>5. CASE queue[a] = <<>> /\ queue'[a] = Tail(queue[a])
      BY <3>1, <3>5
    <3> QED BY <3>1, <3>2, <3>3, <3>4, <3>5, Zenon
  <2>2. Tracks(queue', pc', asked')
    BY <1>2, <2>1, Zenon DEF Tracks
  <2>3. Tracks(heard', pc', asked')
    <3>1. CASE heard' = heard
      BY <1>2, <3>1, Zenon
    <3>2. ASSUME NEW a \in Threads, queue[a] # <<>>, heard' = [heard EXCEPT ![a] = Append(heard[a], Head(queue[a]))]
          PROVE  Tracks(heard', pc', asked')
      <4>1. queue[a] \in Seq(Chunks) /\ heard[a] \in Seq(Chunks)
        BY <1>0, Zenon
      <4>2. 1 \in DOMAIN queue[a] /\ Head(queue[a]) = queue[a][1]
        BY <3>2, <4>1
      <4>3. Known(Head(queue[a]).phones, pc', asked')
        BY <1>2, <4>2, Zenon DEF Tracks
      <4> DEFINE h == Head(queue[a])
      <4>4. \A n \in DOMAIN Append(heard[a], h) :
              \/ n \in DOMAIN heard[a] /\ Append(heard[a], h)[n] = heard[a][n]
              \/ Append(heard[a], h)[n] = h
        <5> HIDE DEF h
        <5> QED BY <4>1
      <4>5. \A n \in DOMAIN heard'[a] : Known(heard'[a][n].phones, pc', asked')
        BY <1>0, <1>2, <3>2, <4>3, <4>4, Zenon DEF Tracks
      <4>6. \A b \in Threads : b # a => heard'[b] = heard[b]
        BY <1>0, <3>2, Zenon
      <4> QED BY <1>2, <4>5, <4>6, Zenon DEF Tracks
    <3> QED BY <1>3, <3>1, <3>2, Zenon
  <2>4. \A t \in Threads : pc'[t] # "new" => FromText(content', pc', asked')
    BY <1>1, <1>3, Zenon DEF HeardInv
  <2> QED BY <1>3, <2>2, <2>3, <2>4, Zenon DEF Flows, modelVars
<1>4. ASSUME NEW t \in Threads, NEW text \in Texts, NEW voice \in Speakers, SpeakText(t, text, voice)
      PROVE  Flows
  <2>1. /\ pc'[t] = "read" /\ asked'[t] = [text |-> text, voice |-> voice] /\ content' = text
        /\ UNCHANGED <<modelVars, audioData, queue, heard>>
    BY <1>0, <1>4, Zenon DEF SpeakText, outVars, trackVars
  <2>2. asked'[t].text = text
    BY <2>1
  <2>3. Drawn(text, text)
    BY <1>0, Zenon DEF DrawnSteps
  <2>4. FromText(content', pc', asked')
    BY <2>1, <2>2, <2>3, Zenon DEF FromText
  <2> QED BY <1>3, <2>1, <2>4, Zenon
<1>5. CASE ModelStep
  BY <1>3, <1>5, ModelFrame, Zenon DEF outVars, trackVars
<1>6. CASE pauseAudioTrack \/ UNCHANGED vars
  BY <1>3, <1>6, Zenon DEF pauseAudioTrack, vars, shared, outVars, trackVars
<1>7. CASE flushAudioTrack \/ StopAudioTrack
  <2>1. \A a \in Threads : queue'[a] \in {queue[a], <<>>}
    BY <1>0, <1>7, Zenon DEF flushAudioTrack, StopAudioTrack
  <2> QED BY <1>3, <1>7, <2>1, Zenon DEF flushAudioTrack, StopAudioTrack, outVars
<1>8. ASSUME NEW a \in Threads, Sound(a)
      PROVE  Flows
  <2>1. \A b \in Threads : queue'[b] \in {queue[b], Tail(queue[b])}
    BY <1>0, <1>8, Zenon DEF Sound
  <2> QED BY <1>3, <1>8, <2>1, Zenon DEF Sound, outVars
<1> QED BY <1>4, <1>5, <1>6, <1>7, <1>8, Zenon DEF Next

LEMMA HeardStep ==
  ASSUME PlayInv, HeardInv, DrawnSteps, [Next]_vars
  PROVE  HeardInv'
<1>0. pc \in [Threads -> SessionPlaces] /\ my \in [Threads -> Locals]
  BY Zenon DEF PlayInv, TypeOK
<1>1. ASSUME Flows, \A u \in Threads : Reads(u)' /\ Takes(u)'
      PROVE  HeardInv'
  <2>1. singlewav' = NoWave \/ Known(singlewav'.phones, pc', asked')
    BY <1>1, Lasting, Zenon DEF Flows, HeardInv
  <2> QED BY <1>1, <2>1, Zenon DEF Flows, HeardInv
<1>2. ASSUME NEW t \in Threads, SessionStep(t)
      PROVE  HeardInv'
  <2>1. Flows /\ Reads(t)' /\ Takes(t)'
    BY <1>2, SessionFlows, Zenon
  <2>2. \A u \in Threads : u # t => pc'[u] = pc[u] /\ my'[u] = my[u]
    BY <1>2, SessionMoves, Zenon
  <2>3. \A u \in Threads : Reads(u)' /\ Takes(u)'
    BY <2>1, <2>2, OthersKeep, Zenon
  <2> QED BY <1>1, <2>1, <2>3, Zenon
<1>3. CASE \A t \in Threads : ~SessionStep(t)
  <2>1. Flows
    BY <1>3, OutsideFlows, Zenon
  <2>2. ASSUME NEW u \in Threads PROVE (pc'[u] = pc[u] /\ my'[u] = my[u]) \/ (pc'[u] = "read" /\ pc[u] = "new")
    <3>1. CASE \E t \in Threads, text \in Texts, voice \in Speakers : SpeakText(t, text, voice)
      BY <1>0, <3>1, Zenon DEF SpeakText
    <3>2. CASE ModelStep
      BY <3>2, ModelFrame, Zenon
    <3>3. CASE pauseAudioTrack \/ flushAudioTrack \/ StopAudioTrack
               \/ (\E a \in Threads : Sound(a)) \/ UNCHANGED vars
      BY <3>3, OutsideFrame, Zenon
    <3> QED BY <1>3, <3>1, <3>2, <3>3, Zenon DEF Next
  <2>3. ASSUME NEW u \in Threads, pc'[u] = "read" PROVE Reads(u)' /\ Takes(u)'
    BY <2>3, TakesNothing, Zenon DEF Reads, Between, Cleaning
  <2>4. \A u \in Threads : Reads(u)' /\ Takes(u)'
    BY <2>1, <2>2, <2>3, OthersKeep, Zenon
  <2> QED BY <1>1, <2>1, <2>4, Zenon
<1> QED BY <1>2, <1>3, Zenon
=============================================================================
