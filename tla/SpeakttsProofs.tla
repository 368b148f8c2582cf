--------------------------- MODULE SpeakttsProofs ---------------------------
(***************************************************************************)
(* Proofs about the player, fourth part: the theorems, for any sessions,   *)
(* texts, speakers, separators, phones and buffer size.                    *)
(***************************************************************************)
EXTENDS SpeakttsHeard, SpeakttsText, SpeakttsPlayer

PlayerInv == PlayInv /\ AloneInv /\ TrackInv /\ CleanInv /\ CleanUseNeverCrashes

\* What every clean session knows of itself, and the types and the frames that needs,
\* hold whatever the callers of Speaktts do.
THEOREM PlayerInvariant == Spec => []PlayerInv
<1>1. Init => PlayerInv
  <2>1. Init => CleanUseNeverCrashes
    BY Zenon DEF Init, CleanUseNeverCrashes
  <2> QED BY <2>1, PlayInit, AloneInit, Zenon DEF PlayerInv
<1>2. PlayerInv /\ [Next]_vars => PlayerInv'
  BY TextHolds, PlayStep, AloneStep, TrackStep, CleanStep, CrashStep, Zenon DEF PlayerInv
<1> QED BY <1>1, <1>2, PTL DEF Spec

\* The statics of Speaktts, the fields of its Predictor, the locals of the session
\* threads and the tracks keep their types in every interleaving.
THEOREM PlayerTypeCorrect == Spec => []TypeOK
<1>1. PlayerInv => TypeOK
  BY Zenon DEF PlayerInv, PlayInv
<1> QED BY <1>1, PlayerInvariant, PTL

\* The process dies only after sessions overlapped, the models were missing or
\* replaced under a session, or the user stopped a track.
THEOREM CleanUseIsSafe == Spec => []CleanUseNeverCrashes
<1>1. PlayerInv => CleanUseNeverCrashes
  BY Zenon DEF PlayerInv
<1> QED BY <1>1, PlayerInvariant, PTL

LEMMA CleanMeans ==
  ASSUME PlayerInv
  PROVE  SpeaksItsText /\ NoClipping
<1> SUFFICES ASSUME NEW t \in Threads, Clean(t)
             PROVE  /\ Len(spoken[t]) <= Len(Expected(asked[t].text))
                    /\ \A n \in DOMAIN spoken[t] :
                         /\ spoken[t][n].chunk.phones = Expected(asked[t].text)[n]
                         /\ spoken[t][n].chunk.voice = asked[t].voice
                         /\ spoken[t][n].to = t
                         /\ Fits(spoken[t][n].chunk.phones, spoken[t][n].chunk.scale)
                    /\ pc[t] = "done" => Len(spoken[t]) = Len(Expected(asked[t].text))
  BY Zenon DEF SpeaksItsText, NoClipping, Fits
<1> DEFINE text == asked[t].text
           index == my[t].index
           N == Len(Pieces(text))
           E == Len(Expected(text))
<1>1. text \in Seq(Items) /\ index \in Nat \ {0}
  BY Zenon DEF PlayerInv, PlayInv, TypeOK, CallTypeOK, Locals
<1>2. Saying(t) /\ Walking(t)
  BY Zenon DEF PlayerInv, CleanInv, Knows
<1>3. Pieces(text) \in Seq(Seq(Items)) /\ Expected(text) \in Seq(Seq(Phones))
      /\ (\A i \in Nat : SaidBy(text, i) \in 0 .. E) /\ SaidBy(text, N) = E
  BY <1>1, TextHolds, Zenon DEF TextSteps
<1>4. N \in Nat /\ E \in Nat
  BY <1>3
<1>5. \A n \in DOMAIN spoken[t] :
        /\ spoken[t][n].chunk.phones = Expected(text)[n]
        /\ spoken[t][n].chunk.voice = asked[t].voice
        /\ spoken[t][n].to = t
        /\ Fits(spoken[t][n].chunk.phones, spoken[t][n].chunk.scale)
  BY <1>2, Zenon DEF Saying, Right, Good
<1>6. pc[t] = "done" => Len(spoken[t]) = SaidBy(text, index - 1) /\ index <= N + 1 /\ index > N
  BY <1>2, Zenon DEF Saying, Walking, Cleaning
<1> HIDE DEF text, index, N, E
<1>7. pc[t] = "done" => Len(spoken[t]) = E
  <2>1. index \in Nat /\ index <= N + 1 /\ index > N => index - 1 = N
    BY <1>4
  <2> QED BY Zenon, <1>1, <1>3, <1>6, <2>1
<1>8. PICK i \in Nat : Len(spoken[t]) = SaidBy(text, i)
  <2>1. index \in Nat /\ index - 1 \in Nat
    BY <1>1
  <2>2. Len(spoken[t]) = SaidBy(text, IF pc[t] = "play" THEN index ELSE index - 1)
    BY <1>2, Zenon DEF Saying, text, index
  <2> QED BY <2>1, <2>2, Zenon
<1>9. Len(spoken[t]) <= E
  BY <1>3, <1>4, <1>8
<1> QED BY <1>5, <1>7, <1>9, Zenon DEF text, E

\* A session that runs alone with the models loaded writes the segments of its own
\* text, in order, each once, in its voice and to its track, and when it is done all.
THEOREM CleanSessionsSpeak == Spec => []SpeaksItsText
<1>1. PlayerInv => SpeaksItsText
  BY CleanMeans
<1> QED BY <1>1, PlayerInvariant, PTL

\* segToByte never scales a sample of a session that runs alone above 32767,
\* whatever earlier sessions left in maxwav.
THEOREM CleanSessionsFit == Spec => []NoClipping
<1>1. PlayerInv => NoClipping
  BY CleanMeans
<1> QED BY <1>1, PlayerInvariant, PTL

\* However many sessions overlap in SpeakText and take each other's content, waves
\* and tracks, and whatever happens to the models, each chunk heard is the phones of
\* one stretch of one requested text, or noise, if the front end has no phone for a
\* newline (a session may meet one that another session has yet to remove).
THEOREM OnlyAskedIsHeard ==
  ASSUME Phone[Newline] = 0
  PROVE  Spec => []HeardWasAsked
<1>1. TextTypes /\ DrawnSteps
  BY TextHolds, DrawnHolds, Zenon
<1>2. Init => PlayInv /\ HeardInv
  BY PlayInit, HeardInit, Zenon
<1>3. PlayInv /\ HeardInv /\ [Next]_vars => PlayInv' /\ HeardInv'
  BY <1>1, PlayStep, HeardStep, Zenon
<1>4. HeardInv => HeardWasAsked
  BY Zenon DEF HeardInv, Tracks, Known, Stretch, HeardWasAsked
<1> QED BY <1>2, <1>3, <1>4, PTL DEF Spec

-----------------------------------------------------------------------------
\* Sessions and the UI thread touch nothing of the Predictor that init and
\* releaseModel set, save the speaker: with one worker its two models are always
\* products of the same load, also while sessions run.
THEOREM PlayerNeverMixes ==
  ASSUME OneWorker
  PROVE  Spec => []NoMixedModels
<1>1. OneLoader /\ OneLoader'
  BY OneWorker, Zenon DEF OneWorker, OneLoader
<1>2. Init => PairInv
  BY PairInit, Zenon DEF Init
<1>3. ASSUME PlayerInv, PairInv, [Next]_vars
      PROVE  PairInv'
  <2>0. PredictorTypeOK
    BY <1>3, Zenon DEF PlayerInv, PlayInv, TypeOK
  <2>1. ASSUME [PredictorNext]_predictorVars PROVE PairInv'
    BY <1>1, <1>3, <2>0, <2>1, PairStep, Zenon
  <2>2. CASE \E t \in Threads, text \in Texts, voice \in Speakers : SpeakText(t, text, voice)
    <3>1. UNCHANGED <<AMPredictor, VOCPredictor, ppc, job>>
      BY <2>2, Zenon DEF SpeakText
    <3> QED BY <1>3, <3>1, Zenon DEF PairInv, NoMixedModels
  <2>3. CASE ModelStep
    BY <2>1, <2>3, ModelStepMoves, Zenon
  <2>4. CASE pauseAudioTrack \/ flushAudioTrack \/ StopAudioTrack
             \/ (\E a \in Threads : Sound(a)) \/ UNCHANGED vars
    BY <1>3, <2>1, <2>4, OutsideFrame, Zenon DEF PlayerInv
  <2>5. ASSUME NEW t \in Threads, SessionStep(t) PROVE PairInv'
    BY <2>1, <2>5, SessionFrame, Zenon
  <2> QED BY <1>3, <2>2, <2>3, <2>4, <2>5, Zenon DEF Next
<1>4. PairInv => NoMixedModels
  BY Zenon DEF PairInv
<1> QED BY <1>2, <1>3, <1>4, PlayerInvariant, PTL DEF Spec

-----------------------------------------------------------------------------
(* The abstract player. *)

\* A caller that neither overlaps sessions nor touches the models under one.
PoliteClient == Client \cap {"overlap", "reload"} = {}
AllClean == overlapped = {} /\ disturbed = {}

\* The functions by which the player is seen: of a longer and of a shorter queue.
LEMMA VoicedSteps ==
  /\ VoicedAll(<<>>) = <<>>
  /\ \A s \in Seq(Chunks), c \in Chunks : VoicedAll(Append(s, c)) = Append(VoicedAll(s), Voiced(c))
  /\ \A s \in Seq(Chunks) : s # <<>> => /\ VoicedAll(s) # <<>>
                                        /\ Head(VoicedAll(s)) = Voiced(Head(s))
                                        /\ Tail(VoicedAll(s)) = VoicedAll(Tail(s))
<1>0. \A s \in Seq(Chunks) : VoicedAll(s) \in Seq({Voiced(c) : c \in Chunks}) /\ Len(VoicedAll(s)) = Len(s)
  BY DEF VoicedAll
<1>1. VoicedAll(<<>>) = <<>>
  BY <1>0 DEF VoicedAll
<1>2. ASSUME NEW s \in Seq(Chunks), NEW c \in Chunks
      PROVE  VoicedAll(Append(s, c)) = Append(VoicedAll(s), Voiced(c))
  BY DEF VoicedAll
<1>3. ASSUME NEW s \in Seq(Chunks), s # <<>>
      PROVE  /\ VoicedAll(s) # <<>>
             /\ Head(VoicedAll(s)) = Voiced(Head(s))
             /\ Tail(VoicedAll(s)) = VoicedAll(Tail(s))
  BY <1>3 DEF VoicedAll
<1> QED BY <1>1, <1>2, <1>3

LEMMA CleanKept ==
  ASSUME PoliteClient, PlayInv, AllClean, [Next]_vars
  PROVE  AllClean'
<1>1. CASE \E t \in Threads, text \in Texts, voice \in Speakers : SpeakText(t, text, voice)
  BY <1>1, Zenon DEF SpeakText, PoliteClient, AllClean
<1>2. CASE ModelStep
  BY <1>2, Zenon DEF ModelStep, PoliteClient, AllClean
<1>3. CASE pauseAudioTrack \/ flushAudioTrack \/ StopAudioTrack
           \/ (\E a \in Threads : Sound(a)) \/ UNCHANGED vars
  BY <1>3, OutsideFrame, Zenon DEF AllClean
<1>4. CASE \E t \in Threads : SessionStep(t)
  BY <1>4, SessionFrame, Zenon DEF AllClean, callVars
<1> QED BY <1>1, <1>2, <1>3, <1>4, Zenon DEF Next

LEMMA PlayerInit == Init => AbstractPlayer!Init
<1> SUFFICES ASSUME Init PROVE AbstractPlayer!Init
  OBVIOUS
<1>1. DefaultSpeaker \in Speakers
  BY PredictorAssumption
<1>2. Phase = [t \in Threads |-> "new"]
  BY Zenon DEF Init, Phase
<1>3. asked \in [Threads -> [text : {<<>>}, voice : Speakers]]
  BY <1>1, Zenon DEF Init
<1>4. Pending = [t \in Threads |-> <<>>] /\ Heard = [t \in Threads |-> <<>>]
  BY VoicedSteps, Zenon DEF Init, Pending, Heard
<1>5. Said = [t \in Threads |-> <<>>]
  <2>1. [n \in DOMAIN <<>> |-> Voiced(<<>>[n].chunk)] = <<>>
    OBVIOUS
  <2> QED BY <2>1, Zenon DEF Init, Said
<1>6. silenced = {} /\ crash = "none"
  BY Zenon DEF Init
<1> QED BY <1>2, <1>3, <1>4, <1>5, <1>6, Zenon DEF AbstractPlayer!Init, AbstractPlayer!Nothing

\* The abstract state moves only with the variables it is made of.
LEMMA PlayerFrame ==
  /\ UNCHANGED pc => UNCHANGED Phase
  /\ UNCHANGED spoken => UNCHANGED Said
  /\ UNCHANGED queue => UNCHANGED Pending
  /\ UNCHANGED heard => UNCHANGED Heard
<1>1. UNCHANGED pc => UNCHANGED Phase
  BY Zenon DEF Phase
<1>2. UNCHANGED spoken => UNCHANGED Said
  BY Zenon DEF Said
<1>3. UNCHANGED queue => UNCHANGED Pending
  BY Zenon DEF Pending, VoicedAll
<1>4. UNCHANGED heard => UNCHANGED Heard
  BY Zenon DEF Heard, VoicedAll
<1> QED BY <1>1, <1>2, <1>3, <1>4

\* SpeakText asks for a text: no other session is alive.
LEMMA AskStep ==
  ASSUME PoliteClient, PlayInv, NEW t \in Threads, NEW text \in Texts, NEW voice \in Speakers,
         SpeakText(t, text, voice)
  PROVE  AbstractPlayer!Ask(t, text, voice)
<1>0. pc \in [Threads -> SessionPlaces]
  BY Zenon DEF PlayInv, TypeOK
<1>1. /\ crash = "none" /\ crash' = crash /\ pc[t] = "new" /\ Live = {}
      /\ pc' = [pc EXCEPT ![t] = "read"]
      /\ asked' = [asked EXCEPT ![t] = [text |-> text, voice |-> voice]]
      /\ UNCHANGED <<spoken, queue, heard, silenced>>
  BY Zenon DEF SpeakText, UIFree, PoliteClient, outVars, trackVars
<1>2. \A q \in Threads : Phase[q] # "speaking"
  BY <1>1, Zenon DEF Live, Phase
<1>3. Phase[t] = "new"
  BY <1>1, Zenon DEF Phase
<1>4. Phase' = [Phase EXCEPT ![t] = "speaking"]
  BY <1>0, <1>1, Zenon DEF Phase
<1>5. UNCHANGED <<Said, Pending, Heard>>
  BY <1>1, PlayerFrame, Zenon
<1> QED BY <1>1, <1>2, <1>3, <1>4, <1>5, Zenon DEF AbstractPlayer!Ask

\* pauseAudioTrack cuts a track, or fails on one that StopAudioTrack cut before.
LEMMA PauseStep ==
  ASSUME PlayInv, TrackInv, pauseAudioTrack
  PROVE  \/ audioTrack \in Threads /\ AbstractPlayer!Cut(audioTrack)
         \/ AbstractPlayer!Fail
<1>0. audioTrack \in Threads /\ pc[audioTrack] # "new"
  BY Zenon DEF pauseAudioTrack, PlayInv, TypeOK, TrackTypeOK, TrackInv
<1>1. crash = "none" /\ UNCHANGED <<pc, asked, spoken, queue, heard>>
  BY Zenon DEF pauseAudioTrack, UIFree, outVars
<1>2. UNCHANGED <<Phase, Said, Pending, Heard>>
  BY <1>1, PlayerFrame, Zenon
<1>3. CASE trackState[audioTrack] = "released"
  <2>1. silenced # {} /\ UNCHANGED silenced
    BY <1>0, <1>3, Zenon DEF TrackInv, pauseAudioTrack
  <2>2. crash' = "pause"
    BY <1>3, Zenon DEF pauseAudioTrack
  <2> QED BY <1>1, <1>2, <2>1, <2>2, SMTT(30) DEF AbstractPlayer!Fail
<1>4. CASE trackState[audioTrack] # "released"
  <2>1. silenced' = silenced \cup {audioTrack} /\ crash' = crash
    BY <1>4, Zenon DEF pauseAudioTrack
  <2>2. Phase[audioTrack] # "new"
    BY <1>0, Zenon DEF Phase
  <2> QED BY <1>0, <1>1, <1>2, <2>1, <2>2, Zenon DEF AbstractPlayer!Cut
<1> QED BY <1>3, <1>4, Zenon

\* flush and StopAudioTrack drop what a track still holds.
LEMMA DropStep ==
  ASSUME PlayInv, TrackInv, flushAudioTrack \/ StopAudioTrack
  PROVE  \/ audioTrack \in Threads /\ AbstractPlayer!Cut(audioTrack)
         \/ UNCHANGED AbstractPlayer!vars
<1>0. audioTrack \in Threads /\ NoThread \notin Threads
  BY SpeakttsAssumption, Zenon DEF flushAudioTrack, StopAudioTrack, PlayInv, TypeOK, TrackTypeOK
<1>1. /\ crash = "none" /\ crash' = crash /\ UNCHANGED <<pc, asked, spoken, heard>>
      /\ queue \in [Threads -> Seq(Chunks)]
  BY Zenon DEF flushAudioTrack, StopAudioTrack, UIFree, outVars, PlayInv, TypeOK, TrackTypeOK
<1>2. UNCHANGED <<Phase, Said, Heard>>
  BY <1>1, PlayerFrame, Zenon
<1>3. \/ UNCHANGED <<queue, silenced>>
      \/ queue' = [queue EXCEPT ![audioTrack] = <<>>] /\ silenced' = silenced \cup {audioTrack}
  BY Zenon DEF flushAudioTrack, StopAudioTrack
<1>4. CASE UNCHANGED <<queue, silenced>>
  BY <1>1, <1>2, <1>4, PlayerFrame, Zenon DEF AbstractPlayer!vars
<1>5. CASE queue' = [queue EXCEPT ![audioTrack] = <<>>] /\ silenced' = silenced \cup {audioTrack}
  <2>1. Pending' = [Pending EXCEPT ![audioTrack] = <<>>]
    BY <1>0, <1>1, <1>5, VoicedSteps, Zenon DEF Pending
  <2>2. pc[audioTrack] # "new"
    BY <1>0, Zenon DEF TrackInv
  <2>3. Phase[audioTrack] # "new"
    BY <1>0, <2>2, Zenon DEF Phase
  <2> QED BY <1>0, <1>1, <1>2, <1>5, <2>1, <2>3, Zenon DEF AbstractPlayer!Cut
<1> QED BY <1>3, <1>4, <1>5

\* The audio system plays the next chunk.
LEMMA HearStep ==
  ASSUME PlayInv, NEW a \in Threads, Sound(a)
  PROVE  AbstractPlayer!Hear(a)
<1>0. queue \in [Threads -> Seq(Chunks)] /\ heard \in [Threads -> Seq(Chunks)]
  BY Zenon DEF PlayInv, TypeOK, TrackTypeOK
<1>1. /\ crash = "none" /\ crash' = crash /\ UNCHANGED <<pc, asked, spoken, silenced>>
      /\ queue[a] # <<>>
      /\ queue' = [queue EXCEPT ![a] = Tail(queue[a])]
      /\ heard' = [heard EXCEPT ![a] = Append(heard[a], Head(queue[a]))]
  BY Zenon DEF Sound, callVars, outVars
<1>2. queue[a] \in Seq(Chunks) /\ heard[a] \in Seq(Chunks)
  BY <1>0, Zenon
<1>3. Head(queue[a]) \in Chunks
  BY <1>1, <1>2
<1>4. Pending[a] = VoicedAll(queue[a]) /\ Heard[a] = VoicedAll(heard[a])
  BY Zenon DEF Pending, Heard
<1>5. Pending[a] # <<>> /\ Head(Pending[a]) = Voiced(Head(queue[a])) /\ VoicedAll(Tail(queue[a])) = Tail(Pending[a])
  BY <1>1, <1>2, <1>4, VoicedSteps, Zenon
<1>6. Pending' = [Pending EXCEPT ![a] = Tail(Pending[a])]
  BY <1>0, <1>1, <1>5, Zenon DEF Pending
<1>7. VoicedAll(heard'[a]) = Append(Heard[a], Head(Pending[a]))
  BY <1>0, <1>1, <1>2, <1>3, <1>4, <1>5, VoicedSteps, Zenon
<1>8. Heard' = [Heard EXCEPT ![a] = Append(Heard[a], Head(Pending[a]))]
  BY <1>0, <1>1, <1>7, Zenon DEF Heard
<1>9. UNCHANGED <<Phase, Said>>
  BY <1>1, PlayerFrame, Zenon
<1> QED BY <1>1, <1>5, <1>6, <1>8, <1>9, Zenon DEF AbstractPlayer!Hear
\* A session at write says the next segment of its text; the track drops it only when
\* the user cut it.
LEMMA SayStep ==
  ASSUME PlayerInv, PlayerInv', AllClean, NEW t \in Threads, WriteAudio(t)
  PROVE  AbstractPlayer!Say(t)
<1> DEFINE c == my[t].buf
           text == asked[t].text
           next == Len(spoken[t]) + 1
           Entries == [chunk : Chunks, to : Threads \cup {NoThread}]
           sound == [phones |-> Expected(text)[next], voice |-> asked[t].voice]
<1>0. /\ queue \in [Threads -> Seq(Chunks)] /\ spoken \in [Threads -> Seq(Entries)]
      /\ pc \in [Threads -> SessionPlaces] /\ c \in Chunks
  BY Zenon DEF PlayerInv, PlayInv, TypeOK, TrackTypeOK, OutTypeOK, Locals
<1>1. /\ pc[t] = "write" /\ pc' = [pc EXCEPT ![t] = "play"]
      /\ crash = "none" /\ crash' = crash /\ UNCHANGED <<asked, overlapped, disturbed, heard, silenced>>
      /\ spoken' = [spoken EXCEPT ![t] = Append(spoken[t], [chunk |-> c, to |-> my[t].track])]
  BY Zenon DEF WriteAudio, Step, callVars
<1>2. Clean(t) /\ Clean(t)'
  BY <1>0, <1>1, Zenon DEF Clean, AllClean
<1>3. my[t].track = t /\ (trackState[t] = "playing" \/ t \in silenced)
  BY <1>1, <1>2, Zenon DEF PlayerInv, CleanInv, Knows, Scaling, Sounding, Early, Cleaning
<1>4. \/ queue' = [queue EXCEPT ![t] = Append(queue[t], c)]
      \/ queue' = queue /\ t \in silenced
  BY <1>3, Zenon DEF WriteAudio, WriteReturns, Room
<1> DEFINE e == [chunk |-> c, to |-> t]
<1>5. e \in Entries /\ spoken[t] \in Seq(Entries) /\ queue[t] \in Seq(Chunks)
      /\ spoken'[t] = Append(spoken[t], e)
  BY <1>0, <1>1, <1>3, Zenon
<1>6. next \in DOMAIN spoken'[t] /\ spoken'[t][next] = e /\ Len(spoken'[t]) = next
  <2> HIDE DEF e, Entries
  <2> QED BY <1>5
<1>7. next <= Len(Expected(text)) /\ c.phones = Expected(text)[next] /\ c.voice = asked[t].voice
  <2>1. SpeaksItsText'
    BY CleanMeans, PTL
  <2>2. /\ Len(spoken'[t]) <= Len(Expected(text))
        /\ \A n \in DOMAIN spoken'[t] : /\ spoken'[t][n].chunk.phones = Expected(text)[n]
                                        /\ spoken'[t][n].chunk.voice = asked[t].voice
    <3>1. asked' = asked
      BY <1>1, Zenon
    <3> QED BY <1>2, <2>1, <3>1, Zenon DEF SpeaksItsText
  <2>3. e.chunk = c
    BY Zenon
  <2> HIDE DEF e, next, c, text
  <2> QED BY <1>6, <2>2, <2>3, Zenon
<1>8. Voiced(c) = sound
  BY <1>7, Zenon DEF Voiced
<1>9. Said' = [Said EXCEPT ![t] = Append(Said[t], sound)] /\ Len(Said[t]) = Len(spoken[t])
  <2> DEFINE Seen(s) == [n \in DOMAIN s |-> Voiced(s[n].chunk)]
  <2>1. Seen(Append(spoken[t], e)) = Append(Seen(spoken[t]), Voiced(c)) /\ Len(Seen(spoken[t])) = Len(spoken[t])
    <3>1. e.chunk = c
      BY Zenon
    <3> HIDE DEF e, Entries, c
    <3> QED BY <1>5, <3>1, SMTT(30)
  <2>2. Said[t] = Seen(spoken[t])
    BY Zenon DEF Said
  <2>3. Seen(spoken'[t]) = Append(Said[t], sound)
    BY <1>5, <1>8, <2>1, <2>2, Zenon
  <2>4. \A u \in Threads : u # t => spoken'[u] = spoken[u]
    BY <1>0, <1>1, Zenon
  <2> HIDE DEF sound
  <2>5. Said' = [Said EXCEPT ![t] = Append(Said[t], sound)]
    BY <2>3, <2>4, Zenon DEF Said
  <2> QED BY <2>1, <2>2, <2>5, ZenonT(40)
<1>10. \/ Pending' = [Pending EXCEPT ![t] = Append(Pending[t], sound)]
       \/ t \in silenced /\ UNCHANGED Pending
  <2>1. VoicedAll(Append(queue[t], c)) = Append(Pending[t], sound)
    BY <1>0, <1>5, <1>8, VoicedSteps, Zenon DEF Pending
  <2> HIDE DEF sound, c
  <2>2. CASE queue' = [queue EXCEPT ![t] = Append(queue[t], c)]
    BY <1>0, <2>1, <2>2, Zenon DEF Pending
  <2> QED BY <1>4, <2>2, PlayerFrame, Zenon
<1>11. UNCHANGED <<Phase, Heard>> /\ Phase[t] = "speaking"
  <2>1. UNCHANGED Phase /\ Phase[t] = "speaking"
    BY <1>0, <1>1, Zenon DEF Phase
  <2> QED BY <1>1, <2>1, PlayerFrame, Zenon
<1>12. Len(Said[t]) + 1 = next
  BY <1>9, Zenon
<1> QED BY <1>1, <1>7, <1>9, <1>10, <1>11, <1>12, ZenonT(40) DEF AbstractPlayer!Say

\* Behind its last segment a session ends, having said all of them.
LEMMA EndStep ==
  ASSUME PlayerInv, PlayerInv', AllClean, NEW t \in Threads, Finish(t)
  PROVE  AbstractPlayer!End(t)
<1>0. pc \in [Threads -> SessionPlaces] /\ spoken \in [Threads -> Seq([chunk : Chunks, to : Threads \cup {NoThread}])]
  BY Zenon DEF PlayerInv, PlayInv, TypeOK, OutTypeOK
<1>1. /\ pc[t] = "loop" /\ pc' = [pc EXCEPT ![t] = "done"] /\ crash = "none" /\ crash' = crash
      /\ UNCHANGED <<asked, overlapped, disturbed, spoken, queue, heard, silenced>>
  BY Zenon DEF Finish, Step, callVars, trackVars
<1>2. Clean(t)'
  BY <1>0, <1>1, Zenon DEF Clean, AllClean
<1>3. Len(spoken[t]) = Len(Expected(asked[t].text))
  <2>1. SpeaksItsText'
    BY CleanMeans, PTL
  <2> QED BY <1>0, <1>1, <1>2, <2>1, Zenon DEF SpeaksItsText
<1>4. Len(Said[t]) = Len(spoken[t])
  <2>1. spoken[t] \in Seq([chunk : Chunks, to : Threads \cup {NoThread}])
    BY <1>0, Zenon
  <2> QED BY <2>1 DEF Said
<1>5. Phase[t] = "speaking" /\ Phase' = [Phase EXCEPT ![t] = "done"]
  BY <1>0, <1>1, Zenon DEF Phase
<1> QED BY <1>1, <1>3, <1>4, <1>5, PlayerFrame, Zenon DEF AbstractPlayer!End

\* The other statements of a session are not seen, save play() on a track that the
\* user released.
LEMMA InnerStep ==
  ASSUME PlayerInv, PlayerInv', AllClean, NEW t \in Threads, SessionStep(t),
         ~Finish(t), ~WriteAudio(t)
  PROVE  UNCHANGED AbstractPlayer!vars \/ AbstractPlayer!Fail
<1>0. pc \in [Threads -> SessionPlaces] /\ PlayInv
  BY Zenon DEF PlayerInv, PlayInv, TypeOK
<1>1. /\ pc[t] \notin {"new", "done"} /\ pc'[t] \notin {"new", "done"}
      /\ \A u \in Threads : u # t => pc'[u] = pc[u]
      /\ UNCHANGED <<spoken, queue>>
  BY <1>0, SessionMoves, Zenon
<1>2. crash = "none" /\ UNCHANGED <<asked, heard, silenced>>
  BY SessionFrame, Zenon DEF callVars
<1>3. UNCHANGED Phase
  BY <1>1, Zenon DEF Phase
<1>4. UNCHANGED <<Said, Pending, Heard>>
  BY <1>1, <1>2, PlayerFrame, Zenon
<1>5. CASE crash' = "none"
  BY <1>2, <1>3, <1>4, <1>5, Zenon DEF AbstractPlayer!vars
<1>6. CASE crash' # "none"
  <2>1. Clean(t) /\ Knows(t)
    BY <1>1, Zenon DEF Clean, AllClean, PlayerInv, CleanInv
  <2>2. trackState'[t] = "released"
    BY <1>6, <2>1, ModelKnows, TextKnows, TextHolds, Zenon DEF PlayerInv
  <2>3. silenced # {}
    BY <1>2, <2>2, Zenon DEF PlayerInv, TrackInv
  <2> QED BY <1>2, <1>3, <1>4, <1>6, <2>3, SMTT(30) DEF AbstractPlayer!Fail
<1> QED BY <1>5, <1>6, Zenon

\* Every step of the player is a step of the abstract one, or none.
LEMMA PlayerStep ==
  ASSUME PoliteClient, PlayerInv, PlayerInv', AllClean, [Next]_vars
  PROVE  [AbstractPlayer!Next]_AbstractPlayer!vars
<1>0. PlayInv /\ TrackInv
  BY Zenon DEF PlayerInv
<1>1. CASE \E t \in Threads, text \in Texts, voice \in Speakers : SpeakText(t, text, voice)
  BY <1>0, <1>1, AskStep, Zenon DEF AbstractPlayer!Next
<1>2. CASE pauseAudioTrack
  BY <1>0, <1>2, PauseStep, Zenon DEF AbstractPlayer!Next
<1>3. CASE flushAudioTrack \/ StopAudioTrack
  BY <1>0, <1>3, DropStep, Zenon DEF AbstractPlayer!Next
<1>4. CASE \E a \in Threads : Sound(a)
  BY <1>0, <1>4, HearStep, Zenon DEF AbstractPlayer!Next
<1>5. CASE ModelStep
  <2>1. UNCHANGED <<asked, pc, spoken, queue, heard, silenced, crash>>
    BY <1>5, Zenon DEF ModelStep, outVars, trackVars
  <2> QED BY <2>1, PlayerFrame, Zenon DEF AbstractPlayer!vars
<1>6. ASSUME NEW t \in Threads, SessionStep(t)
      PROVE  [AbstractPlayer!Next]_AbstractPlayer!vars
  <2>1. CASE WriteAudio(t)
    BY <2>1, SayStep, Zenon DEF AbstractPlayer!Next
  <2>2. CASE Finish(t)
    BY <2>2, EndStep, Zenon DEF AbstractPlayer!Next
  <2>3. CASE ~WriteAudio(t) /\ ~Finish(t)
    BY <1>6, <2>3, InnerStep, ZenonT(40) DEF AbstractPlayer!Next
  <2> QED BY <2>1, <2>2, <2>3, Zenon
<1>7. CASE UNCHANGED vars
  <2>1. UNCHANGED <<asked, pc, spoken, queue, heard, silenced, crash>>
    BY <1>7, Zenon DEF vars, shared, callVars, outVars, trackVars
  <2> QED BY <2>1, PlayerFrame, Zenon DEF AbstractPlayer!vars
<1> QED BY <1>1, <1>2, <1>3, <1>4, <1>5, <1>6, <1>7, ZenonT(40) DEF Next

\* Speaktts implements the abstract player for a caller that neither overlaps sessions
\* nor touches the models under one, paused and stopped as the user likes.
THEOREM PlayerRefines ==
  ASSUME PoliteClient
  PROVE  Spec => ImplementsPlayer
<1>1. Init => AllClean
  BY Zenon DEF Init, AllClean
<1>2. PlayerInv /\ AllClean /\ [Next]_vars => AllClean'
  BY CleanKept, Zenon DEF PlayerInv
<1>3. PlayerInv /\ PlayerInv' /\ AllClean /\ [Next]_vars => [AbstractPlayer!Next]_AbstractPlayer!vars
  BY PlayerStep
<1> QED BY <1>1, <1>2, <1>3, PlayerInit, PlayerInvariant, PTL DEF Spec, ImplementsPlayer, AbstractPlayer!Spec
=============================================================================
