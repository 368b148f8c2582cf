---------------------------- MODULE FrontEngine ----------------------------
(***************************************************************************)
(* FrontEngineInterface: from a text to the ids of its phones.  The text   *)
(* is split at punctuation, each part is segmented, the words are merged,  *)
(* looked up, and their tones changed by the rules of sandhi.              *)
(*                                                                         *)
(* A phone is a record: its letters p and the tone t at its end, 0 if it   *)
(* has none (an initial).  word_phone_map grows: looking up an unknown     *)
(* word with operator[] adds it with no phones, and silent is the set of   *)
(* such words.  A read past the end of a vector gives Undef, and what      *)
(* follows it is not modelled.                                             *)
(***************************************************************************)
EXTENDS Segment

CONSTANTS Texts,           \* the arguments of getPhoneIds
          Engines,         \* what init may have built: a sequence of dictionaries with an HMM
          Simp,            \* trand_simp_map
          Bytes,           \* the UTF-8 bytes of a rune
          Class,           \* the lists of runes in NeuralSandhi that a rune is on
          must_neural_tone_words, must_not_neural_tone_words,
          must_erhua, not_erhua,
          Lower,           \* the small letter of a letter
          cmu_map, orderdict_map, G2pPhones,   \* the English dictionaries, the G2P model's phones
          word_phone_map,  \* the phones of the words that GenDict read
          phone_id_map,    \* the phones that have an id
          OutputMaxLen,    \* output_max_len of the G2P decoder
          MaxSilent        \* bound: the unknown words met before a call

ASSUME FrontAssumption == OutputMaxLen \in Nat \ {0}

VARIABLES engine,          \* which of Engines this process has
          silent,          \* the words added to word_phone_map, with no phones
          text,            \* the argument of the call
          sentence_part,   \* the parts still to be read
          cut_result,      \* the words of the current part still to be read
          log,             \* the current part, its words, and the last word read
          phoneids,
          pc

vars == <<engine, silent, text, sentence_part, cut_result, log, phoneids, pc>>

Dict == Engines[engine].dict
Hmm == Engines[engine].hmm

InMap == DOMAIN word_phone_map

Bu == "bu"
Yi == "yi"
Er == "er"
Di == "di"
Ge == "ge"

(* _punc and _punc_omit, as far as Texts can hold them *)
Punc == {<<c>> : c \in {"comma", Dot}}
PuncOmit == {<<"quote">>}
SplitPunc == {"comma"}

Empty == [p |-> "", t |-> 0]
Undef == [p |-> "undefined", t |-> 0]

Defined(phones) == Undef \notin ToSet(phones)

-----------------------------------------------------------------------------
(* Looking a word up. *)

Pieces(sil, w) == IF w \in InMap \cup sil THEN <<w>> ELSE CutAll(Dict, w)

(* mutant: the word is added and not its pieces *)
WholeLookedUp(sil, w) == sil \cup ({w} \ InMap)

LookedUp(sil, w) == sil \cup (ToSet(Pieces(sil, w)) \ InMap)

(* The phones of the pieces, joined with blanks and split again: a piece
   without phones is an empty phone, unless it is the only piece. *)
JoinPhones(ps) ==
  LET Of(v) == IF v \in InMap THEN word_phone_map[v] ELSE << >>
      OrEmpty(ph) == IF ph = << >> THEN <<Empty>> ELSE ph
  IN  IF Len(ps) = 1 THEN Of(ps[1]) ELSE CutEach(ps, LAMBDA v : OrEmpty(Of(v)))

GetPhone(sil, w) == JoinPhones(Pieces(sil, w))

(* word_initials and word_finals.  A phone without a tone is an initial and
   the next one its final; so is an empty phone, whose last byte reads as 0. *)
Syllables(ph) ==
  LET Prepend(i, f, rest) == [ini |-> <<i>> \o rest.ini, fin |-> <<f>> \o rest.fin]
      from[k \in 1..(Len(ph) + 2)] ==
        IF k > Len(ph) THEN [ini |-> << >>, fin |-> << >>]
        ELSE IF ph[k].t = 0 THEN Prepend(ph[k], IF k < Len(ph) THEN ph[k + 1] ELSE Undef, from[k + 2])
        ELSE Prepend(Empty, ph[k], from[k + 1])
  IN  from[1]

GetInitialsFinals(sil, w) == Syllables(GetPhone(sil, w))

GetFinals(sil, w) == GetInitialsFinals(sil, w).fin

AllToneThree(finals) == \A k \in DOMAIN finals : finals[k].t = 3

IsReduplication(w) == Len(w) = 2 /\ w[1] = w[2]

-----------------------------------------------------------------------------
(* Merging words.  Each loop is a function of the words read so far. *)

(* mutant: a 不 at the end is forgotten *)
ForgetfulMergeBu(seg) ==
  LET st[i \in 0..Len(seg)] ==
        IF i = 0 THEN [res |-> << >>, last_word |-> << >>]
        ELSE LET prev == st[i - 1]
                 w == IF prev.last_word = <<Bu>> THEN <<Bu>> \o seg[i].word ELSE seg[i].word
             IN  [res |-> IF w = <<Bu>> THEN prev.res ELSE Append(prev.res, [word |-> w, pos |-> seg[i].pos]),
                  last_word |-> w]
  IN  st[Len(seg)].res

(* mutant: the joined word has the tag of 不 *)
TaggedMergeBu(seg) ==
  LET st[i \in 0..Len(seg)] ==
        IF i = 0 THEN [res |-> << >>, last_word |-> << >>]
        ELSE LET prev == st[i - 1]
                 joined == prev.last_word = <<Bu>>
                 w == IF joined THEN <<Bu>> \o seg[i].word ELSE seg[i].word
             IN  [res |-> IF w = <<Bu>> THEN prev.res
                          ELSE Append(prev.res, [word |-> w, pos |-> IF joined THEN "d" ELSE seg[i].pos]),
                  last_word |-> w]
      end == st[Len(seg)]
  IN  IF end.last_word = <<Bu>> THEN Append(end.res, [word |-> <<Bu>>, pos |-> "d"]) ELSE end.res

MergeBu(seg) ==
  LET st[i \in 0..Len(seg)] ==
        IF i = 0 THEN [res |-> << >>, last_word |-> << >>]
        ELSE LET prev == st[i - 1]
                 w == IF prev.last_word = <<Bu>> THEN <<Bu>> \o seg[i].word ELSE seg[i].word
             IN  [res |-> IF w = <<Bu>> THEN prev.res ELSE Append(prev.res, [word |-> w, pos |-> seg[i].pos]),
                  last_word |-> w]
      end == st[Len(seg)]
  IN  IF end.last_word = <<Bu>> THEN Append(end.res, [word |-> <<Bu>>, pos |-> "d"]) ELSE end.res

(* The last word of r with w at its end. *)
Joined(r, w) == [r EXCEPT ![Len(r)].word = @ \o w]

(* Function 1, 听 一 听.  Only verbs are merged, and the segmenter tags none. *)
MergeyiVerbs(seg) ==
  LET verb(i) == seg[i].pos = "v"
      res[i \in 0..Len(seg)] ==
        IF i = 0 THEN << >>
        ELSE LET r == res[i - 1]
             IN  IF /\ 1 < i /\ i < Len(seg) /\ seg[i].word = <<Yi>>
                    /\ seg[i - 1].word = seg[i + 1].word /\ verb(i - 1)
                 THEN [r EXCEPT ![i - 1].word = @ \o <<Yi>> \o @]
                 ELSE IF i > 2 /\ seg[i - 1].word = <<Yi>> /\ seg[i - 2].word = seg[i].word /\ verb(i)
                 THEN r
                 ELSE Append(r, seg[i])
  IN  res[Len(seg)]

(* The words of seg, each joined to the result so far or appended to it. *)
Merge(seg, Joins(_, _)) ==
  LET res[i \in 0..Len(seg)] ==
        IF i = 0 THEN << >>
        ELSE LET r == res[i - 1]
             IN  IF r # << >> /\ Joins(Last(r).word, seg[i].word) THEN Joined(r, seg[i].word)
                                                                 ELSE Append(r, seg[i])
  IN  res[Len(seg)]

(* Function 2, 一 你. *)
Mergeyi(seg) == Merge(MergeyiVerbs(seg), LAMBDA last, w : last = <<Yi>>)

MergeReduplication(seg) == Merge(seg, LAMBDA last, w : last = w)

MergeEr(seg) == Merge(seg, LAMBDA last, w : w = <<Er>>)

IsText(r) == r.pos = "x" /\ r.word # <<Space>>

(* A punctuation mark at the end is left out. *)
WordNum(seg) == IF Last(seg).word \in Punc THEN Len(seg) - 1 ELSE Len(seg)

(* The finals of each word, looked up one after the other. *)
FinalsOf(sil, seg) ==
  LET st[i \in 0..WordNum(seg)] ==
        IF i = 0 THEN [finals |-> << >>, silent |-> sil]
        ELSE LET prev == st[i - 1]
                 w == seg[i].word
             IN  IF IsText(seg[i]) /\ w \notin PuncOmit
                 THEN [finals |-> Append(prev.finals, GetFinals(prev.silent, w)),
                       silent |-> LookedUp(prev.silent, w)]
                 ELSE [prev EXCEPT !.finals = Append(@, << >>)]
  IN  st[WordNum(seg)]

(* MergeThreeTones and MergeThreeTones2 differ in when two words meet. *)
AllThird(first, second) == AllToneThree(first) /\ AllToneThree(second)

ThirdMeetsThird(first, second) ==
  first # << >> /\ Last(first).t = 3 /\ second # << >> /\ Head(second).t = 3

MergeThird(seg, finals, Meet(_, _)) ==
  LET st[i \in 0..WordNum(seg)] ==
        IF i = 0 THEN [res |-> << >>, merge_last |-> FALSE]
        ELSE LET prev == st[i - 1]
             IN  IF /\ i > 1 /\ IsText(seg[i])
                    /\ Meet(finals[i - 1], finals[i])
                    /\ ~prev.merge_last
                    /\ ~IsReduplication(seg[i - 1].word)
                    /\ Len(seg[i - 1].word) + Len(seg[i].word) <= 3
                 THEN [res |-> Joined(prev.res, seg[i].word), merge_last |-> TRUE]
                 ELSE [res |-> Append(prev.res, seg[i]), merge_last |-> FALSE]
  IN  st[WordNum(seg)].res \o SubSeq(seg, WordNum(seg) + 1, Len(seg))

MergeThreeTones(seg, finals) == MergeThird(seg, finals, AllThird)

MergeThreeTones2(seg, finals) == MergeThird(seg, finals, ThirdMeetsThird)

-----------------------------------------------------------------------------
(* The rules of tone.  finals[i].replace(length - 1, 1, t) changes the tone;
   it cuts a letter off a phone without tone, and throws on an empty one. *)

SetTone(finals, i, t) ==
  IF ~Defined(finals) \/ i \notin DOMAIN finals \/ finals[i].p = "" THEN <<Undef>>
  ELSE [finals EXCEPT ![i] = [p |-> IF @.t = 0 THEN "cut" ELSE @.p, t |-> t]]

SetTones(finals, I, t) == FoldSet(LAMBDA i, f : SetTone(f, i, t), finals, I)

(* mutant: the last rune counts as well *)
LooseBefore(w, c) == {i \in DOMAIN w : w[i] = c}

(* The places of rune c that have a rune behind them. *)
Before(w, c) == {i \in 1..(Len(w) - 1) : w[i] = c}

(* mutant: only the rule for the middle of three *)
MiddleBuSandi(w, finals) == IF Len(w) = 3 /\ w[2] = Bu THEN SetTone(finals, 2, 5) ELSE finals

BuSandi(w, finals) ==
  IF Len(w) = 3 /\ w[2] = Bu THEN SetTone(finals, 2, 5)
  ELSE IF \E i \in Before(w, Bu) : i + 1 \notin DOMAIN finals THEN <<Undef>>
  ELSE SetTones(finals, {i \in Before(w, Bu) : finals[i + 1].t = 4}, 2)

(* 2 before a falling tone, 4 before the others *)
YiBefore(w, finals) ==
  LET falling == {i \in Before(w, Yi) : finals[i + 1].t = 4}
  IN  SetTones(SetTones(finals, falling, 2), Before(w, Yi) \ falling, 4)

YiSandhi(w, finals) ==
  IF Yi \in ToSet(w) /\ Last(w) # Yi THEN finals   \* whether or not it is a number
  ELSE IF Len(w) = 3 /\ w[2] = Yi /\ w[1] = w[3] THEN SetTone(finals, 2, 5)
  ELSE IF w = <<Di>> THEN <<Undef>>                \* wordvec[1]
  ELSE IF w[1] = Di /\ w[2] = Yi THEN SetTone(finals, 2, 1)
  ELSE IF \E i \in Before(w, Yi) : i + 1 \notin DOMAIN finals THEN <<Undef>>
  ELSE YiBefore(w, finals)

ByteLen(w) == Len(FlattenSeq([k \in DOMAIN w |-> Bytes[w[k]]]))

(* How many runes the first n bytes of w are. *)
RunesIn(w, n) == CHOOSE k \in 0..Len(w) : ByteLen(SubSeq(w, 1, k)) = n

(* The pieces std::sort may put first: the longest ones. *)
Longest(ps) == {v \in ps : \A u \in ps : ByteLen(u) <= ByteLen(v)}

FirstSubwords(w) == Longest(ToSet(CutForSearch(Dict, Hmm, w)))

(* find_first_of looks for any byte of first, so that first may be taken to
   stand at the beginning when it does not. *)
SplitWord(w, first) ==
  LET bytes == UNION {ToSet(Bytes[c]) : c \in ToSet(first)}
  IN  IF Bytes[w[1]][1] \in bytes
      THEN <<first, SubSeq(w, RunesIn(w, ByteLen(first)) + 1, Len(w))>>
      ELSE <<SubSeq(w, 1, RunesIn(w, ByteLen(w) - ByteLen(first))), first>>

MustBeNeutral(w) ==
  \/ w \in must_neural_tone_words
  \/ Len(w) >= 2 /\ SubSeq(w, Len(w) - 1, Len(w)) \in must_neural_tone_words

(* The branches that make the last tone neutral. *)
EndsNeutral(w, pos) ==
  LET n == Len(w)
      is(k, class) == class \in Class[w[k]]
      ge == {k \in 1..n : w[k] = Ge}
  IN  \/ is(n, "yuqici") \/ is(n, "de")
      \/ n = 1 /\ is(1, "le") /\ pos \in {"ul", "uz", "ug"}
      \/ n > 1 /\ is(n, "men") /\ pos \in {"r", "n"} /\ w \in must_not_neural_tone_words
      \/ n > 1 /\ is(n, "weizhi") /\ pos \in {"s", "l", "f"}
      \/ n > 1 /\ is(n, "dong") /\ is(n - 1, "fangxiang")
      \/ ge # {} /\ Min(ge) > 1 /\ is(Min(ge) - 1, "xiushi")
      \/ w = <<Ge>>
      \/ MustBeNeutral(w)

(* mutant: the second part begins one too late *)
GapParts(finals, n) ==
  IF n > Len(finals) THEN <<<<Undef>>, << >>>>
  ELSE <<SubSeq(finals, 1, n), SubSeq(finals, n + 2, Len(finals))>>

(* finals.begin() + n beyond the end is undefined. *)
Parts(finals, n) ==
  IF n > Len(finals) THEN <<<<Undef>>, << >>>>
  ELSE <<SubSeq(finals, 1, n), SubSeq(finals, n + 1, Len(finals))>>

(* A rule applied to what the rules before it left, unless that is undefined. *)
Then(finals, Rule(_)) == IF Defined(finals) THEN Rule(finals) ELSE finals

(* Reduplication; the words with a neutral end; the two parts of the word. *)
NeuralSandhi(w, pos, finals, list) ==
  LET twice == {j \in 2..Len(w) : w[j] = w[j - 1] /\ pos \in {"n", "v", "a"}}
      Neutral(f) == SetTone(f, Len(f), 5)
      Part(f, k) == IF MustBeNeutral(list[k]) THEN Neutral(f) ELSE f
      Rejoin(fs) == Part(fs[1], 1) \o Part(fs[2], 2)
  IN  Then(Then(SetTones(finals, twice, 5),
                LAMBDA f : IF EndsNeutral(w, pos) THEN Neutral(f) ELSE f),
           LAMBDA f : IF f = << >> THEN f ELSE Rejoin(Parts(f, Len(list[1]))))

(* Three syllables in two parts that are not all in the third tone. *)
ThreeInParts(f1, f2) ==
  LET Pair(f) == AllToneThree(f) /\ Len(f) = 2
      Rise(f) == IF Pair(f) THEN SetTone(f, 1, 2) ELSE f
  IN  IF ~Pair(f2) /\ ~AllToneThree(f2) /\ f2[1].t = 3 /\ Last(f1).t = 3
      THEN SetTone(Rise(f1), Len(f1), 2) \o f2
      ELSE Rise(f1) \o Rise(f2)

ThreeSandhi(w, finals, list) ==
  LET n == Len(w)
      n1 == Len(list[1])
      Rise(f) == IF AllToneThree(f) THEN SetTone(f, 1, 2) ELSE f
      InParts(fs) == ThreeInParts(fs[1], fs[2])
      InHalves(fs) == Rise(fs[1]) \o Rise(fs[2])
  IN  CASE n = 2 -> Rise(finals)
        [] n = 3 -> IF ~AllToneThree(finals) THEN InParts(Parts(finals, n1))
                    ELSE SetTones(finals, CASE n1 = 1 -> {2} [] n1 = 2 -> {1, 2} [] OTHER -> {}, 2)
        [] n = 4 -> InHalves(Parts(finals, 2))
        [] OTHER -> finals

ModifyTone(w, pos, finals, list) ==
  Then(Then(Then(BuSandi(w, finals), LAMBDA f : YiSandhi(w, f)),
            LAMBDA f : NeuralSandhi(w, pos, f, list)),
       LAMBDA f : ThreeSandhi(w, f, list))

(* A final 儿 becomes an r at the end of the syllable before it. *)
MergeErhua(ini, fin, w, pos) ==
  LET n == Len(w)
      same == [ini |-> ini, fin |-> fin]
  IN  IF \/ w \notin must_erhua /\ (w \in not_erhua \/ pos \in {"a", "j", "nr"})
         \/ Len(fin) # n
      THEN same
      ELSE IF /\ n >= 2 /\ w[n] = Er /\ fin[n] \in [p : {"er"}, t : {2, 5}]
              /\ SubSeq(w, n - 1, n) \notin not_erhua
      THEN [ini |-> Front(ini),
            fin |-> Append(Front(Front(fin)), [fin[n - 1] EXCEPT !.p = @ \o "r"])]
      ELSE same

-----------------------------------------------------------------------------
(* Ids.  An id stands for its phone; a phone without id has the id 0. *)

Pad == [p |-> "<pad>", t |-> 0]
Sp == [p |-> "sp", t |-> 0]

(* mutant: a phone without id is passed on *)
RawPhone2Phoneid(phones) == phones

Phone2Phoneid(phones) ==
  [k \in DOMAIN phones |-> IF phones[k] \in phone_id_map THEN phones[k] ELSE Pad]

(* mutant: no blank between initial and final *)
UnspacedSpelled(ini, fin) == [k \in DOMAIN fin |-> [fin[k] EXCEPT !.p = ini[k].p \o @]]

(* Initials and finals as one string of phones; an empty string has none. *)
Spelled(ini, fin) ==
  LET phones == FlattenSeq([k \in DOMAIN fin |->
                  IF ini[k] = Empty THEN <<fin[k]>> ELSE <<ini[k], fin[k]>>])
  IN  IF phones = <<Empty>> THEN << >> ELSE phones

(* G2pEModel::decode: the network's phones until it ends or the loop does. *)
G2p == UNION {[1..n -> G2pPhones] : n \in 0..(OutputMaxLen - 1)}

ToLower(w) == [k \in DOMAIN w |-> IF w[k] \in Letters THEN Lower[w[k]] ELSE w[k]]

EnglishPhones(w) == IF ToLower(w) \in DOMAIN cmu_map THEN {cmu_map[ToLower(w)]} ELSE G2p

-----------------------------------------------------------------------------
(* One call of getPhoneIds. *)

NoWord == [word |-> << >>, pos |-> "", ini |-> << >>, fin |-> << >>, tones |-> << >>, ids |-> << >>]
NoLog == [part |-> << >>, tagged |-> << >>, read |-> NoWord]

Init ==
  /\ engine \in DOMAIN Engines
  /\ silent = {}
  /\ text = << >> /\ sentence_part = << >> /\ cut_result = << >>
  /\ phoneids = << >> /\ log = NoLog
  /\ pc = "idle"

Trand2Simp(s) == [k \in DOMAIN s |-> IF s[k] \in DOMAIN Simp THEN Simp[s[k]] ELSE s[k]]

(* A part ends with its punctuation. *)
SplitByPunc(s) ==
  LET parts[i \in 1..(Len(s) + 1)] ==
        IF i > Len(s) THEN << >>
        ELSE LET stops == {j \in i..Len(s) : s[j] \in SplitPunc}
                 j == IF stops = {} THEN Len(s) ELSE Min(stops)
             IN  <<SubSeq(s, i, j)>> \o parts[j + 1]
  IN  parts[1]

CalcText(s) ==
  /\ pc = "idle" /\ Cardinality(silent) <= MaxSilent
  /\ text' = s
  /\ sentence_part' = SplitByPunc(Trand2Simp(s))
  /\ phoneids' = << >> /\ log' = NoLog
  /\ pc' = "part"
  /\ UNCHANGED <<engine, silent, cut_result>>

(* IsCheckLetter: a word of letters is English, a single letter too. *)
TagLetters(tagged) ==
  [k \in DOMAIN tagged |->
     IF ToSet(tagged[k].word) \subseteq Letters THEN [tagged[k] EXCEPT !.pos = "eng"] ELSE tagged[k]]

CutPart ==
  /\ pc = "part" /\ sentence_part # << >>
  /\ cut_result' = TagLetters(Tag(Dict, Hmm, Head(sentence_part)))
  /\ log' = [part |-> Head(sentence_part), tagged |-> cut_result', read |-> NoWord]
  /\ sentence_part' = Tail(sentence_part)
  /\ pc' = "merge"
  /\ UNCHANGED <<engine, silent, text, phoneids>>

(* MergeforModify, a step for each time that phones are looked up.  With no
   word at all seg_result[-1] is read. *)
MergeWords ==
  /\ pc = "merge"
  /\ cut_result' = MergeReduplication(Mergeyi(MergeBu(cut_result)))
  /\ pc' = IF cut_result = << >> THEN "undefined" ELSE "three"
  /\ UNCHANGED <<engine, silent, text, sentence_part, log, phoneids>>

MergeThrees(here, there, Merged(_, _)) ==
  /\ pc = here
  /\ LET look == FinalsOf(silent, cut_result)
     IN  /\ cut_result' = Merged(cut_result, look.finals)
         /\ silent' = look.silent
         /\ pc' = IF Defined(FlattenSeq(look.finals)) THEN there ELSE "undefined"
  /\ UNCHANGED <<engine, text, sentence_part, log, phoneids>>

MergeThree == MergeThrees("three", "three2", MergeThreeTones)
MergeThree2 == MergeThrees("three2", "words", LAMBDA seg, finals : MergeEr(MergeThreeTones2(seg, finals)))

(* GetWordsIds, one word at a time. *)
Word == Head(cut_result)

Advance(ids) ==
  /\ phoneids' = phoneids \o ids
  /\ cut_result' = Tail(cut_result)
  /\ UNCHANGED <<engine, text, sentence_part>>

ReadOmitted ==
  /\ pc = "words" /\ cut_result # << >>
  /\ IsText(Word) /\ Word.word \in PuncOmit
  /\ Advance(<< >>)
  /\ UNCHANGED <<silent, log, pc>>

ReadPunc ==
  /\ pc = "words" /\ cut_result # << >>
  /\ IsText(Word) /\ Word.word \in Punc
  /\ Advance(Phone2Phoneid(<<Sp>>))
  /\ UNCHANGED <<silent, log, pc>>

LookUp ==
  /\ pc = "words" /\ cut_result # << >>
  /\ IsText(Word) /\ Word.word \notin Punc \cup PuncOmit
  /\ LET sy == GetInitialsFinals(silent, Word.word)
     IN  /\ log' = [log EXCEPT !.read = [NoWord EXCEPT !.word = Word.word, !.pos = Word.pos,
                                                       !.ini = sy.ini, !.fin = sy.fin]]
         /\ pc' = IF Defined(sy.fin) THEN "tones" ELSE "undefined"
  /\ silent' = LookedUp(silent, Word.word)
  /\ UNCHANGED <<engine, text, sentence_part, cut_result, phoneids>>

Sounded(r, tones) ==
  LET Ids(new) == Phone2Phoneid(Spelled(new.ini, new.fin))
      ids == IF Defined(tones) THEN Ids(MergeErhua(r.ini, tones, r.word, r.pos)) ELSE << >>
  IN  [r EXCEPT !.tones = tones, !.ids = ids]

(* ModifyTone, MergeErhua and the ids; first is the choice of SplitWord. *)
ReadText(first) ==
  /\ pc = "tones"
  /\ log' = LET r == log.read
            IN  [log EXCEPT !.read = Sounded(r, ModifyTone(r.word, r.pos, r.fin, SplitWord(r.word, first)))]
  /\ pc' = IF Defined(log'.read.tones) THEN "words" ELSE "undefined"
  /\ Advance(log'.read.ids)
  /\ UNCHANGED silent

ReadEnglish(phones) ==
  /\ pc = "words" /\ cut_result # << >>
  /\ ~IsText(Word)
  /\ Advance(Phone2Phoneid(SelectSeq(phones, LAMBDA ph : ph \in orderdict_map)))
  /\ UNCHANGED <<silent, log, pc>>

NextPart ==
  /\ pc = "words" /\ cut_result = << >>
  /\ pc' = "part"
  /\ UNCHANGED <<engine, silent, text, sentence_part, cut_result, log, phoneids>>

(* All but the engine is local to the call. *)
Return ==
  /\ pc = "part" /\ sentence_part = << >>
  /\ text' = << >> /\ phoneids' = << >> /\ log' = NoLog
  /\ pc' = "idle"
  /\ UNCHANGED <<engine, silent, sentence_part, cut_result>>

Next ==
  \/ pc = "idle" /\ \E s \in Texts : CalcText(s)
  \/ CutPart
  \/ MergeWords
  \/ MergeThree
  \/ MergeThree2
  \/ ReadOmitted
  \/ ReadPunc
  \/ LookUp
  \/ pc = "tones" /\ \E first \in FirstSubwords(log.read.word) : ReadText(first)
  \/ pc = "words" /\ cut_result # << >> /\ \E phones \in EnglishPhones(Word.word) : ReadEnglish(phones)
  \/ NextPart
  \/ Return

Spec == Init /\ [][Next]_vars

-----------------------------------------------------------------------------
(* What the segmenter promises, checked on every part that is read. *)

JustCut == pc = "merge" /\ silent = {}

(* The words of s in which every rune up to a place of C is a word of its own
   or ends one: a word begins at 1 and behind every place of C. *)
RouteWeight(d, s, C) ==
  LET End(i) == Min({c \in C \cup {Len(s)} : c >= i})
  IN  MapThenSumSet(LAMBDA i : Weight(d, SubSeq(s, i, End(i))), {1} \cup {c + 1 : c \in C})

Routes(d, s) ==
  {C \in SUBSET (1..(Len(s) - 1)) :
     \A i \in {1} \cup {c + 1 : c \in C} : Min({c \in C \cup {Len(s)} : c >= i}) \in Nexts(d, s, i)}

(* No way to divide a part into words of the dictionary and single characters
   is better than the one MPSegment takes (CalcDP, CutByDag). *)
BestRoute ==
  JustCut =>
    LET s == log.part
        mp == MPCut(Dict, s)
        weight == MapThenSumSet(LAMBDA k : Weight(Dict, mp[k]), DOMAIN mp)
    IN  /\ FlattenSeq(mp) = s
        /\ \A C \in Routes(Dict, s) : RouteWeight(Dict, s, C) <= weight

StatusWeight(h, s, st) ==
  LET upto[x \in 1..Len(s)] ==
        IF x = 1 THEN Plus(h.start[st[1]], GetEmitProb(h, st[1], s[1]))
        ELSE Plus(Plus(upto[x - 1], h.trans[st[x - 1]][st[x]]), GetEmitProb(h, st[x], s[x]))
  IN  upto[Len(s)]

(* Viterbi finds a sequence of statuses that no other sequence ending a word
   exceeds, for characters the model knows. *)
HmmBest ==
  (JustCut /\ Len(log.part) <= 3 /\ ToSet(log.part) \subseteq DOMAIN Hmm.emit) =>
    LET s == log.part
        best == StatusWeight(Hmm, s, Viterbi(Hmm, s))
    IN  \A st \in [DOMAIN s -> Status] :
          st[Len(s)] \in {E, S} => StatusWeight(Hmm, s, st) <= best

Runes(seg) == FlattenSeq([k \in DOMAIN seg |-> seg[k].word])

(* Whatever MPSegment, the HMM and the rules for ASCII do, the words that Tag
   returns are the part without its blanks, each rune once and in order. *)
CutKeepsText ==
  pc = "merge" =>
    Runes(log.tagged) = SelectSeq(log.part, LAMBDA c : c # Space)

(* Where every character is a word, FullSegment returns exactly the words of
   two and more characters and the characters that none of these covers. *)
FullCutIsAllWords ==
  (JustCut /\ \A k \in DOMAIN log.part : Find(Dict, <<log.part[k]>>)) =>
    LET s == log.part
        long == {a \in (DOMAIN s) \X (DOMAIN s) : a[1] < a[2] /\ Find(Dict, SubSeq(s, a[1], a[2]))}
        bare == {i \in DOMAIN s : \A a \in long : i \notin a[1]..a[2]}
    IN  ToSet(FullCut(Dict, s)) = {SubSeq(s, a[1], a[2]) : a \in long} \cup {<<s[i]>> : i \in bare}

-----------------------------------------------------------------------------
(* What the front end promises. *)

(* A call is at one of its steps, words in the map are not silent, and every id
   handed to Java is one of phone_id_map or 0. *)
TypeOK ==
  /\ pc \in {"idle", "part", "merge", "three", "three2", "words", "tones", "undefined"}
  /\ ToSet(text) \subseteq DOMAIN Bytes \cup DOMAIN Simp
  /\ silent \cap InMap = {}
  /\ ToSet(phoneids) \subseteq phone_id_map \cup {Pad}

(* A text all of whose characters have phones, and that holds no word of the
   user dictionary without phones. *)
Plain(s) ==
  /\ \A k \in DOMAIN s : <<s[k]>> \in InMap \/ s[k] = Space
  /\ \A i, j \in DOMAIN s : Find(Dict, SubSeq(s, i, j)) => SubSeq(s, i, j) \in InMap

PlainText == Plain(Trand2Simp(text))

(* Merging words, in whatever order 不, 一, 儿 and third tones come, neither
   loses nor repeats a character. *)
MergeKeepsText ==
  [][(pc \in {"merge", "three", "three2"} /\ pc' # "undefined") => Runes(cut_result') = Runes(cut_result)]_vars

(* A plain text is read without a read past the end of a vector, but for the
   character 第 on its own. *)
DefinedOnPlainText == pc = "undefined" /\ PlainText => log.read.word = <<Di>>

(* The reading of a plain text does not depend on the texts read before it,
   although every look-up may add words to the map. *)
PlainIgnoresHistory ==
  pc = "tones" /\ PlainText =>
    /\ log.read.fin = GetFinals({}, log.read.word)
    /\ log.read.ini = GetInitialsFinals({}, log.read.word).ini

Sounds == pc = "words" /\ log.read.tones # << >>

(* The rules of tone change tones and nothing else: as many finals as before,
   and as initials (the assertion in GetWordsIds), each with its letters. *)
SandhiKeepsSyllables ==
  Sounds =>
    LET r == log.read
    IN  /\ Len(r.tones) = Len(r.ini)
        /\ PlainText => \A k \in DOMAIN r.tones : r.tones[k].p = r.fin[k].p

OnePerRune == Len(log.read.tones) = Len(log.read.word)

(* After all four rules have rewritten the finals of a word, no 不 in it keeps
   its fourth tone before a fourth tone, and two characters are not both left
   in the third tone. *)
SandhiApplied ==
  Sounds /\ PlainText /\ OnePerRune =>
    LET w == log.read.word
        tones == log.read.tones
    IN  /\ \A i \in Before(w, Bu) : ~(tones[i].t = 4 /\ tones[i + 1].t = 4)
        /\ ~(Len(w) = 2 /\ AllToneThree(tones))

(* The phones of a plain text have ids, but for finals with r. *)
PlainHasIds ==
  Sounds /\ PlainText /\ Last(log.read.word) # Er => Pad \notin ToSet(log.read.ids)

(* No character of a plain text is read as English but 不 at the end of it. *)
OnlyLastBuIsEnglish ==
  pc = "words" /\ PlainText =>
    \A k \in DOMAIN cut_result : ~IsText(cut_result[k]) => cut_result[k].word = <<Bu>> /\ k = Len(cut_result)

(* MergeThreeTones says that quotation marks are skipped and not looked up. *)
QuotesAreSkipped ==
  pc \in {"three", "three2"} =>
    \A k \in DOMAIN cut_result :
      IsText(cut_result[k]) /\ cut_result[k].word \notin PuncOmit => "quote" \notin ToSet(cut_result[k].word)
=============================================================================
