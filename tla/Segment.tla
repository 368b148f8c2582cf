------------------------------ MODULE Segment ------------------------------
(***************************************************************************)
(* The word segmenter: the parts of cppjieba that the front end calls      *)
(* (Tag, CutForSearch and CutAll), as operators on a dictionary and a      *)
(* hidden Markov model.                                                    *)
(*                                                                         *)
(* A word or a sentence is a sequence of runes.  A dictionary d is the     *)
(* record that DictTrie builds: the weight of every word, the weight of an *)
(* unknown rune, and the runes the user dictionary lists as words.  The    *)
(* logarithms are integers that stand for them.                            *)
(***************************************************************************)
EXTENDS Integers, FiniteSets, Sequences, SequencesExt

CONSTANTS Letters, Digits, OtherAscii,  \* the runes below 0x80
          symbols_,                     \* the separators of SegmentBase
          MinDouble                     \* MIN_DOUBLE, below every sum of logarithms

Ascii == Letters \cup Digits \cup OtherAscii

Space == " "
Dot == "."

(* The last place of the run of elements of T that begins at place i of s. *)
RunEnd(s, i, T) ==
  CHOOSE j \in i..Len(s) : /\ \A k \in i..j : s[k] \in T
                           /\ j = Len(s) \/ s[j + 1] \notin T

-----------------------------------------------------------------------------
(* The dictionary. *)

(* SetStaticWordWeights: the weight in the middle of the sorted weights. *)
Median(weight) ==
  LET half == Cardinality(DOMAIN weight) \div 2
      below(x) == Cardinality({w \in DOMAIN weight : weight[w] < x})
      upto(x) == Cardinality({w \in DOMAIN weight : weight[w] <= x})
  IN  CHOOSE x \in Range(weight) : below(x) <= half /\ half < upto(x)

(* DictTrie(static, user): the user's words get the median weight or, where
   they come with a frequency, their own.  Both replace a word of the main
   dictionary, and neither changes the least weight. *)
DictTrie(static, user) ==
  [weight |-> [w \in DOMAIN static \cup DOMAIN user |->
                 IF w \notin DOMAIN user THEN static[w]
                 ELSE IF user[w] = 0 THEN Median(static) ELSE user[w]],
   least  |-> Min(Range(static)),
   single |-> {w[1] : w \in {v \in DOMAIN user : Len(v) = 1}}]

Find(d, w) == w \in DOMAIN d.weight

(* The ends of the words that begin at place i; the single rune is always one. *)
Nexts(d, s, i) == {i} \cup {j \in (i + 1)..Len(s) : Find(d, SubSeq(s, i, j))}

Weight(d, w) == IF Find(d, w) THEN d.weight[w] ELSE d.least

-----------------------------------------------------------------------------
(* MPSegment: the route of greatest weight through the words of s. *)

(* mutant: only the word itself is weighed *)
GreedyBestFrom(d, s, i, rest) ==
  LET Heavier(v, u) == v.weight > u.weight \/ (v.weight = u.weight /\ v.end <= u.end)
      Heaviest(vals) == CHOOSE v \in vals : \A u \in vals : Heavier(v, u)
  IN  Heaviest({[weight |-> Weight(d, SubSeq(s, i, j)), end |-> j] : j \in Nexts(d, s, i)})

(* The best way on from i, given the best ways on from the later places; a
   longer word must be strictly better. *)
BestFrom(d, s, i, rest) ==
  LET Better(v, u) == v.weight > u.weight \/ (v.weight = u.weight /\ v.end <= u.end)
      Greatest(vals) == CHOOSE v \in vals : \A u \in vals : Better(v, u)
  IN  Greatest({[weight |-> Weight(d, SubSeq(s, i, j)) + rest[j - i + 1].weight, end |-> j] :
                  j \in Nexts(d, s, i)})

(* For every place the weight of the best route and the end of its first word. *)
CalcDP(d, s) ==
  LET Prepend(i, rest) == <<BestFrom(d, s, i, rest)>> \o rest
      from[i \in 1..(Len(s) + 1)] ==
        IF i > Len(s) THEN <<[weight |-> 0, end |-> Len(s)]>> ELSE Prepend(i, from[i + 1])
  IN  from[1]

CutByDag(s, dag) ==
  LET words[i \in 1..(Len(s) + 1)] ==
        IF i > Len(s) THEN << >> ELSE <<SubSeq(s, i, dag[i].end)>> \o words[dag[i].end + 1]
  IN  words[1]

MPCut(d, s) == CutByDag(s, CalcDP(d, s))

-----------------------------------------------------------------------------
(* HMMSegment. *)

B == 0
E == 1
M == 2
S == 3
Status == {B, E, M, S}

(* Addition of doubles: beside MIN_DOUBLE a logarithm vanishes. *)
Plus(a, b) ==
  LET floors(x) == IF x <= MinDouble THEN (-x) \div (-MinDouble) ELSE 0
      n == floors(a) + floors(b)
  IN  IF n > 0 THEN n * MinDouble ELSE a + b

GetEmitProb(h, y, c) == IF c \in DOMAIN h.emit THEN h.emit[c][y] ELSE MinDouble

(* The greatest of the ways into a status that are above MIN_DOUBLE. *)
BestInto(tmp) ==
  LET Greatest(vs) == CHOOSE v \in vs : \A u \in vs :
                        v.weight > u.weight \/ (v.weight = u.weight /\ v.path <= u.path)
      above == {v \in tmp : v.weight > MinDouble}
  IN  IF above = {} THEN [weight |-> MinDouble, path |-> E] ELSE Greatest(above)

(* weight and path of every rune and status *)
ViterbiTable(h, s) ==
  LET First(y) == [weight |-> Plus(h.start[y], GetEmitProb(h, y, s[1])), path |-> -1]
      Next(prev, x, y) ==
        BestInto({[weight |-> Plus(Plus(prev[p].weight, h.trans[p][y]), GetEmitProb(h, y, s[x])), path |-> p] :
                    p \in Status})
      More(before, x) == Append(before, [y \in Status |-> Next(before[x - 1], x, y)])
      rows[x \in 1..Len(s)] == IF x = 1 THEN <<[y \in Status |-> First(y)]>> ELSE More(rows[x - 1], x)
  IN  rows[Len(s)]

(* mutant: the last status is chosen the wrong way round *)
SwappedBackwards(cell, n) ==
  LET Prepend(x, later) == <<cell[x + 1][Head(later)].path>> \o later
      from[x \in 1..n] ==
        IF x = n THEN <<IF cell[n][E].weight <= cell[n][S].weight THEN E ELSE S>>
                 ELSE Prepend(x, from[x + 1])
  IN  from[1]

Backwards(cell, n) ==
  LET Prepend(x, later) == <<cell[x + 1][Head(later)].path>> \o later
      from[x \in 1..n] ==
        IF x = n THEN <<IF cell[n][E].weight >= cell[n][S].weight THEN E ELSE S>>
                 ELSE Prepend(x, from[x + 1])
  IN  from[1]

Viterbi(h, s) == Backwards(ViterbiTable(h, s), Len(s))

(* A word ends at every status E or S. *)
CutAt(s, ends) == [k \in DOMAIN ends |-> SubSeq(s, IF k = 1 THEN 1 ELSE ends[k - 1] + 1, ends[k])]

(* mutant: status S ends no word *)
LongCutByStatus(s, status) == CutAt(s, SelectSeq([x \in DOMAIN s |-> x], LAMBDA x : status[x] = E))

CutByStatus(s, status) == CutAt(s, SelectSeq([x \in DOMAIN s |-> x], LAMBDA x : status[x] % 2 = 1))

InternalCut(h, s) == CutByStatus(s, Viterbi(h, s))

(* SequentialLetterRule and NumbersRule: the end of the token at an ASCII rune. *)
AsciiToken(s, i) ==
  CASE s[i] \in Letters -> RunEnd(s, i, Letters \cup Digits)
    [] s[i] \in Digits  -> RunEnd(s, i, Digits \cup {Dot})
    [] OTHER            -> i

HMMCut(h, s) ==
  LET Token(i) == IF s[i] \in Ascii THEN AsciiToken(s, i) ELSE RunEnd(s, i, ToSet(s) \ Ascii)
      Words(i, j) == IF s[i] \in Ascii THEN <<SubSeq(s, i, j)>> ELSE InternalCut(h, SubSeq(s, i, j))
      words[i \in 1..(Len(s) + 1)] ==
        IF i > Len(s) THEN << >> ELSE Words(i, Token(i)) \o words[Token(i) + 1]
  IN  words[1]

-----------------------------------------------------------------------------
(* The three ways to cut a range that holds no separator. *)

(* MixSegment: what MPSegment leaves as single runes goes to the HMM. *)
CutLoose(d, h, mp) ==
  LET loose == {w \in ToSet(mp) : Len(w) = 1 /\ w[1] \notin d.single}
      Chunk(i) == IF mp[i] \in loose THEN RunEnd(mp, i, loose) ELSE i
      Words(i, j) == IF mp[i] \in loose THEN HMMCut(h, FlattenSeq(SubSeq(mp, i, j))) ELSE <<mp[i]>>
      res[i \in 1..(Len(mp) + 1)] ==
        IF i > Len(mp) THEN << >> ELSE Words(i, Chunk(i)) \o res[Chunk(i) + 1]
  IN  res[1]

MixCut(d, h, s) == CutLoose(d, h, MPCut(d, s))

(* The words of length n inside w that the dictionary knows. *)
Inner(d, w, n) ==
  SelectSeq([i \in 1..(Len(w) - n + 1) |-> SubSeq(w, i, i + n - 1)], LAMBDA v : Find(d, v))

(* Every element of r, cut by C. *)
CutEach(r, C(_)) == FlattenSeq([k \in DOMAIN r |-> C(r[k])])

(* QuerySegment: the short words inside a long one, then the long one. *)
QueryCut(d, h, s) ==
  CutEach(MixCut(d, h, s),
          LAMBDA w : (IF Len(w) > 2 THEN Inner(d, w, 2) ELSE << >>)
                     \o (IF Len(w) > 3 THEN Inner(d, w, 3) ELSE << >>) \o <<w>>)

(* mutant: off by one in the test for an uncovered rune *)
ShortFullStep(d, s, st, a, w) ==
  LET uIdx == a.from - 1
      len == IF Find(d, w) THEN Len(w) ELSE st.wordLen
      alone == a.only /\ st.maxIdx < uIdx
  IN  [res     |-> IF alone \/ (Find(d, w) /\ Len(w) >= 2) THEN Append(st.res, w) ELSE st.res,
       wordLen |-> len,
       maxIdx  |-> Max({st.maxIdx, uIdx + len})]

(* FullSegment: all words, and the runes that no word covers.  wordLen keeps
   its value when a rune is not a word, and maxIdx is computed from it. *)
FullStep(d, s, st, a, w) ==
  LET uIdx == a.from - 1
      len == IF Find(d, w) THEN Len(w) ELSE st.wordLen
      alone == a.only /\ st.maxIdx <= uIdx
  IN  [res     |-> IF alone \/ (Find(d, w) /\ Len(w) >= 2) THEN Append(st.res, w) ELSE st.res,
       wordLen |-> len,
       maxIdx  |-> Max({st.maxIdx, uIdx + len})]

FullWords(d, s, arcs) ==
  LET st[n \in 0..Len(arcs)] ==
        IF n = 0 THEN [res |-> << >>, maxIdx |-> 0, wordLen |-> 0]
        ELSE FullStep(d, s, st[n - 1], arcs[n], SubSeq(s, arcs[n].from, arcs[n].to))
  IN  st[Len(arcs)].res

FullCut(d, s) ==
  LET Arc(i, j) == [from |-> i, to |-> j, only |-> Nexts(d, s, i) = {i}]
      ends(i) == SelectSeq([j \in 1..Len(s) |-> j], LAMBDA j : j \in Nexts(d, s, i))
  IN  FullWords(d, s, CutEach([i \in DOMAIN s |-> i], LAMBDA i : CutEach(ends(i), LAMBDA j : <<Arc(i, j)>>)))

-----------------------------------------------------------------------------
(* The functions of Jieba. *)

(* PreFilter: a separator is a range of its own. *)
PreFilter(s) ==
  LET ranges[i \in 1..(Len(s) + 1)] ==
        IF i > Len(s) THEN << >>
        ELSE LET j == IF s[i] \in symbols_ THEN i ELSE RunEnd(s, i, ToSet(s) \ symbols_)
             IN  <<SubSeq(s, i, j)>> \o ranges[j + 1]
  IN  ranges[1]

Cut(d, h, s) == CutEach(PreFilter(s), LAMBDA r : MixCut(d, h, r))

CutForSearch(d, h, s) == CutEach(PreFilter(s), LAMBDA r : QueryCut(d, h, r))

CutAll(d, s) == CutEach(PreFilter(s), LAMBDA r : FullCut(d, r))

(* LookupTag: the dictionary's tags are not used.  The loop of SpecialRule
   stops when half of the runes were ASCII. *)
SpecialRule(w) ==
  LET ascii == SelectSeq(w, LAMBDA c : c \in Ascii)
      eng == Min({Len(ascii), Len(w) \div 2})
  IN  CASE eng = 0 -> "x"
        [] eng > 0 -> IF \A k \in 1..eng : ascii[k] \in Digits THEN "m" ELSE "eng"

Tagged(words) == [k \in DOMAIN words |-> [word |-> words[k], pos |-> SpecialRule(words[k])]]

Tag(d, h, s) == Tagged(SelectSeq(Cut(d, h, s), LAMBDA w : w # <<Space>>))
=============================================================================
