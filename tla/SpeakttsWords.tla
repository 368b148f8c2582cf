--------------------------- MODULE SpeakttsWords ----------------------------
(***************************************************************************)
(* What the proofs about the player say of a text.                         *)
(***************************************************************************)
EXTENDS Speaktts

\* The text after the first r rounds of the thread's loop: newlines are gone, and
\* the first r - 1 separators are commas.
Worked(text, r) ==
  LET s == StripNewlines(text)
  IN  IF r = 0 THEN text
      ELSE [n \in DOMAIN s |-> IF \E j \in DOMAIN charSplit : j < r /\ s[n] = charSplit[j]
                               THEN Comma ELSE s[n]]

\* The pieces of a text, the ones that are not blank, and their number up to piece i.
Pieces(text) == SplitAtCommas(Cleaned(text))
Inked(text) == {n \in DOMAIN Pieces(text) : Trim(Pieces(text)[n]) # <<>>}
UpTo(P, n) == {m \in P : m <= n}
SaidBy(text, i) == Cardinality(UpTo(Inked(text), i))

TextTypes ==
  \A s \in Seq(Items) :
    /\ StripNewlines(s) \in Seq(Items) /\ \A x : ReplaceBy(s, x) \in Seq(Items)
    /\ SplitAtCommas(s) \in Seq(Seq(Items))
    /\ Trim(s) \in Seq(Items)
    /\ ft(s) \in Seq(Phones) /\ ft(s) # <<>>

\* Round by round a text becomes Cleaned(text); going through its pieces and
\* skipping the blank ones, the piece at i is the expected one at SaidBy(text, i).
TextSteps ==
  \A text \in Seq(Items) :
    /\ Worked(text, 1) = StripNewlines(text)
    /\ \A r \in 1 .. Len(charSplit) : Worked(text, r + 1) = ReplaceBy(Worked(text, r), charSplit[r])
    /\ Worked(text, Len(charSplit) + 1) = Cleaned(text)
    /\ Pieces(text) \in Seq(Seq(Items)) /\ Expected(text) \in Seq(Seq(Phones))
    /\ SaidBy(text, 0) = 0 /\ SaidBy(text, Len(Pieces(text))) = Len(Expected(text))
    /\ \A i \in Nat : SaidBy(text, i) \in 0 .. Len(Expected(text))
    /\ \A i \in Nat \ {0} :
         SaidBy(text, i) = SaidBy(text, i - 1) + (IF i \in Inked(text) THEN 1 ELSE 0)
    /\ \A i \in Inked(text) : Expected(text)[SaidBy(text, i)] = ft(Trim(Pieces(text)[i]))
-----------------------------------------------------------------------------
Rank(P, n) == Cardinality(UpTo(P, n))

\* What any number of sessions make of a text between them: each of its items, or a
\* comma instead, in their order; only newlines may be missing.
Drawn(c, text) ==
  \E P \in SUBSET (DOMAIN text) :
    /\ \A n \in DOMAIN text : text[n] # Newline => n \in P
    /\ Len(c) = Cardinality(P)
    /\ \A n \in P : c[Rank(P, n)] \in {text[n], Comma}

\* The phones of a stretch of a text.
Stretch(phones, text) ==
  LET s == StripNewlines(text)
  IN  \E j, k \in DOMAIN s : phones = ft(SubSeq(s, j, k))

DrawnSteps ==
  \A text, c \in Seq(Items) :
    /\ Drawn(text, text)
    /\ Drawn(c, text) =>
         /\ Drawn(StripNewlines(c), text) /\ \A x : Drawn(ReplaceBy(c, x), text)
         /\ \A n \in DOMAIN SplitAtCommas(c) :
              LET str == Trim(SplitAtCommas(c)[n])
              IN  str # <<>> => Stretch(ft(str), text)
=============================================================================
