---------------------------- MODULE SpeakttsText ----------------------------
(***************************************************************************)
(* Proofs about the player, first part: what the session thread does to a  *)
(* text, for every text: the rounds that clean it, the pieces it makes,    *)
(* and how many of them have something to say; and what several sessions   *)
(* make of it between them.                                                *)
(***************************************************************************)
EXTENDS SpeakttsWords, FiniteSetTheorems, TLAPS

\* Positions in a sequence are finitely many.
LEMMA Positions ==
  ASSUME NEW N \in Nat, NEW P \in SUBSET (1 .. N)
  PROVE  /\ IsFiniteSet(P) /\ Cardinality(P) \in Nat
         /\ \A n : /\ IsFiniteSet(UpTo(P, n)) /\ Cardinality(UpTo(P, n)) \in Nat
                   /\ Cardinality(UpTo(P, n)) <= Cardinality(P)
<1>0. 1 \in Int /\ N \in Int
  OBVIOUS
<1>1. IsFiniteSet(1 .. N)
  BY <1>0, FS_Interval, Zenon
<1>2. IsFiniteSet(P)
  BY <1>1, FS_Subset, Zenon
<1>3. Cardinality(P) \in Nat
  BY <1>2, FS_CardinalityType, Zenon
<1>4. ASSUME NEW n
      PROVE  /\ IsFiniteSet(UpTo(P, n)) /\ Cardinality(UpTo(P, n)) \in Nat
             /\ Cardinality(UpTo(P, n)) <= Cardinality(P)
  <2>1. UpTo(P, n) \in SUBSET P
    BY Zenon DEF UpTo
  <2>2. IsFiniteSet(UpTo(P, n)) /\ Cardinality(UpTo(P, n)) <= Cardinality(P)
    BY <1>2, <2>1, FS_Subset, Zenon
  <2> QED BY <2>2, FS_CardinalityType, Zenon
<1> QED BY <1>2, <1>3, <1>4, Zenon

\* One more position counts if it is one of P.
LEMMA NextPosition ==
  ASSUME NEW N \in Nat, NEW P \in SUBSET (1 .. N), NEW n \in Nat \ {0}
  PROVE  Cardinality(UpTo(P, n)) = Cardinality(UpTo(P, n - 1)) + (IF n \in P THEN 1 ELSE 0)
<1>1. IsFiniteSet(UpTo(P, n - 1)) /\ Cardinality(UpTo(P, n - 1)) \in Nat
  BY Positions, Zenon
<1>2. \A m \in P : m \in Int /\ (m <= n <=> m <= n - 1 \/ m = n)
  OBVIOUS
<1>3. ~ (n <= n - 1)
  OBVIOUS
<1>4. CASE n \in P
  <2>1. UpTo(P, n) = UpTo(P, n - 1) \cup {n} /\ n \notin UpTo(P, n - 1)
    BY <1>2, <1>3, <1>4, Zenon DEF UpTo
  <2>2. Cardinality(UpTo(P, n)) = Cardinality(UpTo(P, n - 1)) + 1
    BY <1>1, <2>1, FS_AddElement, Zenon
  <2> QED BY <1>4, <2>2, Zenon
<1>5. CASE n \notin P
  <2>1. UpTo(P, n) = UpTo(P, n - 1)
    BY <1>2, <1>5, Zenon DEF UpTo
  <2>2. Cardinality(UpTo(P, n)) = Cardinality(UpTo(P, n - 1)) + 0
    BY <1>1, <2>1
  <2> QED BY <1>5, <2>2, Zenon
<1> QED BY <1>4, <1>5, Zenon

\* Different positions have different ranks, and every rank is taken.
LEMMA Ranks ==
  ASSUME NEW N \in Nat, NEW P \in SUBSET (1 .. N)
  PROVE  /\ \A m, n \in P : Cardinality(UpTo(P, m)) = Cardinality(UpTo(P, n)) => m = n
         /\ \A n \in P : Cardinality(UpTo(P, n)) \in 1 .. Cardinality(P)
         /\ \A k \in 1 .. Cardinality(P) : \E n \in P : Cardinality(UpTo(P, n)) = k
<1>0. \A n \in P : n \in Int
  OBVIOUS
<1>1. ASSUME NEW m \in P, NEW n \in P, m < n
      PROVE  Cardinality(UpTo(P, m)) # Cardinality(UpTo(P, n))
  <2>0. \A j \in P : j <= m => j <= n
    BY <1>0, <1>1
  <2>1. n <= n /\ ~ (n <= m)
    BY <1>0, <1>1
  <2>2. UpTo(P, m) \in SUBSET UpTo(P, n) /\ UpTo(P, n) # UpTo(P, m)
    BY <2>0, <2>1, Zenon DEF UpTo
  <2>3. IsFiniteSet(UpTo(P, n))
    BY Positions, Zenon
  <2> QED BY <2>2, <2>3, FS_Subset, Zenon
<1>2. ASSUME NEW m \in P, NEW n \in P, Cardinality(UpTo(P, m)) = Cardinality(UpTo(P, n))
      PROVE  m = n
  <2>1. ~ (m < n) /\ ~ (n < m)
    BY <1>1, <1>2, Zenon
  <2> QED BY <1>0, <2>1
<1>3. ASSUME NEW n \in P
      PROVE  Cardinality(UpTo(P, n)) \in 1 .. Cardinality(P)
  <2>1. n <= n
    BY <1>0
  <2>2. UpTo(P, n) # {}
    BY <2>1, Zenon DEF UpTo
  <2>3. /\ IsFiniteSet(UpTo(P, n)) /\ Cardinality(UpTo(P, n)) \in Nat /\ Cardinality(P) \in Nat
        /\ Cardinality(UpTo(P, n)) <= Cardinality(P)
    BY Positions, Zenon
  <2>4. Cardinality(UpTo(P, n)) # 0
    BY <2>2, <2>3, FS_EmptySet, Zenon
  <2> QED BY <2>3, <2>4
<1> DEFINE rank == [n \in P |-> Cardinality(UpTo(P, n))]
<1>4. rank \in Injection(P, 1 .. Cardinality(P))
  BY <1>2, <1>3, Zenon DEF Injection, IsInjective
<1>5. IsFiniteSet(1 .. Cardinality(P)) /\ Cardinality(1 .. Cardinality(P)) = Cardinality(P)
  <2>1. Cardinality(P) \in Nat
    BY Positions, Zenon
  <2>2. Cardinality(P) \in Int /\ 1 \in Int /\ (1 > Cardinality(P) <=> Cardinality(P) = 0)
        /\ Cardinality(P) - 1 + 1 = Cardinality(P)
    BY <2>1
  <2> QED BY <2>2, FS_Interval, Zenon
<1>6. rank \in Surjection(P, 1 .. Cardinality(P))
  BY <1>4, <1>5, FS_Injection, Zenon
<1>7. \A k \in 1 .. Cardinality(P) : \E n \in P : Cardinality(UpTo(P, n)) = k
  BY <1>6, Zenon DEF Surjection
<1> QED BY <1>2, <1>3, <1>7, Zenon

\* Elements takes all of the positions, in their order.
LEMMA ElementsTaken ==
  ASSUME NEW S, NEW s \in Seq(S), NEW P \in SUBSET (DOMAIN s)
  PROVE  /\ Elements(s, P) \in Seq(S) /\ Len(Elements(s, P)) = Cardinality(P)
         /\ Cardinality(P) \in Nat
         /\ \A n \in P : /\ Cardinality(UpTo(P, n)) \in 1 .. Cardinality(P)
                         /\ Elements(s, P)[Cardinality(UpTo(P, n))] = s[n]
<1> DEFINE N == Len(s)
           nth(k) == CHOOSE n \in P : Cardinality(UpTo(P, n)) = k
<1>0. N \in Nat /\ DOMAIN s = 1 .. N /\ \A n \in 1 .. N : s[n] \in S
  OBVIOUS
<1> HIDE DEF N
<1>1. P \in SUBSET (1 .. N)
  BY <1>0, Zenon
<1>2. Cardinality(P) \in Nat
  BY <1>0, <1>1, Positions, Zenon
<1>3. Elements(s, P) = [k \in 1 .. Cardinality(P) |-> s[nth(k)]]
  BY Zenon DEF Elements, UpTo
<1>4. \A k \in 1 .. Cardinality(P) : \E n \in P : Cardinality(UpTo(P, n)) = k
  BY <1>0, <1>1, Ranks, Zenon
<1>5. \A m, n \in P : Cardinality(UpTo(P, m)) = Cardinality(UpTo(P, n)) => m = n
  BY <1>0, <1>1, Ranks, Zenon
<1>6. \A n \in P : Cardinality(UpTo(P, n)) \in 1 .. Cardinality(P)
  BY <1>0, <1>1, Ranks, Zenon
<1>7. \A k \in 1 .. Cardinality(P) : nth(k) \in P /\ Cardinality(UpTo(P, nth(k))) = k
  BY <1>4, Zenon
<1> HIDE DEF nth
<1>8. \A n \in P : nth(Cardinality(UpTo(P, n))) = n
  BY <1>5, <1>6, <1>7, Zenon
<1>9. \A k \in 1 .. Cardinality(P) : s[nth(k)] \in S
  BY <1>0, <1>1, <1>7, Zenon
<1>10. Elements(s, P) \in Seq(S) /\ Len(Elements(s, P)) = Cardinality(P)
  BY <1>2, <1>3, <1>9
<1>11. \A n \in P : Elements(s, P)[Cardinality(UpTo(P, n))] = s[n]
  BY <1>3, <1>6, <1>8, Zenon
<1> QED BY <1>2, <1>6, <1>10, <1>11, Zenon

-----------------------------------------------------------------------------
LEMMA StripNewlinesType ==
  ASSUME NEW c \in Seq(Items)
  PROVE  StripNewlines(c) \in Seq(Items)
<1> DEFINE P == {n \in DOMAIN c : c[n] # Newline}
<1>1. P \in SUBSET (DOMAIN c)
  BY Zenon
<1> HIDE DEF P
<1>2. Elements(c, P) \in Seq(Items)
  BY <1>1, ElementsTaken, Zenon
<1> QED BY <1>2, Zenon DEF P, StripNewlines

LEMMA ReplaceByType ==
  ASSUME NEW c \in Seq(Items), NEW x
  PROVE  ReplaceBy(c, x) \in Seq(Items)
<1>1. Comma \in Items
  BY SpeakttsAssumption
<1> QED BY <1>1 DEF ReplaceBy

LEMMA SplitType ==
  ASSUME NEW c \in Seq(Items)
  PROVE  SplitAtCommas(c) \in Seq(Seq(Items))
<1> DEFINE commas == {n \in DOMAIN c : c[n] = Comma}
           before(n) == Cardinality({m \in commas : m < n})
           part(k) == {n \in DOMAIN c \ commas : before(n) = k - 1}
           N == Len(c)
<1>0. N \in Nat /\ DOMAIN c = 1 .. N
  OBVIOUS
<1>1. commas \in SUBSET (DOMAIN c) /\ \A k : part(k) \in SUBSET (DOMAIN c)
  BY Zenon
<1>2. SplitAtCommas(c) = [k \in 1 .. Cardinality(commas) + 1 |-> Elements(c, part(k))]
  BY Zenon DEF SplitAtCommas
<1> HIDE DEF commas, before, part, N
<1>3. \A k : Elements(c, part(k)) \in Seq(Items)
  BY <1>1, ElementsTaken, Zenon
<1>4. commas \in SUBSET (1 .. N)
  BY <1>0, <1>1, Zenon
<1>5. Cardinality(commas) \in Nat
  BY <1>0, <1>4, Positions, Zenon
<1> DEFINE C == Cardinality(commas) + 1
           piece(k) == Elements(c, part(k))
<1>6. C \in Nat /\ \A k \in 1 .. C : piece(k) \in Seq(Items)
  BY <1>3, <1>5
<1>7. SplitAtCommas(c) = [k \in 1 .. C |-> piece(k)]
  BY <1>2, Zenon
<1> HIDE DEF C, piece
<1> QED BY <1>6, <1>7

LEMMA TrimType ==
  ASSUME NEW s \in Seq(Items)
  PROVE  Trim(s) \in Seq(Items)
<1> DEFINE ink == {n \in DOMAIN s : s[n] \notin {Blank, Newline}}
           P == {n \in DOMAIN s : \E j, k \in ink : j <= n /\ n <= k}
<1>1. P \in SUBSET (DOMAIN s) /\ Trim(s) = Elements(s, P)
  BY Zenon DEF Trim
<1> HIDE DEF P
<1> QED BY <1>1, ElementsTaken, Zenon

\* What the models are given for a piece is never empty: it ends in a silence.
LEMMA ftType ==
  ASSUME NEW str \in Seq(Items)
  PROVE  ft(str) \in Seq(Phones) /\ ft(str) # <<>>
<1> DEFINE codes == [n \in DOMAIN str |-> Phone[str[n]]]
           P == {n \in DOMAIN str : codes[n] # 0}
           ids == Elements(codes, P)
<1>1. \A x \in Items : Phone[x] \in Phones
  BY Zenon DEF Phones
<1>2. Sil \in Phones
  BY Zenon DEF Phones
<1>3. codes \in Seq(Phones) /\ DOMAIN codes = DOMAIN str
  BY <1>1
<1>4. P \in SUBSET (DOMAIN codes)
  BY <1>3, Zenon
<1>5. ft(str) = (IF ids = <<>> THEN <<Sil>> ELSE ids) \o <<Sil>>
  BY Zenon DEF ft
<1> HIDE DEF codes, P
<1>6. ids \in Seq(Phones)
  BY <1>3, <1>4, ElementsTaken, Zenon
<1> HIDE DEF ids
<1> DEFINE body == IF ids = <<>> THEN <<Sil>> ELSE ids
<1>7. body \in Seq(Phones)
  BY <1>2, <1>6
<1>8. ft(str) = body \o <<Sil>>
  BY <1>5, Zenon
<1> HIDE DEF body
<1> QED BY <1>2, <1>7, <1>8

-----------------------------------------------------------------------------
\* The rounds of the thread's loop: the first strips, each later one replaces one
\* more separator, and after the last one the text is clean.
LEMMA Rounds ==
  ASSUME NEW text \in Seq(Items)
  PROVE  /\ Worked(text, 1) = StripNewlines(text)
         /\ \A r \in 1 .. Len(charSplit) : Worked(text, r + 1) = ReplaceBy(Worked(text, r), charSplit[r])
         /\ Worked(text, Len(charSplit) + 1) = Cleaned(text)
         /\ Cleaned(text) \in Seq(Items)
<1> DEFINE s == StripNewlines(text)
           Gone(x, r) == \E j \in DOMAIN charSplit : j < r /\ x = charSplit[j]
           After(r) == [n \in DOMAIN s |-> IF Gone(s[n], r) THEN Comma ELSE s[n]]
<1>0. s \in Seq(Items) /\ charSplit \in Seq(Items) /\ Comma \in Items
  BY SMTT(30), StripNewlinesType, SpeakttsAssumption
<1>1. \A r : r # 0 => Worked(text, r) = After(r)
  BY Zenon DEF Worked
<1> HIDE DEF s
<1>2. After(1) = s
  <2>1. \A x : ~Gone(x, 1)
    BY <1>0
  <2> HIDE DEF Gone
  <2>2. After(1) = [n \in DOMAIN s |-> s[n]]
    BY <2>1, Zenon
  <2> QED BY <1>0, <2>2
<1>3. ASSUME NEW r \in 1 .. Len(charSplit)
      PROVE  After(r + 1) = ReplaceBy(After(r), charSplit[r])
  <2>1. \A x : Gone(x, r + 1) <=> Gone(x, r) \/ x = charSplit[r]
    BY <1>0
  <2> HIDE DEF Gone
  <2>2. ReplaceBy(After(r), charSplit[r])
        = [n \in DOMAIN s |-> IF (IF Gone(s[n], r) THEN Comma ELSE s[n]) = charSplit[r]
                              THEN Comma ELSE (IF Gone(s[n], r) THEN Comma ELSE s[n])]
    BY Zenon DEF ReplaceBy
  <2>3. \A x : (IF (IF Gone(x, r) THEN Comma ELSE x) = charSplit[r]
                THEN Comma ELSE (IF Gone(x, r) THEN Comma ELSE x))
               = IF Gone(x, r + 1) THEN Comma ELSE x
    BY <2>1, Zenon
  <2> QED BY <2>2, <2>3, Zenon
<1>4. After(Len(charSplit) + 1) = Cleaned(text)
  <2>1. \A x : Gone(x, Len(charSplit) + 1) <=> \E k \in DOMAIN charSplit : x = charSplit[k]
    BY <1>0
  <2> HIDE DEF Gone
  <2> QED BY <2>1, Zenon DEF Cleaned, s
<1>5. Cleaned(text) \in Seq(Items)
  <2> DEFINE Split(x) == \E k \in DOMAIN charSplit : x = charSplit[k]
  <2>1. Cleaned(text) = [n \in DOMAIN s |-> IF Split(s[n]) THEN Comma ELSE s[n]]
    BY Zenon DEF Cleaned, s
  <2> HIDE DEF Split
  <2> DEFINE item(n) == IF Split(s[n]) THEN Comma ELSE s[n]
  <2>2. Len(s) \in Nat /\ DOMAIN s = 1 .. Len(s) /\ \A n \in DOMAIN s : item(n) \in Items
    BY <1>0
  <2>3. Cleaned(text) = [n \in 1 .. Len(s) |-> item(n)]
    BY <2>1, <2>2, Zenon
  <2> HIDE DEF item
  <2> QED BY <2>2, <2>3
<1>6. 1 # 0 /\ Len(charSplit) + 1 # 0 /\ \A r \in 1 .. Len(charSplit) : r # 0 /\ r + 1 # 0
  BY <1>0
<1> HIDE DEF After
<1> QED BY <1>1, <1>2, <1>3, <1>4, <1>5, <1>6, Zenon DEF s

-----------------------------------------------------------------------------
\* Speaking piece after piece, skipping the blank ones, says what is expected: the
\* piece at i is the expected one at SaidBy(text, i).
LEMMA ExpectedPieces ==
  ASSUME NEW text \in Seq(Items)
  PROVE  /\ Pieces(text) \in Seq(Seq(Items))
         /\ Expected(text) \in Seq(Seq(Phones))
         /\ SaidBy(text, 0) = 0
         /\ SaidBy(text, Len(Pieces(text))) = Len(Expected(text))
         /\ \A i \in Nat : SaidBy(text, i) \in 0 .. Len(Expected(text))
         /\ \A i \in Nat \ {0} :
              SaidBy(text, i) = SaidBy(text, i - 1) + (IF i \in Inked(text) THEN 1 ELSE 0)
         /\ \A i \in Inked(text) :
              /\ SaidBy(text, i) \in 1 .. Len(Expected(text))
              /\ Expected(text)[SaidBy(text, i)] = ft(Trim(Pieces(text)[i]))
<1> DEFINE pieces == Pieces(text)
           g == [n \in DOMAIN pieces |-> ft(Trim(pieces[n]))]
           N == Len(pieces)
           P == Inked(text)
<1>1. pieces \in Seq(Seq(Items))
  BY Rounds, SplitType, Zenon DEF Pieces
<1>2. P \in SUBSET (DOMAIN pieces)
  BY Zenon DEF Inked
<1>3. Expected(text) = Elements(g, P)
  BY Zenon DEF Expected, Pieces, Inked
<1> HIDE DEF pieces, P
<1>4. \A n \in DOMAIN pieces : ft(Trim(pieces[n])) \in Seq(Phones)
  <2>1. \A n \in DOMAIN pieces : pieces[n] \in Seq(Items)
    BY <1>1
  <2> QED BY <2>1, TrimType, ftType, Zenon
<1>5. g \in Seq(Seq(Phones)) /\ DOMAIN g = DOMAIN pieces /\ N \in Nat /\ DOMAIN pieces = 1 .. N
  BY SMTT(30), <1>1, <1>4
<1>6. \A n \in DOMAIN pieces : g[n] = ft(Trim(pieces[n]))
  BY Zenon
<1> HIDE DEF g, N
<1>7. P \in SUBSET (DOMAIN g) /\ P \in SUBSET (1 .. N)
  BY <1>2, <1>5, Zenon
<1>8. /\ Expected(text) \in Seq(Seq(Phones)) /\ Len(Expected(text)) = Cardinality(P)
      /\ \A n \in P : /\ Cardinality(UpTo(P, n)) \in 1 .. Cardinality(P)
                      /\ Expected(text)[Cardinality(UpTo(P, n))] = g[n]
  BY <1>3, <1>5, <1>7, ElementsTaken, ZenonT(40)
<1>9. UpTo(P, 0) = {} /\ UpTo(P, N) = P
  <2>1. \A n \in P : n <= N /\ ~ (n <= 0)
    BY <1>5, <1>7
  <2> QED BY <2>1, Zenon DEF UpTo
<1>10. SaidBy(text, 0) = 0 /\ SaidBy(text, N) = Len(Expected(text))
  BY <1>8, <1>9, FS_EmptySet, Zenon DEF SaidBy, P
<1>11. \A i \in Nat : SaidBy(text, i) \in 0 .. Len(Expected(text))
  <2>1. \A i \in Nat : /\ SaidBy(text, i) \in Nat /\ SaidBy(text, i) <= Cardinality(P)
                       /\ Cardinality(P) \in Nat
    BY <1>5, <1>7, Positions, Zenon DEF SaidBy, P
  <2> QED BY SMTT(30), <1>8, <2>1
<1>12. \A i \in Nat \ {0} : SaidBy(text, i) = SaidBy(text, i - 1) + (IF i \in P THEN 1 ELSE 0)
  BY <1>5, <1>7, NextPosition, Zenon DEF SaidBy, P
<1>13. \A i \in P : /\ SaidBy(text, i) \in 1 .. Len(Expected(text))
                    /\ Expected(text)[SaidBy(text, i)] = ft(Trim(pieces[i]))
  BY <1>2, <1>6, <1>8, Zenon DEF SaidBy, P
<1> QED BY <1>1, <1>8, <1>10, <1>11, <1>12, <1>13, Zenon DEF pieces, P, N

LEMMA TextHolds == TextTypes /\ TextSteps
<1>1. TextTypes
  BY StripNewlinesType, ReplaceByType, SplitType, TrimType, ftType, Zenon DEF TextTypes
<1>2. TextSteps
  BY Rounds, ExpectedPieces, Zenon DEF TextSteps
<1> QED BY <1>1, <1>2, Zenon

-----------------------------------------------------------------------------
(* Elements of elements. *)

\* Rank numbers the positions in P from 1 to their number, in their order.
Ranked(P) ==
  /\ IsFiniteSet(P) /\ Cardinality(P) \in Nat
  /\ \A n \in P : n \in Nat /\ Rank(P, n) \in 1 .. Cardinality(P)
  /\ \A m, n \in P : m <= n <=> Rank(P, m) <= Rank(P, n)
  /\ \A m, n \in P : Rank(P, m) = Rank(P, n) => m = n
  /\ \A k \in 1 .. Cardinality(P) : \E n \in P : Rank(P, n) = k

LEMMA RankFacts ==
  ASSUME NEW N \in Nat, NEW P \in SUBSET (1 .. N)
  PROVE  Ranked(P)
<1>1. /\ \A m, n \in P : Rank(P, m) = Rank(P, n) => m = n
      /\ \A n \in P : Rank(P, n) \in 1 .. Cardinality(P)
      /\ \A k \in 1 .. Cardinality(P) : \E n \in P : Rank(P, n) = k
  BY Ranks, Zenon DEF Rank
<1>2. IsFiniteSet(P) /\ Cardinality(P) \in Nat /\ \A n : IsFiniteSet(UpTo(P, n))
  BY Positions, Zenon
<1>3. \A n \in P : n \in Nat /\ Rank(P, n) \in Nat
  BY <1>1, <1>2
<1>4. ASSUME NEW m \in P, NEW n \in P, m <= n
      PROVE  Rank(P, m) <= Rank(P, n)
  <2>1. \A j \in P : j <= m => j <= n
    BY <1>3, <1>4
  <2>2. UpTo(P, m) \in SUBSET UpTo(P, n)
    BY <2>1, Zenon DEF UpTo
  <2> QED BY <1>2, <2>2, FS_Subset, Zenon DEF Rank
<1>5. ASSUME NEW m \in P, NEW n \in P, Rank(P, m) <= Rank(P, n)
      PROVE  m <= n
  <2>1. CASE n <= m
    <3>1. Rank(P, n) <= Rank(P, m)
      BY <1>4, <2>1, Zenon
    <3>2. Rank(P, m) = Rank(P, n)
      BY <1>3, <1>5, <3>1
    <3>3. m = n
      BY <1>1, <3>2, Zenon
    <3> QED BY <1>3, <3>3
  <2> QED BY <1>3, <2>1
<1> QED BY <1>1, <1>2, <1>3, <1>4, <1>5, Zenon DEF Ranked

\* The positions in P whose ranks are in Q are ranked as Q ranks these.
Under(P, Q) == {n \in P : Rank(P, n) \in Q}

SubRanked(P, Q) ==
  /\ Under(P, Q) \in SUBSET P
  /\ Cardinality(Under(P, Q)) = Cardinality(Q)
  /\ \A n \in Under(P, Q) : Rank(P, n) \in Q /\ Rank(Under(P, Q), n) = Rank(Q, Rank(P, n))

LEMMA SubRanks ==
  ASSUME NEW N \in Nat, NEW P \in SUBSET (1 .. N), NEW Q \in SUBSET (1 .. Cardinality(P))
  PROVE  SubRanked(P, Q)
<1> DEFINE R == Under(P, Q)
<1>0. R \in SUBSET (1 .. N) /\ R \in SUBSET P
  BY Zenon DEF Under
<1>1. /\ \A n \in P : n \in Nat /\ Rank(P, n) \in 1 .. Cardinality(P)
      /\ \A m, n \in P : m <= n <=> Rank(P, m) <= Rank(P, n)
      /\ \A m, n \in P : Rank(P, m) = Rank(P, n) => m = n
      /\ \A k \in 1 .. Cardinality(P) : \E n \in P : Rank(P, n) = k
  <2>1. Ranked(P)
    BY RankFacts, Zenon
  <2> QED BY <2>1, Zenon DEF Ranked
<1>2. IsFiniteSet(R) /\ \A n : IsFiniteSet(UpTo(R, n))
  BY <1>0, Positions, Zenon
<1>3. ASSUME NEW A \in SUBSET R, IsFiniteSet(A), NEW B \in SUBSET Q,
             \A n \in R : n \in A <=> Rank(P, n) \in B
      PROVE  Cardinality(A) = Cardinality(B)
  <2> DEFINE f == [n \in A |-> Rank(P, n)]
  <2>1. \A k \in B : \E n \in A : Rank(P, n) = k
    BY <1>1, <1>3, Zenon DEF Under
  <2>2. f \in Surjection(A, B)
    BY <1>3, <2>1, Zenon DEF Surjection
  <2>3. f \in Injection(A, B)
    BY <1>0, <1>1, <1>3, Zenon DEF Injection, IsInjective
  <2> QED BY <1>3, <2>2, <2>3, FS_Surjection, Zenon
<1>4. Cardinality(R) = Cardinality(Q)
  <2>1. \A n \in R : n \in R <=> Rank(P, n) \in Q
    BY Zenon DEF Under
  <2> QED BY <1>2, <1>3, <2>1, Zenon
<1>5. ASSUME NEW n \in R
      PROVE  Rank(R, n) = Rank(Q, Rank(P, n))
  <2>1. UpTo(R, n) \in SUBSET R /\ UpTo(Q, Rank(P, n)) \in SUBSET Q
    BY Zenon DEF UpTo
  <2>2. \A m \in R : m \in UpTo(R, n) <=> Rank(P, m) \in UpTo(Q, Rank(P, n))
    BY <1>0, <1>1, Zenon DEF UpTo, Under
  <2> QED BY <1>2, <1>3, <2>1, <2>2, Zenon DEF Rank
<1>6. \A n \in R : Rank(P, n) \in Q
  BY Zenon DEF Under
<1> QED BY <1>0, <1>4, <1>5, <1>6, Zenon DEF SubRanked

\* Elements(s, P) by the ranks of its positions.
TakenFrom(e, S, s, P) ==
  /\ e \in Seq(S) /\ Len(e) = Cardinality(P) /\ DOMAIN e = 1 .. Cardinality(P)
  /\ \A n \in P : e[Rank(P, n)] = s[n]

LEMMA ElementsRanked ==
  ASSUME NEW S, NEW s \in Seq(S), NEW P \in SUBSET (DOMAIN s)
  PROVE  TakenFrom(Elements(s, P), S, s, P)
<1>1. /\ Elements(s, P) \in Seq(S) /\ Len(Elements(s, P)) = Cardinality(P)
      /\ \A n \in P : Elements(s, P)[Rank(P, n)] = s[n]
  BY ElementsTaken, Zenon DEF Rank
<1>2. DOMAIN Elements(s, P) = 1 .. Cardinality(P)
  BY <1>1
<1> QED BY <1>1, <1>2, Zenon DEF TakenFrom

\* A sequence with the right elements at the ranks of P is Elements(s, P).
LEMMA ElementsUnique ==
  ASSUME NEW S, NEW s \in Seq(S), NEW P \in SUBSET (DOMAIN s),
         NEW T, NEW e \in Seq(T), Len(e) = Cardinality(P), \A n \in P : e[Rank(P, n)] = s[n]
  PROVE  e = Elements(s, P)
<1> DEFINE N == Len(s)
           x == Elements(s, P)
<1>0. N \in Nat /\ DOMAIN s = 1 .. N
  OBVIOUS
<1>1. x \in Seq(S) /\ Len(x) = Cardinality(P) /\ \A n \in P : x[Rank(P, n)] = s[n]
  BY ElementsRanked, Zenon DEF TakenFrom
<1> HIDE DEF N, x
<1>2. \A k \in 1 .. Cardinality(P) : \E n \in P : Rank(P, n) = k
  <2>1. Ranked(P)
    BY <1>0, RankFacts, Zenon
  <2> QED BY <2>1, Zenon DEF Ranked
<1>3. \A k \in 1 .. Cardinality(P) : e[k] = x[k]
  BY <1>1, <1>2, Zenon
<1>4. e = x
  BY <1>1, <1>3
<1> QED BY <1>4, Zenon DEF x

\* Elements of elements are elements (S names the set they are in).
Nested(S, s, P, Q) == Elements(Elements(s, P), Q) = Elements(s, Under(P, Q))

LEMMA ElementsOfElements ==
  ASSUME NEW S, NEW s \in Seq(S), NEW P \in SUBSET (DOMAIN s), NEW Q \in SUBSET (1 .. Cardinality(P))
  PROVE  Nested(S, s, P, Q)
<1> DEFINE N == Len(s)
           e == Elements(s, P)
           R == Under(P, Q)
<1>0. N \in Nat /\ DOMAIN s = 1 .. N
  OBVIOUS
<1> HIDE DEF N
<1>1. e \in Seq(S) /\ DOMAIN e = 1 .. Cardinality(P) /\ \A n \in P : e[Rank(P, n)] = s[n]
  BY ElementsRanked, Zenon DEF TakenFrom
<1>2. R \in SUBSET (DOMAIN s) /\ Cardinality(R) = Cardinality(Q) /\ \A n \in R : Rank(R, n) = Rank(Q, Rank(P, n))
  <2>1. SubRanked(P, Q)
    BY <1>0, SubRanks, Zenon
  <2> QED BY <2>1, Zenon DEF SubRanked
<1>3. \A n \in R : n \in P /\ Rank(P, n) \in Q
  BY Zenon DEF Under
<1> HIDE DEF e, R
<1>4. Q \in SUBSET (DOMAIN e)
  BY <1>1, Zenon
<1>5. Elements(e, Q) \in Seq(S) /\ Len(Elements(e, Q)) = Cardinality(Q)
      /\ \A q \in Q : Elements(e, Q)[Rank(Q, q)] = e[q]
  BY <1>1, <1>4, ElementsRanked, Zenon DEF TakenFrom
<1>6. \A n \in R : Elements(e, Q)[Rank(R, n)] = s[n]
  BY <1>1, <1>2, <1>3, <1>5, Zenon
<1>7. Len(Elements(e, Q)) = Cardinality(R)
  BY <1>2, <1>5, Zenon
<1>8. Elements(e, Q) = Elements(s, R)
  BY <1>2, <1>5, <1>6, <1>7, ElementsUnique, Zenon
<1> QED BY <1>8, Zenon DEF e, R, Nested

\* A subsequence.
LEMMA SubSeqElements ==
  ASSUME NEW S, NEW s \in Seq(S), NEW j \in DOMAIN s, NEW k \in DOMAIN s, j <= k
  PROVE  /\ j .. k \in SUBSET (DOMAIN s)
         /\ SubSeq(s, j, k) = Elements(s, j .. k)
<1>0. j .. k \in SUBSET (DOMAIN s) /\ j \in Int /\ k \in Int /\ ~ (j > k)
  OBVIOUS
<1>1. SubSeq(s, j, k) \in Seq(S) /\ Len(SubSeq(s, j, k)) = k - j + 1
      /\ \A n \in j .. k : SubSeq(s, j, k)[n - j + 1] = s[n]
  <2>1. /\ SubSeq(s, j, k) \in Seq(S) /\ Len(SubSeq(s, j, k)) = k - j + 1
        /\ \A i \in 1 .. k - j + 1 : SubSeq(s, j, k)[i] = s[j + i - 1]
    OBVIOUS
  <2>2. \A n \in j .. k : n - j + 1 \in 1 .. k - j + 1 /\ j + (n - j + 1) - 1 = n
    BY <1>0
  <2> QED BY <2>1, <2>2, Zenon
<1>2. Cardinality(j .. k) = k - j + 1
  BY <1>0, FS_Interval, Zenon
<1>3. ASSUME NEW n \in j .. k
      PROVE  Rank(j .. k, n) = n - j + 1
  <2>1. n \in Int /\ ~ (j > n) /\ \A m : m \in j .. k /\ m <= n <=> m \in j .. n
    BY <1>0
  <2>2. UpTo(j .. k, n) = j .. n
    BY <2>1, Zenon DEF UpTo
  <2> QED BY <1>0, <2>1, <2>2, FS_Interval, Zenon DEF Rank
<1>4. \A n \in j .. k : SubSeq(s, j, k)[Rank(j .. k, n)] = s[n]
  BY <1>1, <1>3, Zenon
<1>5. Len(SubSeq(s, j, k)) = Cardinality(j .. k)
  BY <1>1, <1>2, Zenon
<1> QED BY <1>0, <1>1, <1>4, <1>5, ElementsUnique, Zenon

-----------------------------------------------------------------------------
(* What is drawn from a text. *)

\* The phones of some elements of s are those at their positions that have one.
Phonetic(s, W) ==
  LET ids == Elements([n \in DOMAIN s |-> Phone[s[n]]], W)
  IN  (IF ids = <<>> THEN <<Sil>> ELSE ids) \o <<Sil>>

LEMMA ftElements ==
  ASSUME NEW s \in Seq(Items), NEW P \in SUBSET (DOMAIN s)
  PROVE  ft(Elements(s, P)) = Phonetic(s, {n \in P : Phone[s[n]] # 0})
<1> DEFINE N == Len(s)
           e == Elements(s, P)
           codes == [n \in DOMAIN s |-> Phone[s[n]]]
           coded == [n \in DOMAIN e |-> Phone[e[n]]]
           Q == {n \in DOMAIN e : coded[n] # 0}
<1>0. N \in Nat /\ DOMAIN s = 1 .. N
  OBVIOUS
<1>1. /\ e \in Seq(Items) /\ Len(e) = Cardinality(P) /\ DOMAIN e = 1 .. Cardinality(P)
      /\ \A n \in P : e[Rank(P, n)] = s[n]
  BY ElementsRanked, Zenon DEF TakenFrom
<1>2. \A n \in P : Rank(P, n) \in 1 .. Cardinality(P)
  BY <1>0, RankFacts, Zenon DEF Ranked
<1>3. \A x \in Items : Phone[x] \in Phones
  BY Zenon DEF Phones
<1>4. codes \in Seq(Phones) /\ DOMAIN codes = DOMAIN s
  BY <1>3
<1>5. ft(e) = (IF Elements(coded, Q) = <<>> THEN <<Sil>> ELSE Elements(coded, Q)) \o <<Sil>>
  BY Zenon DEF ft
<1>6. \A n \in P : coded[Rank(P, n)] = codes[n]
  BY <1>0, <1>1, <1>2, Zenon
<1>7. Q \in SUBSET (1 .. Cardinality(P)) /\ Under(P, Q) = {n \in P : Phone[s[n]] # 0}
  BY <1>1, <1>2, Zenon DEF Under
<1> HIDE DEF e, N, Q
<1>8. coded \in Seq(Phones) /\ Len(coded) = Cardinality(P)
  BY <1>1, <1>3
<1> HIDE DEF codes, coded
<1>9. P \in SUBSET (DOMAIN codes)
  BY <1>4, Zenon
<1>10. coded = Elements(codes, P)
  BY <1>4, <1>6, <1>8, <1>9, ElementsUnique, Zenon
<1>11. Elements(coded, Q) = Elements(codes, Under(P, Q))
  <2>1. Nested(Phones, codes, P, Q)
    BY <1>4, <1>7, <1>9, ElementsOfElements, Zenon
  <2> QED BY <1>10, <2>1, Zenon DEF Nested
<1> QED BY <1>5, <1>7, <1>11, Zenon DEF Phonetic, codes, e

LEMMA WholeRanks ==
  ASSUME NEW N \in Nat
  PROVE  Cardinality(1 .. N) = N /\ \A n \in 1 .. N : Rank(1 .. N, n) = n
<1>1. 1 \in Int /\ N \in Int /\ (IF 1 > N THEN 0 ELSE N - 1 + 1) = N
  OBVIOUS
<1>2. Cardinality(1 .. N) = N
  BY <1>1, FS_Interval, Zenon
<1>3. ASSUME NEW n \in 1 .. N
      PROVE  Rank(1 .. N, n) = n
  <2>1. n \in Int /\ (IF 1 > n THEN 0 ELSE n - 1 + 1) = n /\ \A m : m \in 1 .. N /\ m <= n <=> m \in 1 .. n
    OBVIOUS
  <2>2. UpTo(1 .. N, n) = 1 .. n
    BY <2>1, Zenon DEF UpTo
  <2> QED BY <1>1, <2>1, <2>2, FS_Interval, Zenon DEF Rank
<1> QED BY <1>2, <1>3, Zenon

LEMMA DrawnItself ==
  ASSUME NEW text \in Seq(Items)
  PROVE  Drawn(text, text)
<1> DEFINE N == Len(text)
<1>0. N \in Nat /\ DOMAIN text = 1 .. N
  OBVIOUS
<1>1. Cardinality(1 .. N) = N /\ \A n \in 1 .. N : Rank(1 .. N, n) = n
  BY <1>0, WholeRanks, Zenon
<1> HIDE DEF N
<1>2. Len(text) = Cardinality(DOMAIN text) /\ \A n \in DOMAIN text : Rank(DOMAIN text, n) = n
  BY <1>0, <1>1, Zenon DEF N
<1> QED BY <1>2, Zenon DEF Drawn

\* The positions of a text that something is drawn from.
DrawnAt(c, text, P) ==
  /\ P \in SUBSET (DOMAIN text)
  /\ \A n \in DOMAIN text : text[n] # Newline => n \in P
  /\ Len(c) = Cardinality(P)
  /\ \A n \in P : c[Rank(P, n)] \in {text[n], Comma}

LEMMA DrawnFacts ==
  ASSUME NEW text \in Seq(Items), NEW c \in Seq(Items), NEW P, DrawnAt(c, text, P)
  PROVE  /\ P \in SUBSET (1 .. Len(text)) /\ Len(text) \in Nat
         /\ DOMAIN c = 1 .. Cardinality(P) /\ DOMAIN c = 1 .. Len(c) /\ Len(c) \in Nat
         /\ \A n \in P : Rank(P, n) \in DOMAIN c
<1>1. DOMAIN text = 1 .. Len(text) /\ DOMAIN c = 1 .. Len(c) /\ Len(text) \in Nat /\ Len(c) \in Nat
  OBVIOUS
<1>2. P \in SUBSET (1 .. Len(text)) /\ Len(c) = Cardinality(P)
  BY <1>1, Zenon DEF DrawnAt
<1>3. \A n \in P : Rank(P, n) \in 1 .. Cardinality(P)
  BY <1>1, <1>2, RankFacts, Zenon DEF Ranked
<1> QED BY <1>1, <1>2, <1>3, Zenon

LEMMA DrawnReplaced ==
  ASSUME NEW text \in Seq(Items), NEW c \in Seq(Items), Drawn(c, text), NEW x
  PROVE  Drawn(ReplaceBy(c, x), text)
<1>1. PICK P \in SUBSET (DOMAIN text) : DrawnAt(c, text, P)
  BY Zenon DEF Drawn, DrawnAt
<1>2. \A n \in P : Rank(P, n) \in DOMAIN c
  BY <1>1, DrawnFacts, Zenon
<1>3. \A k \in DOMAIN c : ReplaceBy(c, x)[k] \in {c[k], Comma}
  BY Zenon DEF ReplaceBy
<1>4. Len(ReplaceBy(c, x)) = Len(c)
  BY DEF ReplaceBy
<1>5. \A n \in P : ReplaceBy(c, x)[Rank(P, n)] \in {text[n], Comma}
  BY <1>1, <1>2, <1>3, Zenon DEF DrawnAt
<1> QED BY <1>1, <1>4, <1>5, Zenon DEF Drawn, DrawnAt

LEMMA DrawnStripped ==
  ASSUME NEW text \in Seq(Items), NEW c \in Seq(Items), Drawn(c, text)
  PROVE  Drawn(StripNewlines(c), text)
<1> DEFINE Q == {k \in DOMAIN c : c[k] # Newline}
           e == Elements(c, Q)
<1>0. e = StripNewlines(c) /\ Q \in SUBSET (DOMAIN c) /\ Comma # Newline
  BY SpeakttsAssumption, Zenon DEF StripNewlines
<1>1. PICK P \in SUBSET (DOMAIN text) : DrawnAt(c, text, P)
  BY Zenon DEF Drawn, DrawnAt
<1> DEFINE R == Under(P, Q)
<1>2. /\ P \in SUBSET (1 .. Len(text)) /\ Len(text) \in Nat /\ Q \in SUBSET (1 .. Cardinality(P))
      /\ \A n \in P : Rank(P, n) \in DOMAIN c
  BY <1>0, <1>1, DrawnFacts, Zenon
<1>3. /\ \A n \in DOMAIN text : text[n] # Newline => n \in R
      /\ \A n \in R : n \in P /\ Rank(P, n) \in Q
  BY <1>0, <1>1, <1>2, Zenon DEF DrawnAt, Under
<1> HIDE DEF Q
<1>4. Cardinality(R) = Cardinality(Q) /\ \A n \in R : Rank(R, n) = Rank(Q, Rank(P, n))
  <2>1. SubRanked(P, Q)
    BY <1>2, SubRanks, Zenon
  <2> QED BY <2>1, Zenon DEF SubRanked
<1> HIDE DEF R
<1>5. Len(e) = Cardinality(Q) /\ \A k \in Q : e[Rank(Q, k)] = c[k]
  BY <1>0, ElementsRanked, Zenon DEF TakenFrom
<1> HIDE DEF e
<1>6. \A n \in R : e[Rank(R, n)] \in {text[n], Comma}
  BY <1>1, <1>3, <1>4, <1>5, Zenon DEF DrawnAt
<1>7. R \in SUBSET (DOMAIN text) /\ Len(e) = Cardinality(R)
  BY <1>3, <1>4, <1>5, Zenon
<1> QED BY <1>0, <1>3, <1>6, <1>7, Zenon DEF Drawn

\* A non-empty set of positions has a first and a last one.
LEMMA Ends ==
  ASSUME NEW N \in Nat, NEW P \in SUBSET (1 .. N), P # {}
  PROVE  \E a, b \in P : \A n \in P : a <= n /\ n <= b
<1>1. Ranked(P)
  BY RankFacts, Zenon
<1> DEFINE C == Cardinality(P)
<1>2. C \in Nat /\ \A n \in P : Rank(P, n) \in 1 .. C
  BY <1>1, Zenon DEF Ranked
<1>3. PICK n \in P : TRUE
  BY Zenon
<1>4. Rank(P, n) \in 1 .. C
  BY <1>2, Zenon
<1> HIDE DEF C
<1>5. 1 \in 1 .. C /\ C \in 1 .. C
  BY <1>2, <1>4
<1>6. PICK a \in P, b \in P : Rank(P, a) = 1 /\ Rank(P, b) = C
  BY <1>1, <1>5, Zenon DEF Ranked, C
<1>7. \A m \in P : Rank(P, a) <= Rank(P, m) /\ Rank(P, m) <= Rank(P, b)
  BY <1>2, <1>6
<1>8. \A m \in P : a <= m /\ m <= b
  BY <1>1, <1>7, Zenon DEF Ranked
<1> QED BY <1>8, Zenon

\* What is left of a piece after trim() is a stretch of the content without commas,
\* with ink at both ends.
LEMMA TrimmedPiece ==
  ASSUME NEW c \in Seq(Items), NEW i \in DOMAIN SplitAtCommas(c),
         Trim(SplitAtCommas(c)[i]) # <<>>
  PROVE  \E a, b \in DOMAIN c :
           /\ a <= b /\ c[a] # Newline /\ c[b] # Newline
           /\ \A n \in a .. b : n \in DOMAIN c /\ c[n] # Comma
           /\ Trim(SplitAtCommas(c)[i]) = Elements(c, a .. b)
<1> DEFINE N == Len(c)
           commas == {n \in DOMAIN c : c[n] = Comma}
           Lower(n) == {m \in commas : m < n}
           part == {n \in DOMAIN c \ commas : Cardinality(Lower(n)) = i - 1}
           piece == Elements(c, part)
           ink == {n \in DOMAIN piece : piece[n] \notin {Blank, Newline}}
           mid == {n \in DOMAIN piece : \E j, k \in ink : j <= n /\ n <= k}
           T == Under(part, mid)
           inkc == {n \in part : c[n] \notin {Blank, Newline}}
<1>0. N \in Nat /\ DOMAIN c = 1 .. N
  OBVIOUS
<1>1. SplitAtCommas(c)[i] = piece
  BY Zenon DEF SplitAtCommas
<1>2. Trim(piece) = Elements(piece, mid)
  BY Zenon DEF Trim
<1>3. part \in SUBSET (DOMAIN c) /\ commas \in SUBSET (DOMAIN c)
      /\ (\A n \in part : c[n] # Comma) /\ \A n \in DOMAIN c : n \notin commas /\ Cardinality(Lower(n)) = i - 1 => n \in part
  BY Zenon
<1>4. /\ piece \in Seq(Items) /\ DOMAIN piece = 1 .. Cardinality(part)
      /\ \A n \in part : piece[Rank(part, n)] = c[n]
  <2> HIDE DEF part
  <2>1. TakenFrom(piece, Items, c, part)
    BY <1>3, ElementsRanked, Zenon
  <2> HIDE DEF piece
  <2> QED BY <2>1, Zenon DEF TakenFrom
<1>5. /\ \A n \in part : n \in Nat /\ Rank(part, n) \in 1 .. Cardinality(part)
      /\ \A m, n \in part : m <= n <=> Rank(part, m) <= Rank(part, n)
      /\ \A k \in 1 .. Cardinality(part) : \E n \in part : Rank(part, n) = k
  <2> HIDE DEF part, N
  <2>1. part \in SUBSET (1 .. N)
    BY <1>0, <1>3, Zenon
  <2>2. Ranked(part)
    BY <1>0, <2>1, RankFacts, Zenon
  <2> QED BY <2>2, Zenon DEF Ranked
<1>6. mid \in SUBSET (1 .. Cardinality(part)) /\ mid \in SUBSET (DOMAIN piece)
  BY <1>4, Zenon
<1>7. \A n \in part : n \in inkc <=> Rank(part, n) \in ink
  BY <1>4, <1>5, Zenon
<1>8. \A n \in part : n \in T <=> \E j, k \in inkc : j <= n /\ n <= k
  <2> HIDE DEF part, piece, ink, inkc
  <2>1. inkc \in SUBSET part /\ ink \in SUBSET (DOMAIN piece)
    BY Zenon DEF inkc, ink
  <2>2. \A k \in ink : \E n \in inkc : Rank(part, n) = k
    BY <1>4, <1>5, <1>7, <2>1, Zenon
  <2>3. ASSUME NEW n \in part, NEW j \in ink, NEW k \in ink, j <= Rank(part, n), Rank(part, n) <= k
        PROVE  \E u, v \in inkc : u <= n /\ n <= v
    <3>1. PICK u \in inkc, v \in inkc : Rank(part, u) = j /\ Rank(part, v) = k
      BY <2>2, Zenon
    <3>2. u <= n /\ n <= v
      BY <1>5, <2>1, <2>3, <3>1, Zenon
    <3> QED BY <3>2, Zenon
  <2>4. ASSUME NEW n \in part, NEW u \in inkc, NEW v \in inkc, u <= n, n <= v
        PROVE  Rank(part, n) \in mid
    <3>1. Rank(part, u) <= Rank(part, n) /\ Rank(part, n) <= Rank(part, v)
      BY <1>5, <2>1, <2>4, Zenon
    <3>2. Rank(part, u) \in ink /\ Rank(part, v) \in ink /\ Rank(part, n) \in DOMAIN piece
      BY <1>4, <1>5, <1>7, <2>1, Zenon
    <3> QED BY <3>1, <3>2, Zenon
  <2> QED BY <2>3, <2>4, Zenon DEF Under
<1>9. inkc \in SUBSET (1 .. N) /\ \A n \in inkc : n \in part /\ c[n] # Newline
  BY <1>0, <1>3, Zenon
<1> HIDE DEF N, part, ink, mid, inkc
<1>10. Elements(piece, mid) = Elements(c, T)
  <2>1. Nested(Items, c, part, mid)
    BY <1>3, <1>6, ElementsOfElements, Zenon
  <2> QED BY <2>1, Zenon DEF Nested
<1> HIDE DEF piece
<1>11. mid # {}
  <2>1. CASE mid = {}
    <3>1. Len(Elements(piece, mid)) = 0 /\ Elements(piece, mid) \in Seq(Items)
      <4>1. TakenFrom(Elements(piece, mid), Items, piece, mid)
        BY <1>4, <1>6, ElementsRanked, Zenon
      <4>2. Cardinality(mid) = 0
        BY <2>1, FS_EmptySet, Zenon
      <4> QED BY <4>1, <4>2, Zenon DEF TakenFrom
    <3>2. Elements(piece, mid) = <<>>
      BY <3>1
    <3> QED BY <1>1, <1>2, <3>2, Zenon
  <2> QED BY <2>1, Zenon
<1>12. inkc # {}
  <2>1. PICK k \in mid : TRUE
    BY <1>11, Zenon
  <2>2. PICK n \in part : Rank(part, n) = k
    BY <1>5, <1>6, <2>1, Zenon
  <2> QED BY <1>8, <2>1, <2>2, Zenon DEF Under
<1>13. PICK a \in inkc, b \in inkc : \A n \in inkc : a <= n /\ n <= b
  BY <1>0, <1>9, <1>12, Ends, Zenon
<1>14. a \in part /\ b \in part /\ a \in 1 .. N /\ b \in 1 .. N /\ a <= b /\ c[a] # Newline /\ c[b] # Newline
  BY <1>9, <1>13, Zenon
<1>15. Cardinality(Lower(a)) = i - 1 /\ Cardinality(Lower(b)) = i - 1
  BY <1>14, Zenon DEF part
<1>16. ASSUME NEW n \in a .. b
       PROVE  n \in part
  <2>1. n \in 1 .. N /\ (\A m \in 1 .. N : (m < a => m < n) /\ (m < n => m < b)) /\ ~ (n < n) /\ (n < b \/ n = b)
    BY <1>0, <1>14
  <2>2. commas \in SUBSET (1 .. N)
    BY <1>0, <1>3, Zenon
  <2>3. Lower(a) \in SUBSET Lower(n) /\ Lower(n) \in SUBSET Lower(b)
    BY <2>1, <2>2, Zenon
  <2>4. IsFiniteSet(Lower(b)) /\ IsFiniteSet(Lower(n))
    <3>1. Lower(b) \in SUBSET (1 .. N) /\ Lower(n) \in SUBSET (1 .. N)
      BY <2>2, Zenon
    <3> QED BY <1>0, <3>1, Positions, Zenon
  <2> HIDE DEF Lower
  <2>5. Cardinality(Lower(a)) <= Cardinality(Lower(n)) /\ Cardinality(Lower(n)) <= Cardinality(Lower(b))
        /\ Cardinality(Lower(b)) \in Nat /\ Cardinality(Lower(n)) \in Nat
    BY <2>3, <2>4, FS_Subset, FS_CardinalityType, Zenon
  <2>6. Cardinality(Lower(n)) = Cardinality(Lower(b))
    BY <1>15, <2>5
  <2>7. Lower(b) = Lower(n)
    BY <2>3, <2>4, <2>6, FS_Subset, Zenon
  <2>8. n \notin commas
    <3>1. CASE n = b
      BY <1>3, <1>14, <3>1, Zenon
    <3>2. CASE n < b
      BY <2>1, <2>7, <3>2, Zenon DEF Lower
    <3> QED BY <2>1, <3>1, <3>2, Zenon
  <2>9. n \in DOMAIN c /\ Cardinality(Lower(n)) = i - 1
    BY <1>0, <1>15, <2>1, <2>6, Zenon
  <2> QED BY <1>3, <2>8, <2>9, Zenon
<1>17. \A n \in part : a <= n /\ n <= b => n \in a .. b
  BY <1>5, <1>14
<1>18. \A n \in a .. b : a <= n /\ n <= b
  OBVIOUS
<1>19. T = a .. b
  <2>1. ASSUME NEW n \in T PROVE n \in a .. b
    <3>1. n \in part
      BY <2>1, Zenon DEF Under
    <3>2. PICK j \in inkc, k \in inkc : j <= n /\ n <= k
      BY <1>8, <2>1, <3>1, Zenon
    <3>3. a <= j /\ k <= b /\ j \in Nat /\ k \in Nat /\ n \in Nat /\ a \in Nat /\ b \in Nat
      BY <1>5, <1>9, <1>13, <3>1, <3>2, Zenon
    <3>4. a <= n /\ n <= b
      BY <3>2, <3>3
    <3> QED BY <1>17, <3>1, <3>4, Zenon
  <2>2. ASSUME NEW n \in a .. b PROVE n \in T
    BY <1>8, <1>13, <1>16, <1>18, Zenon
  <2> QED BY <2>1, <2>2, Zenon
<1>20. \A n \in a .. b : n \in DOMAIN c /\ c[n] # Comma
  BY <1>3, <1>16, Zenon
<1>21. a \in DOMAIN c /\ b \in DOMAIN c
  BY <1>0, <1>14, Zenon
<1>22. Trim(SplitAtCommas(c)[i]) = Elements(c, a .. b)
  BY <1>1, <1>2, <1>10, <1>19, Zenon
<1> QED BY <1>14, <1>20, <1>21, <1>22, Zenon

\* The phones of a piece are the phones of a stretch of the text.
LEMMA DrawnPieces ==
  ASSUME Phone[Newline] = 0,
         NEW text \in Seq(Items), NEW c \in Seq(Items), Drawn(c, text),
         NEW i \in DOMAIN SplitAtCommas(c), Trim(SplitAtCommas(c)[i]) # <<>>
  PROVE  Stretch(ft(Trim(SplitAtCommas(c)[i])), text)
<1> DEFINE N == Len(text)
           S == {n \in DOMAIN text : text[n] # Newline}
           s == Elements(text, S)
<1>0. N \in Nat /\ DOMAIN text = 1 .. N
  OBVIOUS
<1>1. PICK P \in SUBSET (DOMAIN text) : DrawnAt(c, text, P)
  BY Zenon DEF Drawn, DrawnAt
<1>2. PICK a \in DOMAIN c, b \in DOMAIN c :
           /\ a <= b /\ c[a] # Newline /\ c[b] # Newline
           /\ \A n \in a .. b : n \in DOMAIN c /\ c[n] # Comma
           /\ Trim(SplitAtCommas(c)[i]) = Elements(c, a .. b)
  BY TrimmedPiece, Zenon
<1>3. /\ DOMAIN c = 1 .. Cardinality(P) /\ Len(c) = Cardinality(P)
      /\ P \in SUBSET (1 .. N)
      /\ \A n \in P : c[Rank(P, n)] \in {text[n], Comma}
  BY <1>1, DrawnFacts, Zenon DEF DrawnAt
<1>4. /\ \A n \in P : n \in Nat /\ Rank(P, n) \in 1 .. Cardinality(P)
      /\ \A m, n \in P : m <= n <=> Rank(P, m) <= Rank(P, n)
      /\ \A k \in 1 .. Cardinality(P) : \E n \in P : Rank(P, n) = k
  <2> HIDE DEF N
  <2>1. Ranked(P)
    BY <1>0, <1>3, RankFacts, Zenon
  <2> QED BY <2>1, Zenon DEF Ranked
<1>5. a .. b \in SUBSET (1 .. Cardinality(P)) /\ a \in a .. b /\ b \in a .. b
  <2>1. a \in a .. b /\ b \in a .. b
    BY <1>2
  <2> QED BY <1>2, <1>3, <2>1, Zenon
<1> DEFINE W == Under(P, a .. b)
<1>6. Elements(c, a .. b) = Elements(text, W)
  <2> DEFINE e == Elements(c, a .. b)
  <2>1. e \in Seq(Items) /\ Len(e) = Cardinality(a .. b) /\ \A k \in a .. b : e[Rank(a .. b, k)] = c[k]
    <3>1. a .. b \in SUBSET (DOMAIN c)
      BY <1>3, <1>5, Zenon
    <3>2. TakenFrom(e, Items, c, a .. b)
      BY <3>1, ElementsRanked, Zenon
    <3> HIDE DEF e
    <3> QED BY <3>2, Zenon DEF TakenFrom
  <2>2. /\ W \in SUBSET (DOMAIN text) /\ Cardinality(W) = Cardinality(a .. b)
        /\ \A n \in W : Rank(W, n) = Rank(a .. b, Rank(P, n))
    <3> HIDE DEF N
    <3>1. SubRanked(P, a .. b)
      BY <1>0, <1>3, <1>5, SubRanks, Zenon
    <3> QED BY <1>1, <3>1, Zenon DEF SubRanked
  <2>3. \A n \in W : n \in P /\ Rank(P, n) \in a .. b
    BY Zenon DEF Under
  <2> HIDE DEF W, e
  <2>4. \A n \in W : e[Rank(W, n)] = text[n]
    BY <1>2, <1>3, <2>1, <2>2, <2>3, Zenon
  <2>5. Len(e) = Cardinality(W)
    BY <2>1, <2>2, Zenon
  <2>6. e = Elements(text, W)
    BY <2>1, <2>2, <2>4, <2>5, ElementsUnique
  <2> QED BY <2>6, Zenon DEF e
<1>7. PICK A \in P, B \in P : Rank(P, A) = a /\ Rank(P, B) = b
  BY <1>4, <1>5, Zenon
<1>8. text[A] # Newline /\ text[B] # Newline
  BY <1>2, <1>3, <1>5, <1>7, Zenon
<1>9. A \in S /\ B \in S /\ A <= B
  BY <1>1, <1>2, <1>4, <1>7, <1>8, Zenon
<1>10. \A n \in P : n \in W <=> A <= n /\ n <= B
  <2>1. \A n \in P : n \in W <=> a <= Rank(P, n) /\ Rank(P, n) <= b
    <3>1. \A k \in 1 .. Cardinality(P) : k \in a .. b <=> a <= k /\ k <= b
      BY <1>2, <1>3
    <3> QED BY <1>4, <3>1, Zenon DEF Under
  <2> QED BY <1>4, <1>7, <2>1, Zenon
<1>11. s = StripNewlines(text) /\ S \in SUBSET (1 .. N) /\ S \in SUBSET (DOMAIN text)
  BY <1>0, Zenon DEF StripNewlines
<1>12. /\ \A n \in S : n \in Nat /\ Rank(S, n) \in 1 .. Cardinality(S)
       /\ \A m, n \in S : m <= n <=> Rank(S, m) <= Rank(S, n)
       /\ Cardinality(S) \in Nat
  <2> HIDE DEF N, S
  <2>1. Ranked(S)
    BY <1>0, <1>11, RankFacts, Zenon
  <2> QED BY <2>1, Zenon DEF Ranked
<1>13. s \in Seq(Items) /\ DOMAIN s = 1 .. Cardinality(S)
  BY <1>11, ElementsRanked, Zenon DEF TakenFrom
<1> DEFINE j == Rank(S, A)
           k == Rank(S, B)
           V == Under(S, j .. k)
<1>14. j \in DOMAIN s /\ k \in DOMAIN s /\ j <= k
  BY <1>9, <1>12, <1>13, Zenon
<1>15. SubSeq(s, j, k) = Elements(s, j .. k) /\ j .. k \in SUBSET (1 .. Cardinality(S))
  <2> HIDE DEF s, j, k
  <2> QED BY <1>13, <1>14, SubSeqElements, Zenon
<1>16. SubSeq(s, j, k) = Elements(text, V)
  <2> DEFINE Q == j .. k
  <2> HIDE DEF S, Q
  <2>1. Nested(Items, text, S, Q)
    <3>1. Q \in SUBSET (1 .. Cardinality(S))
      BY <1>15, Zenon DEF Q
    <3> QED BY <1>11, <3>1, ElementsOfElements, Zenon
  <2> QED BY <1>15, <2>1, Zenon DEF Q, Nested
<1>17. \A n \in S : n \in V <=> A <= n /\ n <= B
  <2>1. \A n \in S : n \in V <=> j <= Rank(S, n) /\ Rank(S, n) <= k
    <3> HIDE DEF S
    <3>1. \A m \in 1 .. Cardinality(S) : m \in j .. k <=> j <= m /\ m <= k
      BY <1>9, <1>12
    <3> QED BY <1>12, <3>1, Zenon DEF Under
  <2> QED BY <1>9, <1>12, <2>1, Zenon
<1>18. {n \in W : Phone[text[n]] # 0} = {n \in V : Phone[text[n]] # 0}
  <2>1. \A n \in W : n \in P
    BY Zenon DEF Under
  <2>2. \A n \in V : n \in S
    BY Zenon DEF Under
  <2>3. \A n \in S : n \in P
    BY <1>1, Zenon DEF DrawnAt
  <2>4. \A n \in P : Phone[text[n]] # 0 => n \in S
    BY Zenon
  <2> HIDE DEF W, V, S
  <2> QED BY <1>10, <1>17, <2>1, <2>2, <2>3, <2>4, Zenon
<1>19. W \in SUBSET (DOMAIN text) /\ V \in SUBSET (DOMAIN text)
  BY <1>11, Zenon DEF Under
<1> HIDE DEF W, V, S, j, k
<1>20. ft(Elements(text, W)) = ft(Elements(text, V))
  BY <1>18, <1>19, ftElements, Zenon
<1> HIDE DEF s
<1> QED BY <1>2, <1>6, <1>11, <1>14, <1>16, <1>20, Zenon DEF Stretch

\* The texts behave as DrawnSteps says, if the front end gives no phone for a newline.
LEMMA DrawnHolds ==
  ASSUME Phone[Newline] = 0
  PROVE  DrawnSteps
  BY DrawnItself, DrawnReplaced, DrawnStripped, DrawnPieces, Zenon DEF DrawnSteps
=============================================================================
