-------------------------- MODULE MCTextNormalizer --------------------------
(***************************************************************************)
(* Sentences for TextNormalizer.                                           *)
(***************************************************************************)
EXTENDS TextNormalizer

Strings(S, n) == UNION {[1 .. k -> S] : k \in 1 .. n}

MobilePhones == {[rule |-> "ReMobilePhone", num |-> Num(s)] : s \in {<<1, 8, 8>>, <<1, 3, 1>>}}

Time(h, m, s) == [rule |-> "ReTime", hour |-> h, minute |-> m, second |-> s]

Frac(a, b) == [rule |-> "ReFrac", minus |-> TRUE, numerator |-> a, denominator |-> b]

TooBig == [MaxInt EXCEPT ![10] = 8]

\* Every number of up to six digits with a quantifier, and around the limit of an int.
WholeSentences ==
  {<<Quantity(s)>> : s \in Strings({0, 1, 2}, 6)}
    \cup {<<Frac(a, b)>> : a, b \in {<<3>>, <<1, 0>>, MaxInt, TooBig, <<0, 0>> \o MaxInt,
                                     <<1, 0, 0, 0, 1, 0, 0, 1, 0>>, <<0>> \o TooBig}}

\* The other rules, one match each.
Samples ==
  {Time(<<0, 9>>, <<0, 9>>, <<0, 2>>), Time(<<1, 0>>, <<3, 0>>, <<>>), Frac(<<1>>, <<3>>),
   [rule |-> "ReData", year |-> <<2, 0, 1, 1>>, month |-> <<1>>, day |-> <<>>],
   [rule |-> "ReData2", year |-> <<2, 0, 2, 1>>, month |-> <<1, 1>>, day |-> <<0, 8>>],
   [rule |-> "ReTemperature", minus |-> TRUE, num |-> [int |-> <<1, 4>>, frac |-> <<3>>]],
   [rule |-> "RePercentage", minus |-> FALSE, num |-> [int |-> <<4, 5>>, frac |-> <<5, 0>>]],
   [rule |-> "RePhone", num |-> Num(<<0, 1, 0>>)],
   [rule |-> "ReRange", minus |-> FALSE, num |-> Num(<<6, 0>>), minus2 |-> TRUE,
    num2 |-> Num(<<9, 0>>)],
   [rule |-> "ReInterger", num |-> Num(<<1, 0>>)],
   [rule |-> "ReDecimalNum", minus |-> FALSE, num |-> [int |-> <<>>, frac |-> <<2, 1>>]],
   [rule |-> "ReDefalutNum", num |-> Num(<<8, 1, 7>>)],
   [rule |-> "ReNumber", minus |-> FALSE, num |-> Num(<<1, 1>>)],
   Quantity(<<1, 2>>)} \cup MobilePhones

\* Any two of them, and three, of which two are telephone numbers.
MixedSentences ==
  {<<p, q>> : p, q \in Samples}
    \cup {<<p, q, r>> : p, q \in MobilePhones, r \in Samples}

AllSentences == WholeSentences \cup MixedSentences

ZeroSentences == {<<Quantity(<<1, 0, 2, 0, 0>>)>>}

PhoneSentences == {<<p, q>> : p, q \in MobilePhones}
=============================================================================
