--------------------------- MODULE TextNormalizer ---------------------------
(***************************************************************************)
(* TextNormalizer::SentenceNormalize: fourteen rules, applied in order,    *)
(* each replacing its matches from left to right by words.                 *)
(*                                                                         *)
(* A sentence is the sequence of its matches.  What the regular expression *)
(* of a rule captures is a record: its rule, its numbers as digit strings, *)
(* and whether a minus sign stands before each.  Words are tokens: digits, *)
(* units and the fixed words.                                              *)
(***************************************************************************)
EXTENDS Integers, Sequences, SequencesExt

CONSTANT Sentences   \* the sentences to normalize

VARIABLES
  sentence,          \* the matches and, once replaced, their text
  rule,              \* the rule being applied
  phonenum,          \* country_phonenum, zone_phonenum: what Stringsplit has pushed
  one,               \* digits_map["1"]
  thrown             \* an exception left SentenceNormalize

vars == <<sentence, rule, phonenum, one, thrown>>

Rules == <<"ReData", "ReData2", "ReTime", "ReTemperature", "ReFrac", "RePercentage",
           "ReMobilePhone", "RePhone", "ReRange", "ReInterger", "ReDecimalNum",
           "RePositiveQuantifiers", "ReDefalutNum", "ReNumber">>

D(n) == <<[digit |-> n]>>
U(n) == <<[unit |-> n]>>
Word(w) == <<[word |-> w]>>
Yao == [word |-> "yao"]
Exception == [word |-> "exception"]

Throws(text) == Exception \in Range(text)

-----------------------------------------------------------------------------
(* Numbers to words. *)

\* std::to_string(std::stoi(num_str)): no leading zeros, and an exception for an
\* empty string or a value above 2147483647.
MaxInt == <<2, 1, 4, 7, 4, 8, 3, 6, 4, 7>>

Lstrip(num) ==
  LET ink == {n \in DOMAIN num : num[n] # 0}
  IN  IF ink = {} THEN <<0>> ELSE SubSeq(num, Min(ink), Len(num))

FitsInt(num) ==
  LET s == Lstrip(num)
  IN  /\ num # <<>>
      /\ \/ Len(s) < Len(MaxInt)
         \/ Len(s) = Len(MaxInt) /\ s = MaxInt
         \/ Len(s) = Len(MaxInt) /\ \E n \in DOMAIN s : /\ s[n] < MaxInt[n]
                                                        /\ \A k \in 1 .. n - 1 : s[k] = MaxInt[k]

StaleDigit(d, alt_one) == IF d = 1 /\ one = "yao" THEN <<Yao>> ELSE D(d)

\* digits_map after it was told which word to use for 1.
Digit(d, alt_one) == IF d = 1 /\ alt_one THEN <<Yao>> ELSE D(d)

TenThousandFirst(len) ==
  CASE len = 2 -> 1 [] len = 3 -> 2 [] len = 4 -> 3 [] OTHER -> 4

largest_unit(len) ==
  CASE len = 2 -> 1 [] len = 3 -> 2 [] len = 4 -> 3 [] len \in 5 .. 8 -> 4 [] OTHER -> 8

UnitValue(u) ==
  CASE u = 1 -> 10 [] u = 2 -> 100 [] u = 3 -> 1000 [] u = 4 -> 10000 [] u = 8 -> 100000000

RECURSIVE CreateTextValue(_, _, _)
CreateTextValue(num, alt_one, use_zero) ==
  LET s == Lstrip(num)
      u == largest_unit(Len(s))
      cut == Len(num) - u
  IN  IF ~FitsInt(num) THEN <<Exception>>
      ELSE IF Len(s) = 1
      THEN (IF use_zero /\ Len(num) > 1 THEN Digit(0, alt_one) ELSE <<>>) \o Digit(s[1], alt_one)
      ELSE CreateTextValue(SubSeq(num, 1, cut), alt_one, use_zero) \o U(UnitValue(u))
             \o CreateTextValue(SubSeq(num, cut + 1, Len(num)), alt_one, use_zero)

SingleDigit2Text(num, alt_one) == FlattenSeq([n \in DOMAIN num |-> Digit(num[n], alt_one)])

\* Eighteen is read "ten eight", not "one ten eight".
MultiDigit2Text(num, use_zero) ==
  LET text == CreateTextValue(num, FALSE, use_zero)
  IN  IF Len(text) >= 2 /\ SubSeq(text, 1, 2) = D(1) \o U(10) THEN Tail(text) ELSE text

\* A decimal loses its trailing zeros; its integer part may be missing.
Digits2Text(num) ==
  LET ink == {n \in DOMAIN num.frac : num.frac[n] # 0}
      s == IF ink = {} THEN <<>> ELSE SubSeq(num.frac, 1, Max(ink))
  IN  IF num.frac = <<>> THEN MultiDigit2Text(num.int, TRUE)
      ELSE (IF num.int = <<>> THEN <<>> ELSE MultiDigit2Text(num.int, TRUE))
             \o Word("point") \o SingleDigit2Text(s, FALSE)

-----------------------------------------------------------------------------
(* The replacement each rule makes of a match m. *)

sign(minus) == IF minus THEN Word("minus") ELSE <<>>

OptionalPart(num, word) ==
  IF num = <<>> THEN <<>> ELSE MultiDigit2Text(num, FALSE) \o Word(word)

LeadingZero(num) == IF num # <<>> /\ num[1] = 0 THEN D(0) ELSE <<>>

ReData(m) ==
  SingleDigit2Text(m.year, FALSE) \o Word("year")
    \o OptionalPart(m.month, "month") \o OptionalPart(m.day, "day")

\* The seconds are optional in the expression but not here: without them
\* MultiDigit2Text gets an empty string.
ReTime(m) ==
  MultiDigit2Text(m.hour, FALSE) \o Word("hour")
    \o LeadingZero(m.minute) \o MultiDigit2Text(m.minute, TRUE) \o Word("minute")
    \o LeadingZero(m.second) \o MultiDigit2Text(m.second, TRUE) \o Word("second")

ReTemperature(m) == sign(m.minus) \o Digits2Text(m.num) \o Word("degree")

ReFrac(m) ==
  sign(m.minus) \o MultiDigit2Text(m.denominator, TRUE) \o Word("parts")
    \o MultiDigit2Text(m.numerator, TRUE)

RePercentage(m) == sign(m.minus) \o Word("percent") \o Digits2Text(m.num)

ReRange(m) ==
  sign(m.minus) \o Digits2Text(m.num) \o Word("to") \o sign(m.minus2) \o Digits2Text(m.num2)

ReDecimalNum(m) == sign(m.minus) \o Digits2Text(m.num)

\* Every number Stringsplit has pushed so far is read again.
RePhone(pushed) == FlattenSeq([n \in DOMAIN pushed |-> SingleDigit2Text(pushed[n], TRUE)])

rep(m) ==
  CASE m.rule \in {"ReData", "ReData2"} -> ReData(m)
    [] m.rule = "ReTime" -> ReTime(m)
    [] m.rule = "ReTemperature" -> ReTemperature(m)
    [] m.rule = "ReFrac" -> ReFrac(m)
    [] m.rule = "RePercentage" -> RePercentage(m)
    [] m.rule \in {"ReMobilePhone", "RePhone"} -> RePhone(Append(phonenum, m.num.int))
    [] m.rule = "ReRange" -> ReRange(m)
    [] m.rule = "ReInterger" -> sign(TRUE) \o MultiDigit2Text(m.num.int, TRUE)
    [] m.rule \in {"ReDecimalNum", "ReNumber"} -> ReDecimalNum(m)
    [] m.rule = "RePositiveQuantifiers" -> MultiDigit2Text(m.num.int, TRUE)
    [] m.rule = "ReDefalutNum" -> SingleDigit2Text(m.num.int, FALSE)

-----------------------------------------------------------------------------
Match(m) == [match |-> m, text |-> <<>>, read |-> FALSE]

Init ==
  /\ \E s \in Sentences : sentence = [n \in DOMAIN s |-> Match(s[n])]
  /\ rule = 1
  /\ phonenum = <<>>
  /\ one = "yi"
  /\ thrown = FALSE

Found == {n \in DOMAIN sentence : ~sentence[n].read /\ sentence[n].match.rule = Rules[rule]}

\* regex_search, then Replace.
ReplaceMatch ==
  /\ ~thrown /\ rule <= Len(Rules) /\ Found # {}
  /\ LET n == Min(Found)
         m == sentence[n].match
         phone == m.rule \in {"ReMobilePhone", "RePhone"}
     IN  /\ sentence' = [sentence EXCEPT ![n].text = rep(m), ![n].read = TRUE]
         /\ thrown' = Throws(rep(m))
         /\ phonenum' = IF phone THEN Append(phonenum, m.num.int) ELSE phonenum
         /\ one' = IF phone THEN "yao" ELSE "yi"
  /\ UNCHANGED rule

SkipARule ==
  /\ ~thrown /\ rule <= Len(Rules) /\ Found = {}
  /\ rule' = rule + (IF rule = 11 THEN 2 ELSE 1)
  /\ phonenum' = <<>>
  /\ UNCHANGED <<sentence, one, thrown>>

\* No match is left: the next rule starts with vectors of its own.
NextRule ==
  /\ ~thrown /\ rule <= Len(Rules) /\ Found = {}
  /\ rule' = rule + 1
  /\ phonenum' = <<>>
  /\ UNCHANGED <<sentence, one, thrown>>

Next == ReplaceMatch \/ NextRule

Spec == Init /\ [][Next]_vars

-----------------------------------------------------------------------------
(* How a listener understands the words. *)

Value(num) ==
  LET value[n \in 0 .. Len(num)] == IF n = 0 THEN 0 ELSE 10 * value[n - 1] + num[n]
  IN  value[Len(num)]

\* A numeral: units multiply the digit before them, ten thousand and a hundred
\* million all of the section before them.
HearDigit(acc, d) == [acc EXCEPT !.digit = d, !.any = TRUE]

HearUnit(acc, u) ==
  LET d == IF acc.any THEN acc.digit ELSE 1
  IN  IF u < 10000
      THEN [acc EXCEPT !.section = @ + d * u, !.digit = 0, !.any = TRUE]
      ELSE [acc EXCEPT !.total = @ + (acc.section + acc.digit) * u, !.section = 0, !.digit = 0]

Hear(numeral) ==
  LET upto[n \in 0 .. Len(numeral)] ==
        IF n = 0 THEN [total |-> 0, section |-> 0, digit |-> 0, any |-> FALSE]
        ELSE IF "digit" \in DOMAIN numeral[n] THEN HearDigit(upto[n - 1], numeral[n].digit)
        ELSE HearUnit(upto[n - 1], numeral[n].unit)
      all == upto[Len(numeral)]
  IN  all.total + all.section + all.digit

IsWord(t) == "word" \in DOMAIN t

\* The numerals between the words of a text, in order.
Numerals(text) ==
  LET ends == {0, Len(text) + 1} \cup {n \in DOMAIN text : IsWord(text[n])}
      end(n) == Min({e \in ends : e > n})
      starts == {n \in DOMAIN text : n \notin ends /\ n - 1 \in ends}
      order == SetToSortSeq(starts, <)
  IN  [k \in DOMAIN order |-> SubSeq(text, order[k], end(order[k]) - 1)]

\* What should be heard of a match, numeral by numeral.
Meant(m) ==
  CASE m.rule = "ReTime" -> <<m.hour, m.minute, m.second>>
    [] m.rule = "ReFrac" -> <<m.denominator, m.numerator>>
    [] m.rule = "ReRange" -> <<m.num.int, m.num2.int>>
    [] OTHER -> <<m.num.int>>

WholeNumbers == {"ReTime", "ReFrac", "ReRange", "ReInterger", "RePositiveQuantifiers", "ReNumber"}

\* CreateTextValue and the rules built on it: the words of every whole number, its
\* zeros read twice or not, say the number that was written, in the right order.
SaysTheNumber ==
  \A n \in DOMAIN sentence :
    LET s == sentence[n]
    IN  s.read /\ ~Throws(s.text) /\ s.match.rule \in WholeNumbers
          => LET heard == Numerals(s.text)
                 meant == Meant(s.match)
             IN  /\ Len(heard) = Len(meant)
                 /\ \A k \in DOMAIN heard : Hear(heard[k]) = Value(meant[k])

\* digits_map is a field, changed for phone numbers: no other number is read with the
\* "yao" of a phone number, and no phone number with "yi", in whatever order they come.
YaoOnlyInPhones ==
  \A n \in DOMAIN sentence :
    LET s == sentence[n]
    IN  s.read => IF s.match.rule \in {"ReMobilePhone", "RePhone"}
                  THEN [digit |-> 1] \notin Range(s.text)
                  ELSE Yao \notin Range(s.text)

\* A match that stoi cannot take: a time without seconds, a number above 2147483647.
Untakable(m) ==
  m.rule \in WholeNumbers /\ \E k \in DOMAIN Meant(m) : ~FitsInt(Meant(m)[k])

\* SentenceNormalize stops for two reasons only: all rules are done and everything has
\* been read, or stoi has refused one of the matches; and it never passes over those.
ReadsAllOrThrows ==
  thrown \/ rule > Len(Rules) =>
    IF \E n \in DOMAIN sentence : Untakable(sentence[n].match)
    THEN thrown
    ELSE ~thrown /\ \A n \in DOMAIN sentence : sentence[n].read

Reads(m, text) ==
  \A n \in DOMAIN sentence : sentence[n].match = m /\ sentence[n].read => sentence[n].text = text

\* The match of the example below.
Num(digits) == [int |-> digits, frac |-> <<>>]

Quantity(digits) == [rule |-> "RePositiveQuantifiers", num |-> Num(digits)]

\* text_normalize.cc: "10200 - > " ten thousand, zero, two hundred.
ExampleOfCreateTextValue ==
  Reads(Quantity(<<1, 0, 2, 0, 0>>), D(1) \o U(10000) \o D(0) \o D(2) \o U(100))

\* text_normalize.cc, ReMobilePhone: a number is read as its own digits.
PhoneReadAlone ==
  \A n \in DOMAIN sentence :
    LET s == sentence[n]
    IN  s.read /\ s.match.rule = "ReMobilePhone" => s.text = SingleDigit2Text(s.match.num.int, TRUE)
=============================================================================
