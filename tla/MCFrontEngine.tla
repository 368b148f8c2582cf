--------------------------- MODULE MCFrontEngine ---------------------------
(***************************************************************************)
(* The front end with the entries of jieba.dict.utf8, hmm_model.utf8 and   *)
(* word2phone_fs2.dict.txt that are made of the fifteen characters         *)
(*   不 一 起 第 儿 好 小 大 人 个 雨 伞 吧 蓝 翔                          *)
(* Logarithms are multiplied by ten and rounded.                           *)
(***************************************************************************)
EXTENDS FrontEngine

MCMinDouble == -1000000

MCHan == {"bu", "yi", "qi", "di", "er", "hao", "xiao", "da", "ren", "ge", "yu", "san", "ba", "lan", "xiang"}

(* Initial and final of a character. *)
MCSyllable ==
  LET table == {
   <<"bu", "b", "u">>, <<"yi", "", "i">>, <<"qi", "q", "i">>, <<"di", "d", "i">>, <<"er", "", "er">>,
   <<"hao", "h", "ao">>, <<"xiao", "x", "iao">>, <<"da", "d", "a">>, <<"ren", "r", "en">>,
   <<"ge", "g", "e">>, <<"yu", "", "v">>, <<"san", "s", "an">>, <<"ba", "b", "a">>,
   <<"lan", "l", "an">>, <<"xiang", "x", "iang">>}
  IN  [c \in MCHan |-> LET e == CHOOSE e \in table : e[1] = c IN Tail(e)]

(* Word, weight and tones. *)
MCLexicon == {
   <<<<"yi">>, -56, <<1>>>>, <<<<"bu">>, -51, <<4>>>>, <<<<"ge">>, -62, <<5>>>>,
   <<<<"ren">>, -53, <<2>>>>, <<<<"san">>, -109, <<3>>>>, <<<<"er">>, -83, <<2>>>>,
   <<<<"ba">>, -78, <<5>>>>, <<<<"da">>, -60, <<4>>>>, <<<<"hao">>, -65, <<3>>>>,
   <<<<"xiao">>, -69, <<3>>>>, <<<<"di">>, -79, <<4>>>>, <<<<"xiang">>, -123, <<2>>>>,
   <<<<"lan">>, -100, <<2>>>>, <<<<"qi">>, -69, <<3>>>>, <<<<"yu">>, -95, <<3>>>>,
   <<<<"yi", "yi">>, -105, <<1, 1>>>>, <<<<"yi", "ge">>, -60, <<2, 5>>>>,
   <<<<"yi", "da">>, -98, <<2, 4>>>>, <<<<"yi", "hao">>, -168, <<4, 3>>>>,
   <<<<"yi", "xiao">>, -107, <<4, 3>>>>, <<<<"yi", "qi">>, -82, <<4, 3>>>>,
   <<<<"bu", "yi">>, -112, <<4, 1>>>>, <<<<"bu", "da">>, -112, <<2, 4>>>>,
   <<<<"bu", "hao">>, -94, <<4, 3>>>>, <<<<"bu", "xiao">>, -109, <<4, 3>>>>,
   <<<<"ge", "ge">>, -104, <<4, 4>>>>, <<<<"ge", "ren">>, -85, <<4, 2>>>>,
   <<<<"ge", "er">>, -122, <<4, 2>>>>, <<<<"ren", "ren">>, -100, <<2, 5>>>>,
   <<<<"ren", "er">>, -128, <<2, 2>>>>, <<<<"ren", "da">>, -84, <<2, 4>>>>,
   <<<<"da", "ge">>, -134, <<4, 5>>>>, <<<<"da", "ren">>, -97, <<4, 5>>>>,
   <<<<"da", "er">>, -163, <<4, 2>>>>, <<<<"da", "da">>, -98, <<4, 4>>>>,
   <<<<"da", "hao">>, -122, <<4, 3>>>>, <<<<"da", "xiao">>, -92, <<4, 3>>>>,
   <<<<"da", "yu">>, -117, <<4, 3>>>>, <<<<"hao", "ge">>, -168, <<3, 5>>>>,
   <<<<"hao", "ren">>, -116, <<3, 2>>>>, <<<<"hao", "hao">>, -100, <<2, 3>>>>,
   <<<<"xiao", "ren">>, -105, <<3, 2>>>>, <<<<"xiao", "san">>, -168, <<2, 3>>>>,
   <<<<"xiao", "er">>, -115, <<3, 2>>>>, <<<<"xiao", "xiao">>, -109, <<2, 3>>>>,
   <<<<"xiao", "yu">>, -115, <<2, 3>>>>, <<<<"di", "yi">>, -81, <<4, 1>>>>,
   <<<<"lan", "lan">>, -168, <<2, 5>>>>, <<<<"yu", "san">>, -133, <<2, 3>>>>,
   <<<<"yi", "ge", "ge">>, -103, <<2, 5, 4>>>>, <<<<"bu", "da", "hao">>, -168, <<2, 4, 3>>>>,
   <<<<"da", "bu", "da">>, -168, <<4, 5, 4>>>>, <<<<"da", "ge", "er">>, -142, <<4, 4, 2>>>>,
   <<<<"da", "hao", "ren">>, -150, <<4, 3, 2>>>>, <<<<"hao", "bu", "hao">>, -115, <<3, 5, 3>>>>,
   <<<<"hao", "ren", "er">>, -163, <<3, 2, 2>>>>, <<<<"hao", "hao", "er">>, -131, <<2, 3, 2>>>>,
   <<<<"xiao", "ge", "er">>, -168, <<3, 4, 2>>>>, <<<<"xiao", "ren", "er">>, -141, <<3, 2, 2>>>>,
   <<<<"di", "yi", "ge">>, -96, <<4, 1, 5>>>>, <<<<"di", "di", "di">>, -172, <<4, 5, 5>>>>,
   <<<<"lan", "bu", "lan">>, -168, <<2, 5, 2>>>>,
   <<<<"bu", "da", "bu", "xiao">>, -136, <<2, 4, 4, 3>>>>,
   <<<<"da", "da", "xiao", "xiao">>, -117, <<4, 4, 2, 3>>>>,
   <<<<"da", "xiao", "bu", "yi">>, -168, <<4, 3, 4, 1>>>>}

MCStatic == [w \in {e[1] : e \in MCLexicon} |-> (CHOOSE e \in MCLexicon : e[1] = w)[2]]

MCPhones(w, tones) ==
  FlattenSeq([k \in DOMAIN w |->
    LET sy == MCSyllable[w[k]]
        fin == [p |-> sy[2], t |-> tones[k]]
    IN  IF sy[1] = "" THEN <<fin>> ELSE <<[p |-> sy[1], t |-> 0], fin>>])

MCWord2phone == [w \in DOMAIN MCStatic |-> MCPhones(w, (CHOOSE e \in MCLexicon : e[1] = w)[3])]

(* The rows of the model, in the order B, E, M, S. *)
MCRow(r) == [y \in 0..3 |-> r[y + 1]]

MCHmm ==
  LET emit == {
   <<"bu", -43, -75, -44, -44>>, <<"yi", -37, -60, -44, -49>>, <<"qi", -63, -63, -71, -62>>,
   <<"di", -57, -95, -78, -72>>, <<"er", -76, -63, -75, -76>>, <<"hao", -68, -65, -76, -58>>,
   <<"xiao", -58, -74, -51, -62>>, <<"da", -46, -55, -38, -53>>, <<"ren", -47, -47, -44, -46>>,
   <<"ge", -72, -46, -64, -55>>, <<"yu", -93, -84, -78, -88>>, <<"san", -108, -109, -111, -102>>,
   <<"ba", -129, -102, -140, -71>>, <<"lan", -87, -106, -93, -93>>, <<"xiang", -126, -95, -100, -116>>}
      N == MCMinDouble
  IN  [start |-> MCRow(<<-3, N, N, -15>>),
       trans |-> MCRow(<<MCRow(<<N, -5, -9, N>>), MCRow(<<-6, N, N, -8>>),
                         MCRow(<<N, -3, -13, N>>), MCRow(<<-7, N, N, -7>>)>>),
       emit  |-> [c \in MCHan |-> LET e == CHOOSE e \in emit : e[1] = c IN MCRow(Tail(e))]]

(* The dictionary that is shipped, which lists 蓝翔 for the user, and one to
   which a user added 小雨伞 and, with a frequency, the single character 起. *)
MCEngine(user) == [dict |-> DictTrie(MCStatic, user), hmm |-> MCHmm]

MCEngines ==
  <<MCEngine([w \in {<<"lan", "xiang">>} |-> 0]),
    MCEngine([w \in {<<"xiao", "yu", "san">>, <<"qi">>} |-> IF Len(w) = 1 THEN -50 ELSE 0])>>

MCLetters == {"A", "a"}
MCDigits == {"1"}
MCOtherAscii == {Space, Dot}
MCSymbols == {Space, "comma"}
MCLower == [c \in MCLetters |-> "a"]
MCSimp == [c \in {"ge-traditional"} |-> "ge"]

MCBytes ==
  LET table == {
   <<"bu", 228, 184, 141>>, <<"yi", 228, 184, 128>>, <<"qi", 232, 181, 183>>, <<"di", 231, 172, 172>>,
   <<"er", 229, 132, 191>>, <<"hao", 229, 165, 189>>, <<"xiao", 229, 176, 143>>,
   <<"da", 229, 164, 167>>, <<"ren", 228, 186, 186>>, <<"ge", 228, 184, 170>>, <<"yu", 233, 155, 168>>,
   <<"san", 228, 188, 158>>, <<"ba", 229, 144, 167>>, <<"lan", 232, 147, 157>>,
   <<"xiang", 231, 191, 148>>, <<"A", 65>>, <<"a", 97>>, <<Dot, 46>>, <<Space, 32>>,
   <<"dash", 226, 128, 148>>, <<"comma", 239, 188, 140>>, <<"quote", 226, 128, 156>>}
  IN  [c \in MCHan \cup MCLetters \cup MCOtherAscii \cup {"dash", "comma", "quote"} |->
         LET e == CHOOSE e \in table : e[1] = c IN Tail(e)]

MCClass ==
  [c \in DOMAIN MCBytes |->
     CASE c = "ba" -> {"yuqici"} [] c = "yi" -> {"xiushi"} [] c = "qi" -> {"fangxiang"} [] OTHER -> {}]

MCMustNeural == {<<"da", "ren">>}
MCNotErhua == {<<"yi", "er">>}
MCNone == {}

(* The English phones, and of them those with an order. *)
MCG2pPhones == {[p |-> "EY", t |-> 1], [p |-> "<unk>", t |-> 0]}
MCOrderdict == {[p |-> "EY", t |-> 1]}
MCCmu == [w \in {} |-> << >>]

(* phone_id_map_zh_en.txt lacks some of the finals with r. *)
MCPhoneIds ==
  LET finals == {MCSyllable[c][2] : c \in MCHan}
      lacking == {
   [p |-> "ar", t |-> 1], [p |-> "anr", t |-> 2], [p |-> "anr", t |-> 5], [p |-> "aor", t |-> 2],
   [p |-> "err", t |-> 1], [p |-> "err", t |-> 2], [p |-> "err", t |-> 3], [p |-> "err", t |-> 4],
   [p |-> "err", t |-> 5], [p |-> "iangr", t |-> 1], [p |-> "iangr", t |-> 2],
   [p |-> "iangr", t |-> 3], [p |-> "iangr", t |-> 5], [p |-> "iaor", t |-> 5], [p |-> "vr", t |-> 1],
   [p |-> "vr", t |-> 2], [p |-> "vr", t |-> 4], [p |-> "vr", t |-> 5]}
  IN  {Sp} \cup MCOrderdict
      \cup {[p |-> MCSyllable[c][1], t |-> 0] : c \in MCHan}
      \cup [p : finals, t : 1..5]
      \cup ({[p |-> f \o "r", t |-> t] : f \in finals, t \in 1..5} \ lacking)

(* Texts as SpeakText passes them: not empty and trimmed. *)
MCTexts ==
  LET all == (DOMAIN MCBytes \ {Space, "a", "qi", "san", "lan", "xiang", "ba", "comma", "ren"}) \cup {"ge-traditional"}
      some == {"bu", "yi", "er", "hao", "xiao", "da"}
      few == {"bu", "yi", "da"}
  IN  [1..1 -> all] \cup [1..2 -> all] \cup [1..3 -> some] \cup [1..4 -> few]
      \cup {<<"A", Space, "A">>, <<"hao", Space, "xiao">>, <<"xiao", "yu", "san">>, <<"xiao", "yu", "san", "er">>,
            <<"hao", "comma", "da", "ren">>, <<"bu", "yi", "qi">>,
            <<"hao", "qi">>, <<"hao", "ba">>, <<"lan", "xiang">>, <<"lan", "bu", "lan">>, <<"di", "yi", "ge">>,
            <<"da", "ren">>, <<"hao", "ren", "er">>, <<"da", "xiao", "er">>, <<"comma">>, <<"bu", "comma">>}
=============================================================================
