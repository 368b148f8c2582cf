----------------------------- MODULE MCSpeaktts -----------------------------
(***************************************************************************)
(* Small instances of Speaktts: two phrases and two separators, of which   *)
(* one is replaced in the first round and one in the second.               *)
(***************************************************************************)
EXTENDS SpeakttsPlayer, TLC

CONSTANTS ping, bang, dot, semi, comma, newline, space

MCItems == {ping, bang, dot, semi, comma, newline, space}

MCcharSplit == <<dot, semi>>

\* The front end gives no phone for white space, commas and separators.
MCPhone == [x \in MCItems |-> CASE x = ping -> 1 [] x = bang -> 2 [] OTHER -> 0]

\* Phone 277 is silence; the second phrase is the louder one.
MCLoud == [p \in {0, 1, 2, 277, 999} |->
             CASE p = 1 -> 2 [] p = 2 -> 3 [] p = 999 -> 4 [] OTHER -> 0]

\* One text with separators inside, one with a comma, a newline and a blank
\* around its only phrase.
MCAgainTexts == {<<ping, dot, bang>>, <<comma, bang, newline, space>>}

\* Texts of one segment each, for overlapping sessions: one session may read the
\* other's text before its newline is removed or its separator replaced.
MCShortTexts == {<<ping, newline>>, <<dot, bang>>}

MCOneSplit == <<dot>>

Symmetry == Permutations(Threads)
=============================================================================
