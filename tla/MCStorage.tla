----------------------------- MODULE MCStorage -----------------------------
(***************************************************************************)
(* A small instance of Storage: one file of each kind that init treats     *)
(* differently, in the order of the directories, and the two models.       *)
(***************************************************************************)
EXTENDS Storage

MCDictFiles == <<"table", "conf", "jieba">>

MCModelFiles == <<"AM", "VOC">>
=============================================================================
