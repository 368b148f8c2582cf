--------------------------- MODULE MCMainActivity ---------------------------
(***************************************************************************)
(* Small instances of MainActivity: the pre-installed configuration, a     *)
(* custom one, and an empty path, which loadModel refuses.                 *)
(***************************************************************************)
EXTENDS MainActivity, TLC

CONSTANTS preInstalled, customPath, emptyPath

MCConfigs == {preInstalled, customPath, emptyPath}

\* No two of the paths differ in case only.
MCDistinct == [c \in MCConfigs |-> c]

Symmetry == Permutations(Workers)
=============================================================================
