--------------------------- MODULE SpeakttsPlayer ---------------------------
(***************************************************************************)
(* Speaktts as an implementation of the abstract Player.                   *)
(***************************************************************************)
EXTENDS Speaktts

\* A chunk as the abstract player sees it, and the state of the player.
Voiced(chunk) == [phones |-> chunk.phones, voice |-> chunk.voice]

VoicedAll(s) == [n \in DOMAIN s |-> Voiced(s[n])]

Phase == [t \in Threads |-> IF pc[t] \in {"new", "done"} THEN pc[t] ELSE "speaking"]
Said == [t \in Threads |-> [n \in DOMAIN spoken[t] |-> Voiced(spoken[t][n].chunk)]]
Pending == [t \in Threads |-> VoicedAll(queue[t])]
Heard == [t \in Threads |-> VoicedAll(heard[t])]

AbstractPlayer == INSTANCE Player WITH
  Requests <- Threads, Voices <- Speakers, Segments <- Expected,
  phase <- Phase, said <- Said, pending <- Pending, heard <- Heard,
  cut <- silenced, over <- crash # "none"

\* Speaktts implements an abstract player for callers that neither overlap sessions
\* nor touch the models under one: segments in order, each once, in the voice asked
\* for, all of it heard unless the user cuts it, and no failure before that.
ImplementsPlayer == AbstractPlayer!Spec
=============================================================================
