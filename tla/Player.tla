------------------------------- MODULE Player -------------------------------
(***************************************************************************)
(* What a speech player promises to a caller that asks for one text at a   *)
(* time: the segments of the text are said in their order, each once and   *)
(* in the voice asked for; what was said is heard in that order, and all   *)
(* of it unless the user cuts the sound; the player fails only after a     *)
(* cut.  Speaktts is shown to implement it.                                *)
(***************************************************************************)
EXTENDS Naturals, Sequences

CONSTANTS Requests,      \* names of the calls
          Texts, Voices,
          Segments(_)    \* the segments of a text

VARIABLES phase,    \* each request: new, speaking or done
          asked,    \* its text and voice
          said,     \* its segments that were given to the sound system
          pending,  \* the ones that will still be heard
          heard,
          cut,      \* the requests whose sound the user cut
          over      \* the player has failed

vars == <<phase, asked, said, pending, heard, cut, over>>

Nothing == [r \in Requests |-> <<>>]

Init ==
  /\ phase = [r \in Requests |-> "new"]
  /\ asked \in [Requests -> [text : {<<>>}, voice : Voices]]
  /\ said = Nothing /\ pending = Nothing /\ heard = Nothing
  /\ cut = {} /\ over = FALSE

Ask(r, text, voice) ==
  /\ ~over
  /\ \A q \in Requests : phase[q] # "speaking"
  /\ phase[r] = "new"
  /\ phase' = [phase EXCEPT ![r] = "speaking"]
  /\ asked' = [asked EXCEPT ![r] = [text |-> text, voice |-> voice]]
  /\ UNCHANGED <<said, pending, heard, cut, over>>

\* The next segment; only the sound of a request that was cut may be dropped.
Say(r) ==
  LET segments == Segments(asked[r].text)
      next == Len(said[r]) + 1
      sound == [phones |-> segments[next], voice |-> asked[r].voice]
  IN  /\ ~over
      /\ phase[r] = "speaking"
      /\ next <= Len(segments)
      /\ said' = [said EXCEPT ![r] = Append(@, sound)]
      /\ \/ pending' = [pending EXCEPT ![r] = Append(@, sound)]
         \/ r \in cut /\ UNCHANGED pending
      /\ UNCHANGED <<phase, asked, heard, cut, over>>

End(r) ==
  /\ ~over
  /\ phase[r] = "speaking"
  /\ Len(said[r]) = Len(Segments(asked[r].text))
  /\ phase' = [phase EXCEPT ![r] = "done"]
  /\ UNCHANGED <<asked, said, pending, heard, cut, over>>

Hear(r) ==
  /\ ~over
  /\ pending[r] # <<>>
  /\ heard' = [heard EXCEPT ![r] = Append(@, Head(pending[r]))]
  /\ pending' = [pending EXCEPT ![r] = Tail(@)]
  /\ UNCHANGED <<phase, asked, said, cut, over>>

Cut(r) ==
  /\ ~over
  /\ phase[r] # "new"
  /\ cut' = cut \cup {r}
  /\ pending' \in {pending, [pending EXCEPT ![r] = <<>>]}
  /\ UNCHANGED <<phase, asked, said, heard, over>>

Fail ==
  /\ ~over
  /\ cut # {}
  /\ over' = TRUE
  /\ UNCHANGED <<phase, asked, said, pending, heard, cut>>

Next ==
  \/ \E r \in Requests, text \in Texts, voice \in Voices : Ask(r, text, voice)
  \/ \E r \in Requests : Say(r) \/ End(r) \/ Hear(r) \/ Cut(r)
  \/ Fail

Spec == Init /\ [][Next]_vars
=============================================================================
