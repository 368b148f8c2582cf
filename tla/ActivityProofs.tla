--------------------------- MODULE ActivityProofs ---------------------------
(***************************************************************************)
(* Proofs about MainActivity, second part: a dialog is showing exactly     *)
(* while its one answer is on the way; the exclusion that this gives, what *)
(* is loaded; and the theorems.                                            *)
(***************************************************************************)
EXTENDS ActivityLife

-----------------------------------------------------------------------------
(* Queues: that an element of V is in one, and in no more than one place.  *)

Some(s, V) == \E n \in DOMAIN s : s[n] \in V

Once(s, V) == \A m, n \in DOMAIN s : s[m] \in V /\ s[n] \in V => m = n

LEMMA QueueElements ==
  ASSUME NEW S, NEW s \in Seq(S)
  PROVE  \A n \in DOMAIN s : s[n] \in S
  OBVIOUS

LEMMA EmptyQueue == \A V : ~Some(<<>>, V) /\ Once(<<>>, V)
  BY SMTT(30) DEF Some, Once

LEMMA AppendToQueue ==
  ASSUME NEW S, NEW s \in Seq(S), NEW e \in S, NEW V
  PROVE  /\ e \notin V => /\ Some(Append(s, e), V) <=> Some(s, V)
                          /\ Once(Append(s, e), V) <=> Once(s, V)
         /\ e \in V => /\ Some(Append(s, e), V)
                       /\ ~Some(s, V) => Once(Append(s, e), V)
<1>1. /\ DOMAIN Append(s, e) = DOMAIN s \cup {Len(s) + 1} /\ Len(s) + 1 \notin DOMAIN s
      /\ Append(s, e)[Len(s) + 1] = e /\ \A n \in DOMAIN s : Append(s, e)[n] = s[n]
  OBVIOUS
<1> QED BY <1>1 DEF Some, Once

LEMMA TailOfQueue ==
  ASSUME NEW S, NEW s \in Seq(S), s # <<>>, NEW V
  PROVE  /\ Once(s, V) => Once(Tail(s), V)
         /\ Head(s) \notin V => (Some(Tail(s), V) <=> Some(s, V))
         /\ Head(s) \in V => Some(s, V) /\ (Once(s, V) => ~Some(Tail(s), V))
<1>1. /\ DOMAIN s = 1 .. Len(s) /\ Len(s) \in Nat /\ Len(s) # 0 /\ Head(s) = s[1]
      /\ DOMAIN Tail(s) = 1 .. Len(s) - 1 /\ \A n \in DOMAIN Tail(s) : Tail(s)[n] = s[n + 1]
  OBVIOUS
<1>2. Once(s, V) => Once(Tail(s), V)
  <2> SUFFICES ASSUME Once(s, V), NEW m \in DOMAIN Tail(s), NEW n \in DOMAIN Tail(s),
                      Tail(s)[m] \in V, Tail(s)[n] \in V
               PROVE  m = n
    BY DEF Once
  <2>1. m + 1 \in DOMAIN s /\ n + 1 \in DOMAIN s /\ s[m + 1] \in V /\ s[n + 1] \in V
    BY <1>1
  <2>2. m + 1 = n + 1
    BY <2>1 DEF Once
  <2> QED BY <1>1, <2>2
<1>3. Some(Tail(s), V) => \E n \in DOMAIN s : n # 1 /\ s[n] \in V
  BY <1>1 DEF Some
<1>4. ASSUME NEW n \in DOMAIN s, n # 1, s[n] \in V
      PROVE  Some(Tail(s), V)
  <2>1. n - 1 \in DOMAIN Tail(s) /\ Tail(s)[n - 1] = s[n]
    BY SMTT(30), <1>1, <1>4
  <2> QED BY <1>4, <2>1 DEF Some
<1> QED BY <1>1, <1>2, <1>3, <1>4 DEF Some, Once

-----------------------------------------------------------------------------
(* The one answer a dialog waits for. *)

Answers == [to : Workers, what : {"loaded", "loadFailed", "ran"}]

LoadAnswers(w) == {Reply(w, "loaded"), Reply(w, "loadFailed")}

\* With requests in, answers out, and the worker in that place.
LoadDue(w, in, out, place) == Some(in, {"load"}) \/ Some(out, LoadAnswers(w)) \/ place # "idle"

RunDue(w, in, out) == Some(in, {"run"}) \/ Some(out, {Reply(w, "ran")})

LoadAwaited(w, in, out, place, dialog) ==
  /\ Once(in, {"load"}) /\ Once(out, LoadAnswers(w))
  /\ ~(Some(in, {"load"}) /\ Some(out, LoadAnswers(w)))
  /\ place # "idle" => ~Some(in, {"load"}) /\ ~Some(out, LoadAnswers(w))
  /\ dialog = "showing" <=> LoadDue(w, in, out, place) /\ dialog # "leaked"

RunAwaited(w, in, out, dialog) ==
  /\ Once(in, {"run"}) /\ Once(out, {Reply(w, "ran")})
  /\ ~(Some(in, {"run"}) /\ Some(out, {Reply(w, "ran")}))
  /\ dialog = "showing" <=> RunDue(w, in, out) /\ dialog # "leaked"

Awaits(w) ==
  /\ LoadAwaited(w, sender[w], receiver, ppc[w], pbLoadModel[w])
  /\ RunAwaited(w, sender[w], receiver, pbRunModel[w])

AwaitInv == \A w \in Workers : Awaits(w)

LEMMA AwaitMeansAwaited ==
  ASSUME ActivityTypeOK, AwaitInv
  PROVE  DialogIsAwaited
<1> SUFFICES ASSUME NEW w \in Workers
             PROVE  /\ AtMostOne(LoadSources(w)) /\ AtMostOne(RunSources(w))
                    /\ pbLoadModel[w] = "showing" <=> (LoadSources(w) # {} /\ pbLoadModel[w] # "leaked")
                    /\ pbRunModel[w] = "showing" <=> (RunSources(w) # {} /\ pbRunModel[w] # "leaked")
  BY Zenon DEF DialogIsAwaited
<1>0. /\ LoadAwaited(w, sender[w], receiver, ppc[w], pbLoadModel[w])
      /\ RunAwaited(w, sender[w], receiver, pbRunModel[w])
  BY DEF AwaitInv, Awaits
<1>1. \A n \in DOMAIN receiver : receiver[n] \in [to : Workers, what : {"loaded", "loadFailed", "ran"}]
  BY Zenon, QueueElements DEF ActivityTypeOK
<1>2. \A n \in DOMAIN receiver :
        /\ receiver[n] \in LoadAnswers(w) <=> receiver[n].to = w /\ receiver[n].what \in {"loaded", "loadFailed"}
        /\ receiver[n] = Reply(w, "ran") <=> receiver[n].to = w /\ receiver[n].what \in {"ran"}
  BY <1>1 DEF LoadAnswers, Reply
<1>3. /\ \A x \in LoadSources(w) :
           \/ \E n \in DOMAIN sender[w] : x = <<n, "sender">> /\ sender[w][n] \in {"load"}
           \/ \E n \in DOMAIN receiver : x = <<n, "receiver">> /\ receiver[n] \in LoadAnswers(w)
           \/ x = <<0, "init">> /\ ppc[w] # "idle"
      /\ \A n \in DOMAIN sender[w] : sender[w][n] \in {"load"} => <<n, "sender">> \in LoadSources(w)
      /\ \A n \in DOMAIN receiver : receiver[n] \in LoadAnswers(w) => <<n, "receiver">> \in LoadSources(w)
      /\ ppc[w] # "idle" => <<0, "init">> \in LoadSources(w)
  BY <1>2 DEF LoadSources, Requests, Replies
<1>4. /\ \A x \in RunSources(w) :
           \/ \E n \in DOMAIN sender[w] : x = <<n, "sender">> /\ sender[w][n] \in {"run"}
           \/ \E n \in DOMAIN receiver : x = <<n, "receiver">> /\ receiver[n] \in {Reply(w, "ran")}
      /\ \A n \in DOMAIN sender[w] : sender[w][n] \in {"run"} => <<n, "sender">> \in RunSources(w)
      /\ \A n \in DOMAIN receiver : receiver[n] \in {Reply(w, "ran")} => <<n, "receiver">> \in RunSources(w)
  BY <1>2 DEF RunSources, Requests, Replies
<1>5. AtMostOne(LoadSources(w)) /\ (LoadSources(w) # {} <=> LoadDue(w, sender[w], receiver, ppc[w]))
  BY Zenon, <1>0, <1>3 DEF LoadAwaited, LoadDue, Some, Once, AtMostOne
<1>6. AtMostOne(RunSources(w)) /\ (RunSources(w) # {} <=> RunDue(w, sender[w], receiver))
  BY Zenon, <1>0, <1>4 DEF RunAwaited, RunDue, Some, Once, AtMostOne
<1> QED BY <1>0, <1>5, <1>6 DEF LoadAwaited, RunAwaited

\* A request is sent while none is on the way.
LEMMA Ask ==
  ASSUME NEW w, NEW in \in Seq({"load", "run"}), NEW out, NEW place, NEW dialog
  PROVE  /\ LoadAwaited(w, in, out, place, dialog) =>
              /\ dialog \notin {"showing", "leaked"} =>
                   LoadAwaited(w, Append(in, "load"), out, place, "showing")
              /\ LoadAwaited(w, Append(in, "run"), out, place, dialog)
         /\ RunAwaited(w, in, out, dialog) =>
              /\ dialog \notin {"showing", "leaked"} => RunAwaited(w, Append(in, "run"), out, "showing")
              /\ RunAwaited(w, Append(in, "load"), out, dialog)
<1>1. /\ Some(Append(in, "load"), {"load"}) /\ (~Some(in, {"load"}) => Once(Append(in, "load"), {"load"}))
      /\ Some(Append(in, "run"), {"run"}) /\ (~Some(in, {"run"}) => Once(Append(in, "run"), {"run"}))
      /\ Some(Append(in, "load"), {"run"}) <=> Some(in, {"run"})
      /\ Once(Append(in, "load"), {"run"}) <=> Once(in, {"run"})
      /\ Some(Append(in, "run"), {"load"}) <=> Some(in, {"load"})
      /\ Once(Append(in, "run"), {"load"}) <=> Once(in, {"load"})
  BY AppendToQueue
<1> QED BY <1>1 DEF LoadAwaited, LoadDue, RunAwaited, RunDue

\* The worker takes a request.
LEMMA Take ==
  ASSUME NEW w, NEW in \in Seq({"load", "run"}), in # <<>>, NEW out, NEW place, NEW dialog
  PROVE  /\ LoadAwaited(w, in, out, "idle", dialog) =>
              /\ Head(in) = "load" /\ place # "idle" => LoadAwaited(w, Tail(in), out, place, dialog)
              /\ Head(in) = "run" => LoadAwaited(w, Tail(in), out, "idle", dialog)
         /\ RunAwaited(w, in, out, dialog) =>
              /\ Head(in) = "load" => RunAwaited(w, Tail(in), out, dialog)
<1>1. \A x \in {"load", "run"} :
        /\ Once(in, {x}) => Once(Tail(in), {x})
        /\ Head(in) # x => (Some(Tail(in), {x}) <=> Some(in, {x}))
        /\ Head(in) = x => Some(in, {x}) /\ (Once(in, {x}) => ~Some(Tail(in), {x}))
  BY TailOfQueue
<1> QED BY <1>1 DEF LoadAwaited, LoadDue, RunAwaited, RunDue

LEMMA ReplyDiffers ==
  ASSUME NEW v, NEW w, NEW x, NEW y
  PROVE  Reply(v, x) = Reply(w, y) <=> v = w /\ x = y
  BY DEF Reply

\* The worker of v answers.
LEMMA Answer ==
  ASSUME NEW v, NEW w, NEW in \in Seq({"load", "run"}), NEW S, NEW out \in Seq(S), NEW place, NEW dialog,
         NEW what \in {"loaded", "loadFailed", "ran"}, Reply(v, what) \in S
  PROVE  LET next == Append(out, Reply(v, what))
         IN  /\ LoadAwaited(w, in, out, place, dialog) =>
                  /\ v # w \/ what = "ran" => LoadAwaited(w, in, next, place, dialog)
                  /\ v = w /\ what # "ran" /\ place # "idle" => LoadAwaited(w, in, next, "idle", dialog)
             /\ RunAwaited(w, in, out, dialog) =>
                  /\ v # w \/ what # "ran" => RunAwaited(w, in, next, dialog)
                  /\ v = w /\ what = "ran" /\ in # <<>> /\ Head(in) = "run" =>
                       RunAwaited(w, Tail(in), next, dialog)
<1> DEFINE next == Append(out, Reply(v, what))
<1>1. (Reply(v, what) \in LoadAnswers(w) <=> v = w /\ what # "ran")
      /\ (Reply(v, what) \in {Reply(w, "ran")} <=> v = w /\ what = "ran")
  BY ReplyDiffers DEF LoadAnswers
<1>2. \A V : /\ Reply(v, what) \notin V => /\ Some(next, V) <=> Some(out, V)
                                          /\ Once(next, V) <=> Once(out, V)
             /\ Reply(v, what) \in V => /\ Some(next, V)
                                        /\ ~Some(out, V) => Once(next, V)
  BY AppendToQueue
<1>3. in # <<>> /\ Head(in) = "run" =>
        /\ Once(in, {"run"}) => Once(Tail(in), {"run"})
        /\ Some(in, {"run"}) /\ (Once(in, {"run"}) => ~Some(Tail(in), {"run"}))
  BY TailOfQueue
<1> HIDE DEF next
<1>4. LoadAwaited(w, in, out, place, dialog) =>
        /\ v # w \/ what = "ran" => LoadAwaited(w, in, next, place, dialog)
        /\ v = w /\ what # "ran" /\ place # "idle" => LoadAwaited(w, in, next, "idle", dialog)
  BY <1>1, <1>2 DEF LoadAwaited, LoadDue
<1>5. RunAwaited(w, in, out, dialog) =>
        /\ v # w \/ what # "ran" => RunAwaited(w, in, next, dialog)
        /\ v = w /\ what = "ran" /\ in # <<>> /\ Head(in) = "run" => RunAwaited(w, Tail(in), next, dialog)
  BY <1>1, <1>2, <1>3 DEF RunAwaited, RunDue
<1> QED BY <1>4, <1>5 DEF next

\* The UI thread takes an answer for v.
LEMMA Deliver ==
  ASSUME NEW v, NEW w, NEW in, NEW S, NEW out \in Seq(S), out # <<>>, NEW place, NEW dialog,
         NEW what \in {"loaded", "loadFailed", "ran"}, Head(out) = Reply(v, what)
  PROVE  /\ LoadAwaited(w, in, out, place, dialog) =>
              /\ v # w \/ what = "ran" \/ dialog = "leaked" => LoadAwaited(w, in, Tail(out), place, dialog)
              /\ v = w /\ what # "ran" =>
                   /\ dialog # "none"
                   /\ dialog # "leaked" => LoadAwaited(w, in, Tail(out), place, "dismissed")
         /\ RunAwaited(w, in, out, dialog) =>
              /\ v # w \/ what # "ran" \/ dialog = "leaked" => RunAwaited(w, in, Tail(out), dialog)
              /\ v = w /\ what = "ran" =>
                   /\ dialog # "none"
                   /\ dialog # "leaked" => RunAwaited(w, in, Tail(out), "dismissed")
<1>1. (Head(out) \in LoadAnswers(w) <=> v = w /\ what # "ran")
      /\ (Head(out) \in {Reply(w, "ran")} <=> v = w /\ what = "ran")
  BY ReplyDiffers DEF LoadAnswers
<1>2. \A V : /\ Once(out, V) => Once(Tail(out), V)
             /\ Head(out) \notin V => (Some(Tail(out), V) <=> Some(out, V))
             /\ Head(out) \in V => Some(out, V) /\ (Once(out, V) => ~Some(Tail(out), V))
  BY TailOfQueue
<1>3. LoadAwaited(w, in, out, place, dialog) =>
        /\ v # w \/ what = "ran" \/ dialog = "leaked" => LoadAwaited(w, in, Tail(out), place, dialog)
        /\ v = w /\ what # "ran" =>
             /\ dialog # "none"
             /\ dialog # "leaked" => LoadAwaited(w, in, Tail(out), place, "dismissed")
  BY <1>1, <1>2 DEF LoadAwaited, LoadDue
<1>4. RunAwaited(w, in, out, dialog) =>
        /\ v # w \/ what # "ran" \/ dialog = "leaked" => RunAwaited(w, in, Tail(out), dialog)
        /\ v = w /\ what = "ran" =>
             /\ dialog # "none"
             /\ dialog # "leaked" => RunAwaited(w, in, Tail(out), "dismissed")
  BY <1>1, <1>2 DEF RunAwaited, RunDue
<1> QED BY <1>3, <1>4

\* quit drops the requests of a worker whose dialogs are down or leak.
LEMMA Quit ==
  ASSUME NEW w, NEW in, NEW out, NEW place, NEW dialog
  PROVE  /\ LoadAwaited(w, in, out, place, dialog) => LoadAwaited(w, <<>>, out, place, Leak(dialog))
         /\ RunAwaited(w, in, out, dialog) => RunAwaited(w, <<>>, out, Leak(dialog))
  BY EmptyQueue DEF LoadAwaited, LoadDue, RunAwaited, RunDue, Leak

LEMMA AwaitStep ==
  ASSUME TypeOK, LifeInv, DialogInv, AwaitInv, [Next]_vars
  PROVE  AwaitInv'
<1> USE PredictorAssumption
<1>t. /\ pbLoadModel \in [Workers -> Dialogs] /\ pbRunModel \in [Workers -> Dialogs]
      /\ sender \in [Workers -> Seq({"load", "run"})]
      /\ receiver \in Seq(Answers)
      /\ ppc \in [Processes -> Places]
      /\ prefs \in Prefs
      /\ ActivityTypeOK
  BY DEF TypeOK, ActivityTypeOK, PredictorTypeOK, Prefs, Answers
<1> SUFFICES ASSUME NEW u \in Workers
             PROVE  Awaits(u)'
  BY DEF AwaitInv
<1>u. /\ Awaits(u) /\ DialogInvOf(u) /\ sender[u] \in Seq({"load", "run"})
      /\ LoadAwaited(u, sender[u], receiver, ppc[u], pbLoadModel[u])
      /\ RunAwaited(u, sender[u], receiver, pbRunModel[u])
  BY SMTT(30), <1>t DEF AwaitInv, Awaits, DialogInv
<1>f. ASSUME sender'[u] = sender[u], receiver' = receiver, ppc'[u] = ppc[u],
             pbLoadModel'[u] = pbLoadModel[u], pbRunModel'[u] = pbRunModel[u]
      PROVE  Awaits(u)'
  BY ZenonT(40), <1>f, <1>u DEF Awaits
<1>1. CASE UseSettings \/ TurnBehind
  BY Zenon, <1>1, <1>f DEF UseSettings, TurnBehind, predictorVars, uiVars, queues
<1>2. ASSUME NEW w \in Workers, NEW p \in Prefs, onResume(w, p),
             UNCHANGED <<receiver, ppc, pbRunModel>>,
             settingsChanged(p.config, current[w]) => pbLoadModel[w] \notin {"showing", "leaked"}
      PROVE  Awaits(u)'
  <2>1. CASE UNCHANGED <<sender, pbLoadModel>>
    BY <1>2, <1>f, <2>1
  <2>2. CASE Reload(w, p) /\ u # w
    BY <1>2, <1>f, <1>t, <2>2 DEF Reload
  <2>3. CASE Reload(w, p) /\ u = w
    <3>1. pbLoadModel[u] \notin {"showing", "leaked"}
      BY <1>2, <2>3 DEF Reload
    <3>2. sender'[u] = Append(sender[u], "load") /\ pbLoadModel'[u] = "showing"
      BY <1>t, <2>3, <3>1 DEF Reload
    <3> QED BY Zenon, <1>2, <1>u, <3>1, <3>2, Ask DEF Awaits
  <2> QED BY <1>2, <1>t, <2>1, <2>2, <2>3, ResumeOutcome
<1>3. ASSUME NEW w \in Workers, Launch(w)
      PROVE  Awaits(u)'
  <2>1. /\ onResume(w, Cleared) /\ UNCHANGED <<receiver, ppc, pbRunModel>> /\ stage[w] = "new"
    BY Zenon, <1>3 DEF Launch, onCreate, predictorVars
  <2>2. pbLoadModel[w] = "none"
    BY <2>1 DEF LifeInv
  <2> QED BY <1>2, <2>1, <2>2, ClearedType
<1>4. ASSUME NEW w \in Workers, ComeBack(w)
      PROVE  Awaits(u)'
  <2>1. /\ onResume(w, prefs) /\ UNCHANGED <<receiver, ppc, pbRunModel>> /\ stage[w] = "paused"
    BY Zenon, <1>4 DEF ComeBack, predictorVars
  <2>2. DialogInvOf(w) /\ current[w] \in Configs
    BY <2>1 DEF DialogInv, LifeInv
  <2>3. settingsChanged(prefs.config, current[w]) => pbLoadModel[w] \notin {"showing", "leaked"}
    BY <2>1, <2>2, MainActivityAssumption DEF DialogInvOf, SameSettings, settingsChanged
  <2> QED BY <1>2, <1>t, <2>1, <2>3
<1>5. ASSUME NEW w \in Workers, GoHome(w) \/ onSettingsClicked(w) \/ ttsSpeak(w)
      PROVE  Awaits(u)'
  BY Zenon, <1>5, <1>f DEF GoHome, onSettingsClicked, ttsSpeak, predictorVars, queues
<1>6. ASSUME NEW w \in Workers, Leave(w)
      PROVE  Awaits(u)'
  BY <1>6, <1>f, <1>t DEF Leave, onDestroy, BeginRelease, Go, queues, Processes
<1>7. ASSUME NEW w \in Workers, onItemSelected(w)
      PROVE  Awaits(u)'
  <2>1. DialogInvOf(w)
    BY SMTT(30) DEF DialogInv
  <2>2. pbRunModel[w] \notin {"showing", "leaked"}
    BY <1>7, <2>1, SelectOutcome DEF DialogInvOf, Alive
  <2>3. /\ pbRunModel' = [pbRunModel EXCEPT ![w] = "showing"]
        /\ sender' = [sender EXCEPT ![w] = Append(sender[w], "run")]
        /\ UNCHANGED <<receiver, ppc, pbLoadModel>>
    BY <1>7, <2>2, SelectOutcome DEF predictorVars
  <2>4. CASE u # w
    BY SMTT(30), <1>f, <1>t, <2>3, <2>4
  <2>5. CASE u = w
    <3>1. pbRunModel'[u] = "showing" /\ sender'[u] = Append(sender[u], "run")
      BY <1>t, <2>3, <2>5
    <3> QED BY <1>u, <2>2, <2>3, <2>5, <3>1, Ask DEF Awaits
  <2> QED BY <2>4, <2>5
<1>8. CASE ReleaseStep
  <2>1. ppc'[u] = ppc[u]
    BY <1>8, ProcessMoves DEF ReleaseStep, TypeOK, Processes
  <2> QED BY Zenon, <1>8, <1>f, <2>1 DEF ReleaseStep, uiVars, queues
<1>9. CASE HandleReply
  <2>1. PICK w \in Workers, what \in {"loaded", "loadFailed", "ran"} :
          /\ receiver # <<>> /\ Head(receiver) = Reply(w, what) /\ receiver' = Tail(receiver)
          /\ Throws(w, what) \/ Ran(w, what) \/ Loaded(w, what)
    BY <1>9, <1>t, ReplyOutcome
  <2>2. UNCHANGED <<sender, ppc>>
    BY Zenon, <1>9 DEF HandleReply, predictorVars
  <2> DEFINE Tailed(v) ==
        /\ v # u \/ what = "ran" \/ pbLoadModel[u] = "leaked" =>
             LoadAwaited(u, sender[u], Tail(receiver), ppc[u], pbLoadModel[u])
        /\ v = u /\ what # "ran" =>
             /\ pbLoadModel[u] # "none"
             /\ pbLoadModel[u] # "leaked" => LoadAwaited(u, sender[u], Tail(receiver), ppc[u], "dismissed")
        /\ v # u \/ what # "ran" \/ pbRunModel[u] = "leaked" =>
             RunAwaited(u, sender[u], Tail(receiver), pbRunModel[u])
        /\ v = u /\ what = "ran" =>
             /\ pbRunModel[u] # "none"
             /\ pbRunModel[u] # "leaked" => RunAwaited(u, sender[u], Tail(receiver), "dismissed")
  <2>3. Tailed(w)
    <3>1. LoadAwaited(u, sender[u], receiver, ppc[u], pbLoadModel[u]) =>
            /\ w # u \/ what = "ran" \/ pbLoadModel[u] = "leaked" =>
                 LoadAwaited(u, sender[u], Tail(receiver), ppc[u], pbLoadModel[u])
            /\ w = u /\ what # "ran" =>
                 /\ pbLoadModel[u] # "none"
                 /\ pbLoadModel[u] # "leaked" => LoadAwaited(u, sender[u], Tail(receiver), ppc[u], "dismissed")
      BY Zenon, <1>t, <2>1, Deliver
    <3>2. RunAwaited(u, sender[u], receiver, pbRunModel[u]) =>
            /\ w # u \/ what # "ran" \/ pbRunModel[u] = "leaked" =>
                 RunAwaited(u, sender[u], Tail(receiver), pbRunModel[u])
            /\ w = u /\ what = "ran" =>
                 /\ pbRunModel[u] # "none"
                 /\ pbRunModel[u] # "leaked" => RunAwaited(u, sender[u], Tail(receiver), "dismissed")
      BY ZenonT(40), <1>t, <2>1, Deliver
    <3> QED BY Zenon, <1>u, <3>1, <3>2
  <2>4. CASE Throws(w, what)
    BY <2>1, <2>2, <2>3, <2>4 DEF Throws, Awaits
  <2>5. CASE Ran(w, what)
    BY <1>t, <2>1, <2>2, <2>3, <2>5 DEF Ran, Awaits
  <2>6. CASE Loaded(w, what)
    BY <1>t, <2>1, <2>2, <2>3, <2>6 DEF Loaded, Awaits
  <2> QED BY <2>1, <2>4, <2>5, <2>6
<1>10. ASSUME NEW w \in Workers, Destroyed(w)
       PROVE  Awaits(u)'
  <2>1. /\ sender' = [sender EXCEPT ![w] = <<>>] /\ leaving.who = w /\ leaving.next = "finish"
        /\ UNCHANGED <<receiver, ppc, pbLoadModel, pbRunModel>>
    BY Zenon, <1>10 DEF Destroyed, quit, predictorVars
  <2>2. CASE u # w
    BY SMTT(30), <1>f, <1>t, <2>1, <2>2
  <2>3. CASE u = w
    <3>1. pbLoadModel[u] # "showing" /\ pbRunModel[u] # "showing"
      BY <1>u, <2>1, <2>3 DEF DialogInvOf
    <3>2. sender'[u] = <<>> /\ Leak(pbLoadModel[u]) = pbLoadModel[u] /\ Leak(pbRunModel[u]) = pbRunModel[u]
      BY <1>t, <2>1, <2>3, <3>1 DEF Leak
    <3> QED BY SMTT(30), <1>u, <2>1, <3>2, Quit DEF Awaits
  <2> QED BY <2>2, <2>3
<1>11. ASSUME NEW w \in Workers, NEW v \in Workers, Recreated(w, v)
       PROVE  Awaits(u)'
  <2>1. stage[v] = "new" /\ v # w /\ UNCHANGED <<receiver, ppc>>
    BY <1>11 DEF Recreated, LifeInv, predictorVars
  <2>2. CASE u \notin {v, w}
    BY SMTT(30), <1>11, <1>f, <1>t, <2>1, <2>2 DEF Recreated, quit
  <2>3. CASE u = w
    <3>1. /\ sender'[u] = <<>>
          /\ pbLoadModel'[u] = Leak(pbLoadModel[u]) /\ pbRunModel'[u] = Leak(pbRunModel[u])
      BY <1>11, <1>t, <2>1, <2>3 DEF Recreated, quit
    <3> QED BY <1>u, <2>1, <3>1, Quit DEF Awaits
  <2>4. CASE u = v
    <3>1. pbLoadModel[u] = "none" /\ pbRunModel[u] = "none"
      BY <2>1, <2>4 DEF LifeInv
    <3>2. sender'[u] = Append(sender[u], "load") /\ pbLoadModel'[u] = "showing"
      BY <1>11, <1>t, <2>1, <2>4 DEF Recreated, quit
    <3>3. pbRunModel'[u] = pbRunModel[u]
      BY <1>11, <1>t, <2>1, <2>4 DEF Recreated
    <3> QED BY ZenonT(40), <1>u, <2>1, <3>1, <3>2, <3>3, Ask DEF Awaits
  <2> QED BY Zenon, <2>2, <2>3, <2>4
<1>12. ASSUME NEW w \in Workers, HandleLoad(w)
       PROVE  Awaits(u)'
  <2>1. /\ sender[w] # <<>> /\ Head(sender[w]) = "load" /\ sender' = [sender EXCEPT ![w] = Tail(sender[w])]
        /\ ppc[w] = "idle" /\ ppc' = [ppc EXCEPT ![w] = "clearAM"]
        /\ UNCHANGED <<receiver, pbLoadModel, pbRunModel>>
    BY Zenon, <1>12 DEF HandleLoad, BeginInit, Go, uiVars
  <2>2. CASE u # w
    BY SMTT(30), <1>f, <1>t, <2>1, <2>2 DEF Processes
  <2>3. CASE u = w
    <3>1. sender'[u] = Tail(sender[u]) /\ ppc'[u] = "clearAM"
      BY <1>t, <2>1, <2>3 DEF Processes
    <3> QED BY SMTT(30), <1>u, <2>1, <2>3, <3>1, Take DEF Awaits
  <2> QED BY <2>2, <2>3
<1>13. ASSUME NEW w \in Workers, LoadStep(w)
       PROVE  Awaits(u)'
  <2>1. /\ ppc[w] # "idle" /\ \A v \in Workers : v # w => ppc'[v] = ppc[v]
        /\ AnswerLoad(w) /\ UNCHANGED <<sender, pbLoadModel, pbRunModel>>
    <3>1. Release(w) \/ InitStep(w)
      BY Zenon, <1>13 DEF LoadStep
    <3>2. ppc[w] # "idle" /\ \A v \in Workers : v # w => ppc'[v] = ppc[v]
      BY <3>1, ProcessMoves DEF TypeOK, Processes
    <3> QED BY Zenon, <1>13, <3>2 DEF LoadStep, uiVars
  <2>2. CASE ppc'[w] # "idle"
    <3>1. receiver' = receiver
      BY ZenonT(40), <2>1, <2>2 DEF AnswerLoad
    <3> QED BY <1>u, <2>1, <2>2, <3>1 DEF Awaits, LoadAwaited, LoadDue
  <2>3. CASE ppc'[w] = "idle"
    <3>1. PICK what \in {"loaded", "loadFailed"} : receiver' = Append(receiver, Reply(w, what))
      BY Zenon, <2>1, <2>3 DEF AnswerLoad
    <3>2. Reply(w, what) \in Answers
      BY DEF Reply, Answers
    <3>3. RunAwaited(u, sender[u], receiver', pbRunModel[u])
      BY Zenon, <1>t, <1>u, <3>1, <3>2, Answer
    <3>4. LoadAwaited(u, sender[u], receiver', ppc'[u], pbLoadModel[u])
      <4>1. CASE u # w
        BY Zenon, <1>t, <1>u, <2>1, <3>1, <3>2, <4>1, Answer
      <4>2. CASE u = w
        <5>1. what # "ran" /\ ppc[u] # "idle" /\ ppc'[u] = "idle"
          BY <2>1, <2>3, <4>2
        <5>2. LoadAwaited(u, sender[u], Append(receiver, Reply(w, what)), "idle", pbLoadModel[u])
          BY Zenon, <1>t, <1>u, <3>2, <4>2, <5>1, Answer
        <5> QED BY Zenon, <3>1, <5>1, <5>2
      <4> QED BY <4>1, <4>2
    <3> QED BY <2>1, <3>3, <3>4 DEF Awaits
  <2> QED BY <2>2, <2>3
<1>14. ASSUME NEW w \in Workers, HandleRun(w)
       PROVE  Awaits(u)'
  <2>1. /\ sender[w] # <<>> /\ Head(sender[w]) = "run" /\ sender' = [sender EXCEPT ![w] = Tail(sender[w])]
        /\ ppc[w] = "idle" /\ receiver' = Append(receiver, Reply(w, "ran"))
        /\ UNCHANGED <<ppc, pbLoadModel, pbRunModel>>
    BY Zenon, <1>14 DEF HandleRun, predictorVars, uiVars
  <2>2. Reply(w, "ran") \in Answers
    BY DEF Reply, Answers
  <2>3. CASE u # w
    <3>1. /\ LoadAwaited(u, sender[u], receiver', ppc[u], pbLoadModel[u])
          /\ RunAwaited(u, sender[u], receiver', pbRunModel[u])
      BY ZenonT(40), <1>t, <1>u, <2>1, <2>2, <2>3, Answer
    <3> QED BY <1>t, <2>1, <2>3, <3>1 DEF Awaits
  <2>4. CASE u = w
    <3>1. LoadAwaited(u, Tail(sender[u]), receiver, ppc[u], pbLoadModel[u])
      BY ZenonT(40), <1>u, <2>1, <2>4, Take
    <3>2. sender'[u] = Tail(sender[u]) /\ Tail(sender[u]) \in Seq({"load", "run"})
      BY <1>t, <1>u, <2>1, <2>4, QueueType
    <3>3. LoadAwaited(u, Tail(sender[u]), receiver', ppc[u], pbLoadModel[u])
      BY Zenon, <1>t, <2>1, <2>2, <2>4, <3>1, <3>2, Answer
    <3>4. RunAwaited(u, Tail(sender[u]), receiver', pbRunModel[u])
      BY Zenon, <1>t, <1>u, <2>1, <2>2, <2>4, Answer
    <3> QED BY SMTT(30), <2>1, <3>2, <3>3, <3>4 DEF Awaits
  <2> QED BY <2>3, <2>4
<1>15. CASE UNCHANGED vars
  BY Zenon, <1>15, <1>f DEF vars, predictorVars, uiVars, queues
<1> QED
  BY Zenon, <1>1, <1>3, <1>4, <1>5, <1>6, <1>7, <1>8, <1>9, <1>10, <1>11, <1>12, <1>13, <1>14, <1>15
  DEF Next, UserStep, LooperStep, WorkerStep

-----------------------------------------------------------------------------
(* The exclusion. *)

\* A load of w runs or has been answered.
Busy(w) == ppc[w] # "idle" \/ Some(receiver, LoadAnswers(w))

LEMMA BusyShows ==
  ASSUME AwaitInv, NEW w \in Workers, Busy(w)
  PROVE  /\ pbLoadModel[w] \in {"showing", "leaked"}
         /\ ppc[w] # "idle" => ~Some(receiver, LoadAnswers(w))
  BY DEF AwaitInv, Awaits, LoadAwaited, LoadDue, Busy

\* Until an activity is destroyed under its dialog, a load has the UI thread and the
\* other workers to itself.
LEMMA BusyAlone ==
  ASSUME TypeOK, LifeInv, DialogInv, AwaitInv, ~Cut, NEW w \in Workers, Busy(w)
  PROVE  /\ pbLoadModel[w] = "showing" /\ ppc[UI] = "idle"
         /\ \A v \in Workers : Busy(v) \/ Alive(v) => v = w
<1>1. ASSUME NEW v \in Workers, Busy(v)
      PROVE  pbLoadModel[v] = "showing" /\ Alive(v) /\ stage[v] # "destroying"
  BY <1>1, BusyShows DEF DialogInv, DialogInvOf, Cut
<1>2. \A v \in Workers : Busy(v) \/ Alive(v) => v = w
  BY <1>1 DEF LifeInv
<1>3. ppc[UI] = "idle"
  <2>1. SUFFICES ASSUME ppc[UI] # "idle" PROVE FALSE
    OBVIOUS
  <2>2. leaving.who # UI
    BY <2>1 DEF LifeInv
  <2>3. leaving.who \in Workers
    BY <2>2 DEF TypeOK, ActivityTypeOK, Processes
  <2> QED BY <1>1, <1>2, <2>3 DEF LifeInv, Alive
<1> QED BY <1>1, <1>2, <1>3

LEMMA Exclusion ==
  ASSUME TypeOK, LifeInv, DialogInv, AwaitInv, ~Cut
  PROVE  AtMostOne({p \in Processes : ppc[p] # "idle"}) /\ OneLoader
<1>1. \A v, w \in Workers : ppc[v] # "idle" /\ ppc[w] # "idle" => v = w
  BY BusyAlone DEF Busy
<1>2. \A w \in Workers : ppc[w] # "idle" => ppc[UI] = "idle"
  BY BusyAlone DEF Busy
<1> QED BY <1>1, <1>2 DEF AtMostOne, OneLoader, Processes

-----------------------------------------------------------------------------
(* What is loaded. *)

\* init works for the settings its activity has.
JobInv == \A w \in Workers : ppc[w] # "idle" => job[w].config = current[w]

LEMMA JobStep ==
  ASSUME TypeOK, LifeInv, DialogInv, AwaitInv, JobInv, [Next]_vars
  PROVE  JobInv'
<1> USE PredictorAssumption
<1>t. /\ ppc \in [Processes -> Places] /\ job \in [Workers -> Jobs]
      /\ current \in [Workers -> Configs \cup {NoConfig}] /\ ActivityTypeOK
  BY DEF TypeOK, PredictorTypeOK, ActivityTypeOK
<1> SUFFICES ASSUME NEW u \in Workers, ppc'[u] # "idle"
             PROVE  job'[u].config = current'[u]
  BY DEF JobInv
<1>f. ASSUME ppc[u] # "idle" => current'[u] = current[u], ppc'[u] = ppc[u], job' = job
      PROVE  job'[u].config = current'[u]
  BY <1>f DEF JobInv
<1>1. CASE UseSettings \/ TurnBehind \/ HandleReply
  BY Zenon, <1>1, <1>f DEF UseSettings, TurnBehind, HandleReply, uiVars, predictorVars
<1>2. ASSUME NEW w \in Workers, Launch(w) \/ ComeBack(w)
      PROVE  job'[u].config = current'[u]
  <2>1. PICK p \in Prefs :
          /\ onResume(w, p) /\ UNCHANGED predictorVars
          /\ settingsChanged(p.config, current[w]) => pbLoadModel[w] \notin {"showing", "leaked"}
    BY <1>2, Resumes
  <2>2. ppc[u] # "idle" => pbLoadModel[u] \in {"showing", "leaked"}
    BY BusyShows DEF Busy
  <2>3. ppc[u] # "idle" => current'[u] = current[u]
    BY <1>t, <2>1, <2>2, ResumeOutcome DEF Reload
  <2> QED BY <1>f, <2>1, <2>3 DEF predictorVars
<1>3. ASSUME NEW w \in Workers,
             GoHome(w) \/ onSettingsClicked(w) \/ ttsSpeak(w) \/ onItemSelected(w) \/ HandleRun(w) \/ Destroyed(w)
      PROVE  job'[u].config = current'[u]
  BY Zenon, <1>3, <1>f DEF GoHome, onSettingsClicked, ttsSpeak, onItemSelected, runModel, HandleRun, Destroyed,
     uiVars, predictorVars
<1>4. ASSUME NEW w \in Workers, Leave(w)
      PROVE  job'[u].config = current'[u]
  BY <1>4, <1>f, <1>t DEF Leave, onDestroy, BeginRelease, Go, Processes
<1>5. CASE ReleaseStep
  <2>1. ppc'[u] = ppc[u] /\ UNCHANGED job
    BY <1>5, ProcessMoves DEF ReleaseStep, TypeOK, Processes
  <2> QED BY Zenon, <1>5, <1>f, <2>1 DEF ReleaseStep, uiVars
<1>6. ASSUME NEW w \in Workers, NEW v \in Workers, Recreated(w, v)
      PROVE  job'[u].config = current'[u]
  BY <1>6, <1>f, <1>t DEF Recreated, SetFields, predictorVars, LifeInv
<1>7. ASSUME NEW w \in Workers, HandleLoad(w)
      PROVE  job'[u].config = current'[u]
  BY <1>7, <1>f, <1>t DEF HandleLoad, BeginInit, Go, Processes, uiVars, JobInv
<1>8. ASSUME NEW w \in Workers, LoadStep(w)
      PROVE  job'[u].config = current'[u]
  <2>1. ppc[w] # "idle" /\ (u # w => ppc'[u] = ppc[u]) /\ UNCHANGED <<job, current>>
    <3>1. Release(w) \/ InitStep(w)
      BY Zenon, <1>8 DEF LoadStep
    <3>2. ppc[w] # "idle" /\ (u # w => ppc'[u] = ppc[u]) /\ UNCHANGED job
      BY <3>1, ProcessMoves DEF TypeOK, Processes
    <3> QED BY Zenon, <1>8, <3>2 DEF LoadStep, uiVars
  <2> QED BY <2>1 DEF JobInv
<1>9. CASE UNCHANGED vars
  BY Zenon, <1>9, <1>f DEF vars, uiVars, predictorVars
<1> QED
  BY Zenon, <1>1, <1>2, <1>3, <1>4, <1>5, <1>6, <1>7, <1>8, <1>9
  DEF Next, UserStep, LooperStep, WorkerStep

Own(w) == [load |-> job[w].load, config |-> job[w].config]

\* What a worker has loaded so far comes from its own job.
Loading == \A w \in Workers : /\ ppc[w] \in {"loadVOC", "setLoaded"} => AMPredictor = Own(w)
                              /\ ppc[w] = "setLoaded" => VOCPredictor = Own(w)

LEMMA LoadingStep ==
  ASSUME PredictorTypeOK, AtMostOne({p \in Processes : ppc[p] # "idle"}), Loading,
         [PredictorNext]_predictorVars
  PROVE  Loading'
<1> USE PredictorAssumption DEF Loading, Own, Go, Processes
<1>t. /\ ppc \in [Processes -> Places] /\ job \in [Workers -> Jobs]
      /\ \A p, q \in Processes : ppc[p] # "idle" /\ ppc[q] # "idle" => p = q
  BY DEF PredictorTypeOK, AtMostOne
<1>1. ASSUME NEW w \in Workers, NEW c \in Configs, NEW s \in Speakers, BeginInit(w, c, s)
      PROVE  Loading'
  BY <1>1, <1>t DEF BeginInit
<1>2. CASE BeginRelease
  BY <1>2, <1>t DEF BeginRelease
<1>3. ASSUME NEW p \in Processes, Release(p)
      PROVE  Loading'
  BY <1>3, <1>t DEF Release, ClearAM, ClearVOC, ClearFlag, ClearSpeaker
<1>4. ASSUME NEW w \in Workers, SetSpeaker(w) \/ SetLoaded(w)
      PROVE  Loading'
  BY <1>4, <1>t DEF SetSpeaker, SetLoaded
<1>5. ASSUME NEW w \in Workers, NEW m \in loadModel(job[w]), LoadAM(w, m) \/ LoadVOC(w, m)
      PROVE  Loading'
  BY <1>5, <1>t DEF LoadAM, LoadVOC, loadModel
<1>6. CASE UNCHANGED predictorVars
  BY <1>6 DEF predictorVars
<1> QED BY <1>1, <1>2, <1>3, <1>4, <1>5, <1>6 DEF PredictorNext, InitStep

\* The models of configuration c are loaded.
Has(c) == IsLoaded /\ AMPredictor.config = c /\ VOCPredictor.config = c

\* A load that is reported, or was reported to an activity still there, is in place.
ShownOf(w) ==
  /\ Some(receiver, {Reply(w, "loaded")}) => Has(current[w])
  /\ stage[w] \in {"resumed", "paused"} /\ pbLoadModel[w] = "dismissed" /\ loaded[w] = "loaded" =>
       Has(current[w])

Shown == \A w \in Workers : ShownOf(w)

\* Without a dialog no load is reported.
LEMMA Unanswered ==
  ASSUME AwaitInv, NEW w \in Workers, pbLoadModel[w] \notin {"showing", "leaked"}
  PROVE  ~Some(receiver, {Reply(w, "loaded")})
<1>1. ~Some(receiver, LoadAnswers(w))
  BY BusyShows, Zenon DEF Busy
<1> QED BY <1>1, Zenon DEF Some, LoadAnswers

\* While a load runs, or onDestroy, there is no success to be true to.
LEMMA NothingShown ==
  ASSUME TypeOK, LifeInv, DialogInv, AwaitInv, ~Cut, NEW p \in Processes, ppc[p] # "idle", NEW u \in Workers
  PROVE  /\ ~Some(receiver, {Reply(u, "loaded")})
         /\ ~(stage[u] \in {"resumed", "paused"} /\ pbLoadModel[u] = "dismissed")
<1>0. Some(receiver, {Reply(u, "loaded")}) => Busy(u)
  BY DEF Some, Busy, LoadAnswers
<1>1. CASE p = UI
  <2>1. ~Busy(u)
    BY <1>1, BusyAlone
  <2>2. leaving.who \in Workers
    BY SMTT(30), <1>1 DEF LifeInv, TypeOK, ActivityTypeOK, Processes
  <2> QED BY <1>0, <2>1, <2>2 DEF LifeInv, Alive
<1>2. CASE p \in Workers
  <2>1. Busy(p)
    BY Zenon DEF Busy
  <2>2. /\ pbLoadModel[p] = "showing" /\ ~Some(receiver, LoadAnswers(p))
        /\ Busy(u) \/ Alive(u) => u = p
    BY <1>2, <2>1, BusyAlone, BusyShows
  <2>3. ~Some(receiver, {Reply(p, "loaded")})
    BY <2>2 DEF Some, LoadAnswers
  <2> QED BY <1>0, <2>2, <2>3 DEF Alive
<1> QED BY <1>1, <1>2 DEF Processes

LEMMA ShownStep ==
  ASSUME TypeOK, LifeInv, DialogInv, AwaitInv, JobInv, ~Cut, Loading, Shown, [Next]_vars
  PROVE  Shown'
<1> USE PredictorAssumption
<1>t. /\ pbLoadModel \in [Workers -> Dialogs] /\ loaded \in [Workers -> {"none", "loaded", "loadFailed"}]
      /\ stage \in [Workers -> {"new", "resumed", "paused", "destroying", "destroyed"}]
      /\ current \in [Workers -> Configs \cup {NoConfig}]
      /\ receiver \in Seq(Answers)
      /\ ppc \in [Processes -> Places] /\ job \in [Workers -> Jobs]
      /\ ActivityTypeOK
  BY DEF TypeOK, ActivityTypeOK, PredictorTypeOK, Answers
<1> SUFFICES ASSUME NEW u \in Workers
             PROVE  ShownOf(u)'
  BY DEF Shown
<1>u. ShownOf(u)
  BY DEF Shown
<1> DEFINE Same == UNCHANGED <<AMPredictor, VOCPredictor, isLoaded>>
           Stays == stage'[u] \in {"resumed", "paused"} => stage[u] \in {"resumed", "paused"}
<1>f. ASSUME Same, Stays, receiver' = receiver, current'[u] = current[u],
             pbLoadModel'[u] = pbLoadModel[u], loaded'[u] = loaded[u]
      PROVE  ShownOf(u)'
  BY <1>f, <1>u DEF ShownOf, Has, IsLoaded
<1> HIDE DEF Same, Stays
<1>1. CASE UseSettings \/ TurnBehind
  BY Zenon, <1>1, <1>f DEF UseSettings, TurnBehind, uiVars, queues, predictorVars, Same, Stays
<1>2. ASSUME NEW w \in Workers, Launch(w) \/ ComeBack(w)
      PROVE  ShownOf(u)'
  <2>1. PICK p \in Prefs :
          /\ onResume(w, p) /\ UNCHANGED predictorVars /\ UNCHANGED receiver /\ UNCHANGED loaded
          /\ settingsChanged(p.config, current[w]) => pbLoadModel[w] \notin {"showing", "leaked"}
          /\ stage[w] \in {"new", "paused"} /\ (stage[w] = "new" => pbLoadModel[w] = "none")
          /\ stage' = [stage EXCEPT ![w] = "resumed"]
    BY Zenon, <1>2, Resumes
  <2>2. Same
    BY Zenon, <2>1 DEF predictorVars, Same
  <2>3. CASE UNCHANGED <<current, pbLoadModel>> /\ (u = w => stage[w] = "paused")
    <3>1. Stays
      BY SMTT(30), <1>t, <2>1, <2>3 DEF Stays
    <3> QED BY <1>f, <2>1, <2>2, <2>3, <3>1
  <2>4. CASE UNCHANGED <<current, pbLoadModel>> /\ u = w /\ stage[w] = "new"
    BY SMTT(30), <1>u, <2>1, <2>2, <2>4 DEF ShownOf, Has, IsLoaded, Same
  <2>5. CASE Reload(w, p) /\ u # w
    <3>1. Stays /\ current'[u] = current[u] /\ pbLoadModel'[u] = pbLoadModel[u]
      BY <1>t, <2>1, <2>5 DEF Stays, Reload
    <3> QED BY <1>f, <2>1, <2>2, <3>1
  <2>6. CASE Reload(w, p) /\ u = w
    <3>1. pbLoadModel[u] \notin {"showing", "leaked"} /\ pbLoadModel'[u] # "dismissed"
      BY <1>t, <2>1, <2>6 DEF Reload
    <3>2. ~Some(receiver, {Reply(u, "loaded")})
      BY <3>1, Unanswered, Zenon
    <3> QED BY <2>1, <3>1, <3>2 DEF ShownOf
  <2> QED BY <1>t, <2>1, <2>3, <2>4, <2>5, <2>6, ResumeOutcome
<1>3. ASSUME NEW w \in Workers, GoHome(w) \/ onSettingsClicked(w)
      PROVE  ShownOf(u)'
  <2>1. /\ stage[w] = "resumed" /\ stage' = [stage EXCEPT ![w] = "paused"]
        /\ UNCHANGED <<predictorVars, receiver, current, pbLoadModel, loaded>>
    BY Zenon, <1>3 DEF GoHome, onSettingsClicked, Touchable, queues
  <2>2. Same /\ Stays
    BY <1>t, <2>1 DEF Same, Stays, predictorVars
  <2> QED BY <1>f, <2>1, <2>2
<1>4. ASSUME NEW w \in Workers, ttsSpeak(w) \/ onItemSelected(w) \/ HandleLoad(w)
      PROVE  ShownOf(u)'
  BY Zenon, <1>4, <1>f DEF ttsSpeak, onItemSelected, runModel, HandleLoad, BeginInit, uiVars, queues,
     predictorVars, Same, Stays
<1>5. ASSUME NEW w \in Workers, Leave(w) \/ Destroyed(w)
      PROVE  ShownOf(u)'
  <2>1. /\ \E x \in {"destroying", "destroyed"} : stage' = [stage EXCEPT ![w] = x]
        /\ UNCHANGED <<AMPredictor, VOCPredictor, isLoaded, receiver, current, pbLoadModel, loaded>>
    BY Zenon, <1>5 DEF Leave, onDestroy, BeginRelease, Destroyed, queues, predictorVars
  <2>2. Same /\ Stays
    BY <1>t, <2>1 DEF Same, Stays
  <2> QED BY <1>f, <2>1, <2>2
<1>6. CASE ReleaseStep
  <2>1. ppc[UI] # "idle" /\ UNCHANGED <<receiver, stage, pbLoadModel>>
    <3>1. ppc[UI] # "idle"
      BY <1>6, ProcessMoves DEF ReleaseStep, TypeOK, Processes
    <3> QED BY Zenon, <1>6, <3>1 DEF ReleaseStep, uiVars, queues
  <2> QED BY <2>1, NothingShown DEF ShownOf, Processes
<1>7. ASSUME NEW w \in Workers, LoadStep(w)
      PROVE  ShownOf(u)'
  <2>1. ppc[w] # "idle" /\ AnswerLoad(w) /\ UNCHANGED <<stage, pbLoadModel, current, job>>
    <3>1. Release(w) \/ InitStep(w)
      BY Zenon, <1>7 DEF LoadStep
    <3>2. ppc[w] # "idle" /\ UNCHANGED job
      BY <3>1, ProcessMoves DEF TypeOK, Processes
    <3> QED BY Zenon, <1>7, <3>2 DEF LoadStep, uiVars
  <2>2. /\ ~Some(receiver, {Reply(u, "loaded")})
        /\ ~(stage[u] \in {"resumed", "paused"} /\ pbLoadModel[u] = "dismissed")
    BY <2>1, NothingShown DEF Processes
  <2>3. ASSUME Some(receiver', {Reply(u, "loaded")})
        PROVE  ppc'[w] = "idle" /\ ppc[w] = "setLoaded" /\ u = w
    <3>1. ppc'[w] = "idle"
      BY <2>1, <2>2, <2>3 DEF AnswerLoad
    <3>2. PICK what \in {"loaded", "loadFailed"} :
            /\ receiver' = Append(receiver, Reply(w, what))
            /\ what = "loaded" => ppc[w] = "setLoaded"
      BY Zenon, <2>1, <3>1 DEF AnswerLoad
    <3>3. Reply(w, what) \in Answers
      BY DEF Answers, Reply
    <3>4. Reply(w, what) \in {Reply(u, "loaded")}
      BY Zenon, <1>t, <2>2, <2>3, <3>2, <3>3, AppendToQueue
    <3> QED BY <3>1, <3>2, <3>4, ReplyDiffers
  <2>4. ASSUME ppc[w] = "setLoaded"
        PROVE  Has(current[w])'
    <3>1. isLoaded' = TRUE /\ UNCHANGED <<AMPredictor, VOCPredictor>>
      <4>1. CASE Release(w)
        BY <2>4, <4>1, Zenon DEF Release, ClearAM, ClearVOC, ClearFlag, ClearSpeaker, Go
      <4>2. CASE InitStep(w)
        BY <2>4, <4>2, Zenon DEF InitStep, SetSpeaker, SetLoaded, LoadAM, LoadVOC, Go
      <4> QED BY <1>7, <4>1, <4>2, Zenon DEF LoadStep
    <3>2. job[w].load # 0 /\ job[w].config = current[w]
      BY <2>1 DEF TypeOK, PredictorTypeOK, JobInv
    <3>3. AMPredictor = Own(w) /\ VOCPredictor = Own(w)
      BY <2>4 DEF Loading
    <3> QED BY SMTT(30), <2>1, <3>1, <3>2, <3>3 DEF Has, IsLoaded, Own, NoModel
  <2> QED BY SMTT(30), <2>1, <2>2, <2>3, <2>4 DEF ShownOf
<1>8. ASSUME NEW w \in Workers, HandleRun(w)
      PROVE  ShownOf(u)'
  <2>1. /\ receiver' = Append(receiver, Reply(w, "ran"))
        /\ UNCHANGED <<AMPredictor, VOCPredictor, isLoaded, stage, current, pbLoadModel, loaded>>
    BY Zenon, <1>8 DEF HandleRun, uiVars, predictorVars
  <2>2. Reply(w, "ran") \in Answers /\ Reply(w, "ran") \notin {Reply(u, "loaded")}
    BY DEF Answers, Reply
  <2>3. Some(receiver', {Reply(u, "loaded")}) => Some(receiver, {Reply(u, "loaded")})
    BY ZenonT(40), <1>t, <2>1, <2>2, AppendToQueue
  <2> QED BY <1>u, <2>1, <2>3 DEF ShownOf, Has, IsLoaded
<1>9. CASE HandleReply
  <2>1. PICK w \in Workers, what \in {"loaded", "loadFailed", "ran"} :
          /\ receiver # <<>> /\ Head(receiver) = Reply(w, what) /\ receiver' = Tail(receiver)
          /\ Throws(w, what) \/ Ran(w, what) \/ Loaded(w, what)
    BY <1>9, <1>t, ReplyOutcome
  <2>2. UNCHANGED <<AMPredictor, VOCPredictor, isLoaded, stage, current>>
    BY Zenon, <1>9 DEF HandleReply, predictorVars
  <2>3. Some(receiver', {Reply(u, "loaded")}) => Some(receiver, {Reply(u, "loaded")})
    BY <1>t, <2>1, TailOfQueue
  <2>4. w = u /\ what = "loaded" => Some(receiver, {Reply(u, "loaded")})
    BY <1>t, <2>1, TailOfQueue
  <2>5. \/ pbLoadModel'[u] = pbLoadModel[u] /\ loaded'[u] = loaded[u]
        \/ w = u /\ loaded'[u] = what
    BY <1>t, <2>1 DEF Throws, Ran, Loaded
  <2>6. Has(current[u])' <=> Has(current[u])
    BY <2>2, Zenon DEF Has, IsLoaded
  <2>7. CASE w = u /\ loaded'[u] = what
    BY <1>u, <2>3, <2>4, <2>6, <2>7, Zenon DEF ShownOf
  <2>8. CASE pbLoadModel'[u] = pbLoadModel[u] /\ loaded'[u] = loaded[u]
    BY <1>u, <2>2, <2>3, <2>6, <2>8, Zenon DEF ShownOf
  <2> QED BY <2>5, <2>7, <2>8, Zenon
<1>10. ASSUME NEW w \in Workers, NEW v \in Workers, Recreated(w, v)
       PROVE  ShownOf(u)'
  <2>1. /\ leaving.who = w /\ stage[v] = "new"
        /\ stage' = [stage EXCEPT ![w] = "destroyed", ![v] = "resumed"]
        /\ pbLoadModel' = [pbLoadModel EXCEPT ![w] = Leak(@), ![v] = "showing"]
        /\ current' = [current EXCEPT ![v] = DefaultConfig]
        /\ UNCHANGED <<AMPredictor, VOCPredictor, isLoaded, receiver, loaded>>
    BY ZenonT(30), <1>10 DEF Recreated, SetFields, predictorVars
  <2>2. CASE u = v
    <3>1. pbLoadModel[u] = "none" /\ pbLoadModel'[u] = "showing"
      <4>1. pbLoadModel[u] = "none"
        BY <2>1, <2>2, Zenon DEF LifeInv
      <4> QED BY <1>t, <2>1, <2>2, <4>1, Zenon
    <3>2. ~Some(receiver, {Reply(u, "loaded")})
      BY <3>1, Unanswered, Zenon
    <3>3. ~Some(receiver', {Reply(u, "loaded")})
      BY <2>1, <3>2, Zenon
    <3> QED BY <3>1, <3>3, Zenon DEF ShownOf
  <2>3. CASE u # v
    <3>1. current'[u] = current[u] /\ (u = w => stage'[u] = "destroyed")
          /\ (u # w => stage'[u] = stage[u] /\ pbLoadModel'[u] = pbLoadModel[u])
      BY <1>t, <2>1, <2>3
    <3> QED BY ZenonT(30), <1>u, <2>1, <3>1 DEF ShownOf, Has, IsLoaded
  <2> QED BY <2>2, <2>3
<1>11. CASE UNCHANGED vars
  BY Zenon, <1>11, <1>f DEF vars, uiVars, queues, predictorVars, Same, Stays
<1> QED
  BY Zenon, <1>1, <1>2, <1>3, <1>4, <1>5, <1>6, <1>7, <1>8, <1>9, <1>10, <1>11
  DEF Next, UserStep, LooperStep, WorkerStep

-----------------------------------------------------------------------------
(* The theorems. *)

ActivityInv ==
  TypeOK /\ DefaultsWithoutCustom /\ LifeInv /\ DialogInv /\ AwaitInv /\ JobInv

LEMMA ActivityInvInit == Init => ActivityInv
<1> SUFFICES ASSUME Init PROVE ActivityInv
  OBVIOUS
<1> USE PredictorAssumption, MainActivityAssumption
<1>1. PredictorTypeOK
  BY PredictorInitType DEF Init
<1>2. settingsOpen \in BOOLEAN /\ relaunch \in BOOLEAN /\ selected \in BOOLEAN /\ restore \in BOOLEAN
  BY Zenon DEF Init, SettingsInit
<1>3. prefs \in Prefs /\ DefaultsWithoutCustom
  BY SMTT(30), ClearedType DEF Init, SettingsInit, DefaultsWithoutCustom
<1>4. ActivityTypeOK
  BY <1>2, <1>3 DEF Init, ActivityTypeOK, Prefs, Dialogs, Nobody, Processes
<1>5. /\ stage = [w \in Workers |-> "new"] /\ leaving = Nobody
      /\ pbLoadModel = [w \in Workers |-> "none"] /\ pbRunModel = [w \in Workers |-> "none"]
      /\ sender = [w \in Workers |-> <<>>] /\ receiver = <<>>
      /\ loaded = [w \in Workers |-> "none"]
      /\ ppc = [p \in Processes |-> "idle"] /\ settingsOpen = FALSE
  BY Zenon DEF Init, PredictorInit, SettingsInit
<1>6. LifeInv
  BY <1>5 DEF LifeInv, Alive, Nobody, Processes
<1>7. DialogInv
  BY Zenon, <1>5 DEF DialogInv, DialogInvOf, Alive, Nobody
<1>8. AwaitInv
  <2> SUFFICES ASSUME NEW w \in Workers PROVE Awaits(w)
    BY Zenon DEF AwaitInv
  <2>1. sender[w] = <<>> /\ ppc[w] = "idle" /\ pbLoadModel[w] = "none" /\ pbRunModel[w] = "none"
    BY <1>5 DEF Processes
  <2> QED BY <1>5, <2>1, EmptyQueue DEF Awaits, LoadAwaited, LoadDue, RunAwaited, RunDue
<1>9. JobInv
  BY <1>5 DEF JobInv, Processes
<1> QED BY <1>1, <1>3, <1>4, <1>6, <1>7, <1>8, <1>9 DEF ActivityInv, TypeOK

LEMMA ActivityInvStep == ActivityInv /\ [Next]_vars => ActivityInv'
<1> SUFFICES ASSUME ActivityInv, [Next]_vars PROVE ActivityInv'
  OBVIOUS
<1>0. TypeOK /\ DefaultsWithoutCustom /\ LifeInv /\ DialogInv /\ AwaitInv /\ JobInv
  BY Zenon DEF ActivityInv
<1>1. TypeOK' /\ LifeInv' /\ DefaultsWithoutCustom'
  BY Zenon, <1>0, PredictorTypeInActivity, ActivityTypeStep, LifeStep, DefaultsStep DEF TypeOK
<1>2. DialogInv' /\ AwaitInv' /\ JobInv'
  BY Zenon, <1>0, <1>1, DialogStep, AwaitStep, JobStep
<1> QED BY Zenon, <1>1, <1>2 DEF ActivityInv

\* One instance alive, what each dialog covers, and the one answer each waits for:
\* the inductive invariant, in whatever order the user, the looper and the workers
\* of any number of activities take their steps.
THEOREM ActivityInvariant == Spec => []ActivityInv
  BY ActivityInvInit, ActivityInvStep, PTL DEF Spec

\* The fields, queues and dialogs of the activities stay in their ranges.
THEOREM ActivityTypeCorrect == Spec => []TypeOK
<1>1. ActivityInv => TypeOK
  BY Zenon DEF ActivityInv
<1> QED BY <1>1, ActivityInvariant, PTL

\* reloadPreferenceAndUpdateUI and the clearing in onCreate: without custom settings
\* the stored configuration is the pre-installed one.
THEOREM SettingsFallBack == Spec => []DefaultsWithoutCustom
<1>1. ActivityInv => DefaultsWithoutCustom
  BY Zenon DEF ActivityInv
<1> QED BY <1>1, ActivityInvariant, PTL

\* Opening the settings screen from the activity does not overwrite custom settings.
THEOREM SettingsKeepCustom == Spec => CustomSettingsKept
<1>1. ActivityInv /\ [Next]_vars =>
        [~settingsOpen /\ settingsOpen' /\ prefs.custom => prefs' = prefs]_settingsVars
  BY Zenon, CustomStep DEF ActivityInv
<1> QED BY <1>1, ActivityInvariant, PTL DEF Spec, CustomSettingsKept

\* loadModel, runModel and the two message handlers: a dialog is showing exactly while
\* its one answer is on the way.
THEOREM DialogsAreAwaited == Spec => []DialogIsAwaited
<1>1. ActivityInv => DialogIsAwaited
  BY Zenon, AwaitMeansAwaited DEF ActivityInv, TypeOK
<1> QED BY <1>1, ActivityInvariant, PTL

\* onResume: an activity in front has taken over the stored settings, up to case.
THEOREM ResumeReloads == Spec => []ReloadsUpToCase
<1>1. ActivityInv => ReloadsUpToCase
  BY Zenon DEF ActivityInv, DialogInv, DialogInvOf, SameSettings, ReloadsUpToCase
<1> QED BY <1>1, ActivityInvariant, PTL

-----------------------------------------------------------------------------
\* What the exclusion keeps true of the Predictor.
LoadInv == ~Cut => PairInv /\ Loading /\ Shown

\* The exclusion, as far as it goes.
Excluded == ~Cut => AtMostOne({p \in Processes : ppc[p] # "idle"}) /\ OneLoader

LEMMA LoadInvInit == Init => LoadInv
<1> SUFFICES ASSUME Init PROVE PairInv /\ Loading /\ Shown
  BY DEF LoadInv
<1>1. PairInv
  BY PairInit DEF Init
<1>2. Loading
  BY Zenon, PredictorAssumption DEF Init, PredictorInit, Loading, Processes
<1>3. Shown
  BY Zenon, EmptyQueue DEF Init, Shown, ShownOf
<1> QED BY <1>1, <1>2, <1>3

LEMMA LoadInvStep ==
  ActivityInv /\ Excluded /\ Excluded' /\ LoadInv /\ [Next]_vars => LoadInv'
<1> SUFFICES ASSUME ActivityInv, Excluded, Excluded', LoadInv, [Next]_vars, ~Cut'
             PROVE  PairInv' /\ Loading' /\ Shown'
  BY Zenon DEF LoadInv
<1>0. TypeOK /\ LifeInv /\ DialogInv /\ AwaitInv /\ JobInv /\ PredictorTypeOK
  BY Zenon DEF ActivityInv, TypeOK
<1>1. ~Cut
  BY Zenon, <1>0, CutStays
<1>2. /\ PairInv /\ Loading /\ Shown
      /\ AtMostOne({p \in Processes : ppc[p] # "idle"}) /\ OneLoader /\ OneLoader'
  BY Zenon, <1>1 DEF LoadInv, Excluded
<1>3. Shown'
  BY Zenon, <1>0, <1>1, <1>2, ShownStep
<1>4. CASE [PredictorNext]_predictorVars
  BY ZenonT(40), <1>0, <1>2, <1>3, <1>4, PairStep, LoadingStep
<1>5. CASE UNCHANGED <<AMPredictor, VOCPredictor, isLoaded, ppc, job, loads>>
  BY <1>2, <1>3, <1>5 DEF PairInv, NoMixedModels, Loading, Own
<1> QED BY Zenon, <1>0, <1>4, <1>5, PredictorPart

\* The loads of all instances, one after the other, and what they leave behind.
THEOREM LoadInvariant == Spec => [](Excluded /\ LoadInv)
<1>1. ActivityInv => Excluded
  BY Zenon, Exclusion DEF ActivityInv, Excluded
<1> QED BY <1>1, ActivityInvariant, LoadInvInit, LoadInvStep, PTL DEF Spec

\* The dialogs are a lock on the unlocked Predictor: until an activity is destroyed
\* under one, no two of init and releaseModel overlap, for any number of activities,
\* and the two models come from one load.
THEOREM DialogsGuard == Spec => []DialogGuardsPredictor
<1>1. Excluded /\ LoadInv => DialogGuardsPredictor
  BY Zenon DEF Excluded, LoadInv, PairInv, DialogGuardsPredictor
<1> QED BY <1>1, LoadInvariant, PTL

\* Until then, an activity in front whose load succeeded has the models of its own
\* settings loaded, whatever earlier instances loaded and released.
THEOREM ShowsWhatIsLoaded == Spec => []LoadedAsShown
<1>1. LoadInv => LoadedAsShown
  BY Zenon DEF LoadInv, Shown, ShownOf, Has, LoadedAsShown
<1> QED BY <1>1, LoadInvariant, PTL
=============================================================================
