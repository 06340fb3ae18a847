----------------------------- MODULE KioskProofs -----------------------------
(***************************************************************************)
(* Kiosk keeps its types and the script its wits, and the deadline of the  *)
(* prompt is never held against the player, for every number of mishaps    *)
(* and whatever the leaderboard shows. What it shows is right, for every   *)
(* number of players, all scores and every window of at least three rows.  *)
(***************************************************************************)
EXTENDS Kiosk, FiniteSetTheorems, SequenceTheorems, Recursion

-----------------------------------------------------------------------------
(* The inductive invariant *)

Scenes == {"ready", "level", "challenge", "prompt", "generating", "reveal", "result",
           "board", "abandoned"}

Pages == {"ready", "level", "challenge", "prompt", "waiting", "running", "failure", "rerunning",
          "stale", "stale failure", "reveal", "result", "board", "photo", "error"}

Questions == {"none", "start", "level", "challenge", "manual", "timeout", "complete", "run",
              "exit", "continue", "home", "view level", "view challenge", "view prompt",
              "view generating", "view result", "view board", "view photo"}

Reads == [scene : Scenes \cup {"none"}, failed : BOOLEAN]
Navs == [at : {"none", "sent", "running", "refused", "shown", "read"},
         ask : Questions, shown : Reads, read : Reads]
Answers == {"none", "generated", "conflict", "running", "failure", "waiting"}
Polls == [at : {"idle", "sent", "read", "answered"}, read : Reads, state : Answers]

Kinds ==
  /\ TypeOK
  /\ page \in Pages /\ nav \in Navs /\ late \in {"none", "exit", "run"}
  /\ polls \in [1..2 -> Polls]

\* The round is started only from where it is ready.
StartsReady == Asked("start") => scene = "ready"

\* Before the prompt is submitted no page of the Generating scene is there, none
\* of its requests, and no navigation to it.
Early ==
  scene \in {"ready", "level", "challenge", "prompt"} =>
    /\ page \in {"ready", "level", "challenge", "prompt", "error"}
    /\ \A i \in 1..2 : polls[i] = NoPoll
    /\ post = "none" /\ late = "none" /\ ~js.timer /\ ~js.fallback
    /\ nav = NoNav \/ nav \in {Ask(what) : what \in {"start", "level", "challenge", "manual", "timeout",
                                 "view level", "view challenge", "view prompt"}}

\* While the page of the prompt is there, its form is at most submitted and
\* answered, and nothing else is under way.
Prompting ==
  page = "prompt" =>
    /\ \A i \in 1..2 : polls[i] = NoPoll
    /\ post = "none" /\ late = "none" /\ ~attempt /\ ~js.timer /\ ~js.fallback
    /\ \/ scene = "prompt" /\ nav = NoNav
       \/ scene = "prompt" /\ js.sent /\ nav \in {Ask("manual"), Ask("timeout")}
       \/ scene = "abandoned" /\ js.sent /\ nav = Ask("home")
       \/ /\ scene = "generating" /\ js.sent /\ nav.ask = "view generating"
          /\ \/ nav.at = "sent"
             \/ nav.at = "shown" /\ nav.shown.scene = "generating"
             \/ nav.at = "read" /\ nav.shown.scene = "generating" /\ nav.read.scene = "generating"

\* A script that holds the button polls, unless its page is about to go.
Polling == js.held => js.polling \/ nav # NoNav

KioskInv == Kinds /\ StartsReady /\ Early /\ Prompting /\ Polling /\ Awake


-----------------------------------------------------------------------------
(* Types *)

\* A question that was asked is told from none and from any other.
LEMMA Asking ==
  /\ \A what : /\ Ask(what).at = "sent" /\ Ask(what).ask = what /\ Ask(what) # NoNav
               /\ what \in Questions => Ask(what) \in Navs
  /\ NoNav \in Navs /\ NoNav.at = "none" /\ NoNav.ask = "none"
BY DEF Ask, NoNav, Navs, Questions, Reads, Unread, Scenes

\* The states a status request starts from.
LEMMA Polled ==
  /\ NoPoll \in Polls /\ NoPoll.at = "idle" /\ NoPoll.state = "none"
  /\ [NoPoll EXCEPT !.at = "sent"] \in Polls /\ [NoPoll EXCEPT !.at = "sent"] # NoPoll
BY DEF NoPoll, Polls, Reads, Unread, Scenes, Answers

\* A script that has just been loaded.
LEMMA Scripted ==
  /\ Quiet \in Scripts
  /\ ~Quiet.held /\ ~Quiet.timer /\ ~Quiet.fallback /\ ~Quiet.sent
BY DEF Scripts, Quiet

\* The pages the script of the Generating scene makes of what it was given.
LEMMA Loads ==
  ASSUME NEW record, NEW status, LoadGenerating(record, status)
  PROVE  \/ \E which \in Pages \ {"ready", "level", "challenge", "prompt"} :
              /\ NewPage(which, Quiet)
              /\ record.scene = "generating" => which # "error"
         \/ \E which \in {"waiting", "running", "rerunning"}, request \in {"none", "sent"} :
              NewBusyPage(which, request)
<1> DEFINE same(which) ==
             /\ NewPage(which, Quiet) /\ which \in Pages \ {"ready", "level", "challenge", "prompt"}
             /\ record.scene = "generating" => which # "error"
           busy(which, request) ==
             /\ which \in {"waiting", "running", "rerunning"} /\ request \in {"none", "sent"}
             /\ NewBusyPage(which, request)
           goal == (\E which : same(which)) \/ (\E which, request : busy(which, request))
<1> USE DEF Pages
<1> SUFFICES goal
  OBVIOUS
<1>1. CASE record.scene = "generating" /\ status = "running"
  <2>1. busy(IF record.failed THEN "rerunning" ELSE "running", "none")
    BY <1>1 DEF LoadGenerating
  <2> QED
    BY <2>1
<1>2. CASE record.scene = "generating" /\ status = "waiting" /\ ~record.failed
  <2>1. busy("waiting", "sent")
    BY <1>2 DEF LoadGenerating
  <2> QED
    BY <2>1
<1>3. CASE record.scene = "reveal" /\ status = "generated"
  <2>1. same("reveal")
    BY <1>3 DEF LoadGenerating
  <2> QED
    BY <2>1
<1>4. CASE record.scene = "generating" /\ status = "failure" /\ record.failed
  <2>1. same("failure")
    BY <1>4 DEF LoadGenerating
  <2> QED
    BY <2>1
<1>5. CASE record.scene \notin {"generating", "reveal"}
  <2>1. same("error")
    BY <1>5 DEF LoadGenerating
  <2> QED
    BY <2>1
<1>6. CASE /\ ~(record.scene = "generating" /\ status = "running")
           /\ ~(record.scene = "generating" /\ status = "waiting" /\ ~record.failed)
           /\ ~(record.scene = "reveal" /\ status = "generated")
           /\ ~(record.scene = "generating" /\ status = "failure" /\ record.failed)
           /\ record.scene \in {"generating", "reveal"}
  <2>1. same(IF record.failed THEN "stale failure" ELSE "stale")
    BY <1>6 DEF LoadGenerating
  <2> QED
    BY <2>1
<1> HIDE DEF goal
<1> QED
  BY <1>1, <1>2, <1>3, <1>4, <1>5, <1>6

\* What a page that replaces another is made of.
LEMMA Replaces ==
  /\ \A which \in Pages : NewPage(which, Quiet) =>
       /\ page' = which /\ js' = Quiet /\ nav' = NoNav /\ post' = "none" /\ text' = text
       /\ polls' \in [1..2 -> Polls] /\ \A i \in 1..2 : polls'[i] = NoPoll
  /\ \A which, request : NewBusyPage(which, request) =>
       /\ page' = which /\ js' \in Scripts /\ js'.polling /\ js'.held /\ nav' = NoNav /\ text' = text
       /\ post' = request /\ polls' \in [1..2 -> Polls] /\ polls'[1] # NoPoll
<1>1. NoPoll \in Polls /\ [NoPoll EXCEPT !.at = "sent"] \in Polls /\ [NoPoll EXCEPT !.at = "sent"] # NoPoll
  BY Polled
<1>2. [Quiet EXCEPT !.held = TRUE, !.polling = TRUE] \in Scripts
  BY DEF Quiet, Scripts
<1>3. [Quiet EXCEPT !.held = TRUE, !.polling = TRUE].polling /\ [Quiet EXCEPT !.held = TRUE, !.polling = TRUE].held
  BY DEF Quiet
<1>4. ASSUME NEW which, NewPage(which, Quiet)
      PROVE  /\ page' = which /\ js' = Quiet /\ nav' = NoNav /\ post' = "none" /\ text' = text
             /\ polls' \in [1..2 -> Polls] /\ \A i \in 1..2 : polls'[i] = NoPoll
  BY <1>1, <1>4 DEF NewPage
<1>5. ASSUME NEW which, NEW request, NewBusyPage(which, request)
      PROVE  /\ page' = which /\ js' \in Scripts /\ js'.polling /\ js'.held /\ nav' = NoNav
             /\ text' = text /\ post' = request
             /\ polls' \in [1..2 -> Polls] /\ polls'[1] # NoPoll
  <2>1. polls' = [i \in 1..2 |-> IF i = 1 THEN [NoPoll EXCEPT !.at = "sent"] ELSE NoPoll]
    BY <1>5 DEF NewBusyPage
  <2>2. polls' \in [1..2 -> Polls] /\ polls'[1] # NoPoll
    BY <1>1, <2>1
  <2> QED
    BY <1>2, <1>3, <1>5, <2>2 DEF NewBusyPage
<1> QED
  BY <1>4, <1>5


\* The steps of a script, on its state.
LEMMA ScriptSteps ==
  ASSUME NEW s \in Scripts
  PROVE  /\ \A state : AskAgain(s, state) \in Scripts
         /\ Stopped(s) \in Scripts /\ Fallback(s) \in Scripts
         /\ [s EXCEPT !.sent = TRUE] \in Scripts /\ [s EXCEPT !.timer = FALSE] \in Scripts
         /\ [s EXCEPT !.held = TRUE, !.polling = TRUE] \in Scripts
BY DEF Scripts, AskAgain, Stopped, Fallback

\* A status request is in flight after it was asked for, if the page polls.
LEMMA StatusAsked ==
  ASSUME NEW s \in Scripts, NEW q \in [1..2 -> Polls]
  PROVE  /\ AskStatus(s, q).script = [s EXCEPT !.timer = FALSE]
         /\ AskStatus(s, q).polls \in [1..2 -> Polls]
         /\ ~s.polling => AskStatus(s, q).polls = q
         /\ s.polling => \E i \in 1..2 : AskStatus(s, q).polls[i] # NoPoll
<1> DEFINE i == IF q[1].at = "idle" THEN 1 ELSE 2
           asked == [NoPoll EXCEPT !.at = "sent"]
<1>1. AskStatus(s, q) = [script |-> [s EXCEPT !.timer = FALSE],
                         polls |-> IF s.polling THEN [q EXCEPT ![i] = asked] ELSE q]
  BY DEF AskStatus
<1>2. i \in 1..2 /\ asked \in Polls /\ asked # NoPoll
  BY Polled
<1> HIDE DEF i, asked
<1>3. [q EXCEPT ![i] = asked] \in [1..2 -> Polls] /\ [q EXCEPT ![i] = asked][i] # NoPoll
  BY <1>2
<1> QED
  BY <1>1, <1>2, <1>3

\* A reload asks for a page, and so leaves the tab navigating.
LEMMA ReloadTyped ==
  ASSUME nav \in Navs, late \in {"none", "exit", "run"}, ReloadScene
  PROVE  nav' \in Navs /\ late' \in {"none", "exit", "run"} /\ nav' # NoNav
BY Asking DEF ReloadScene, Questions

\* What a handler reads of the record.
LEMMA RecordTyped == TypeOK => Record \in Reads
BY DEF TypeOK, Record, Reads, Scenes

\* What the status route answers.
LEMMA StatusTyped == \A record : Status(record) \in Answers \ {"none"}
BY DEF Status, Answers

\* What the settled attempt does to the requests.
LEMMA SettleTyped ==
  ASSUME nav \in Navs, NEW answer \in {"ok", "conflict"}, Settle(answer),
         post \in {"none", "sent", "running", "ok", "conflict"}
  PROVE  /\ post' \in {"none", "sent", "running", "ok", "conflict"} /\ nav' \in Navs
         /\ (post' = "none" <=> post = "none") /\ (nav' = NoNav <=> nav = NoNav)
         /\ nav' = nav \/ nav' = Ask("view generating") \/ nav'.at = "refused"
         /\ nav.at # "running" => nav' = nav
<1>1. CASE nav.at # "running"
  BY <1>1 DEF Settle
<1>2. CASE nav.at = "running"
  <2>1. nav' = Ask("view generating") \/ nav' = [nav EXCEPT !.at = "refused"]
    BY <1>2 DEF Settle
  <2>2. [nav EXCEPT !.at = "refused"] \in Navs /\ [nav EXCEPT !.at = "refused"].at = "refused"
    BY DEF Navs
  <2> QED
    BY <1>2, <2>1, <2>2, Asking DEF Settle, Questions
<1> QED
  BY <1>1, <1>2

\* One more mishap is still within the bound.
LEMMA MishapsBounded ==
  ASSUME mishaps \in 0..MaxMishaps, mishaps < MaxMishaps
  PROVE  mishaps + 1 \in 0..MaxMishaps
BY BoundsAssumption

\* Types through the two reads of a status request and its answer.
LEMMA PollKinds ==
  ASSUME Kinds, NEW i \in 1..2, PollRead(i) \/ PollAnswered(i)
  PROVE  Kinds'
<1>0. js \in Scripts /\ mishaps \in 0..MaxMishaps
  BY DEF TypeOK, Kinds
<1> USE DEF Kinds, server
<1>1. CASE PollRead(i)
  <2>1. [polls[i] EXCEPT !.at = "read", !.read = Record] \in Polls
    BY RecordTyped DEF Polls
  <2>2. [NoPoll EXCEPT !.at = "answered", !.state = Status(polls[i].read)] \in Polls
    BY StatusTyped, Polled DEF Polls
  <2>3. polls' = [polls EXCEPT ![i] = [polls[i] EXCEPT !.at = "read", !.read = Record]]
        \/ polls' = [polls EXCEPT ![i] = [NoPoll EXCEPT !.at = "answered", !.state = Status(polls[i].read)]]
    BY <1>1 DEF PollRead
  <2>4. polls' \in [1..2 -> Polls]
    BY <2>1, <2>2, <2>3
  <2> QED
    BY <1>1, <2>4 DEF PollRead, TypeOK
<1>2. CASE PollAnswered(i)
  <2>1. polls' \in [1..2 -> Polls]
    BY <1>2, Polled DEF PollAnswered
  <2>2. nav' \in Navs /\ late' \in {"none", "exit", "run"}
    BY <1>2, ReloadTyped DEF PollAnswered
  <2>5. js' = AskAgain(js, polls[i].state) \/ js' = Stopped(js) \/ js' = Fallback(js)
    BY <1>2 DEF PollAnswered
  <2>4. js' \in Scripts
    BY ONLY <1>0, <2>5, ScriptSteps
  <2>3. js' \in Scripts /\ mishaps' \in 0..MaxMishaps
    BY <1>2, <1>0, <2>4, MishapsBounded DEF PollAnswered
  <2> QED
    BY <1>2, <2>1, <2>2, <2>3 DEF PollAnswered, TypeOK
<1> QED
  BY <1>1, <1>2

\* Types through a timer of the poller, its post, the attempt and the deadline.
LEMMA AttemptKinds ==
  ASSUME Kinds, TimerFires \/ PostServed \/ PostAnswered \/ AttemptEnds \/ DeadlinePasses
  PROVE  Kinds'
<1>0. js \in Scripts /\ polls \in [1..2 -> Polls] /\ mishaps \in 0..MaxMishaps
  BY DEF TypeOK, Kinds
<1> USE DEF Kinds, server, tab
<1>1. CASE TimerFires
  BY <1>1, ScriptSteps, StatusAsked DEF TimerFires, TypeOK
<1>2. CASE PostServed
  BY <1>2 DEF PostServed, TypeOK
<1>3. CASE PostAnswered
  <2>1. polls' \in [1..2 -> Polls]
    <3>1. AskStatus(js, polls).polls \in [1..2 -> Polls]
      BY <1>0, StatusAsked
    <3> QED
      BY <1>0, <1>3, <3>1 DEF PostAnswered
  <2>2. nav' \in Navs /\ late' \in {"none", "exit", "run"}
    BY <1>3, ReloadTyped DEF PostAnswered
  <2>4. js' \in Scripts
    BY <1>3, <1>0, ScriptSteps DEF PostAnswered
  <2>3. js' \in Scripts /\ mishaps' \in 0..MaxMishaps
    BY <1>3, <1>0, <2>4, MishapsBounded DEF PostAnswered
  <2> QED
    BY <1>3, <2>1, <2>2, <2>3 DEF PostAnswered, TypeOK
<1>4. CASE AttemptEnds
  <2>1. Settle("ok") \/ Settle("conflict")
    BY <1>4 DEF AttemptEnds
  <2>2. nav' \in Navs /\ post' \in {"none", "sent", "running", "ok", "conflict"}
    BY <2>1, SettleTyped DEF TypeOK
  <2>3. mishaps' \in 0..MaxMishaps
    BY <1>4, BoundsAssumption DEF AttemptEnds, TypeOK
  <2> QED
    BY <1>4, <2>2, <2>3 DEF AttemptEnds, TypeOK
<1>5. CASE DeadlinePasses
  BY <1>5 DEF DeadlinePasses, TypeOK
<1> QED
  BY <1>1, <1>2, <1>3, <1>4, <1>5

\* The answers to a navigation keep the types.
LEMMA AnswerKinds ==
  ASSUME Kinds
  PROVE  /\ \A scene1 \in Scenes, what \in Questions : Redirect(scene1, what) /\ ~attempt => Kinds'
         /\ \A what \in Questions : Bounce(what) => Kinds'
         /\ Refuse => Kinds'
<1> USE DEF Kinds, server, tab
<1>1. ASSUME NEW scene1 \in Scenes, NEW what \in Questions, Redirect(scene1, what), ~attempt
      PROVE  Kinds'
  BY <1>1, Asking DEF Redirect, TypeOK, Scenes
<1>2. ASSUME NEW what \in Questions, Bounce(what) PROVE Kinds'
  BY <1>2, Asking DEF Bounce, TypeOK
<1>3. ASSUME Refuse PROVE Kinds'
  <2>1. page' = "error" /\ js' \in Scripts /\ nav' = NoNav /\ post' = "none" /\ text' = text
        /\ polls' \in [1..2 -> Polls]
    BY <1>3, Replaces, Scripted DEF Refuse, Pages
  <2>2. UNCHANGED <<scene, attempt, failed, due, late, mishaps>>
    BY <1>3 DEF Refuse
  <2> QED
    BY <2>1, <2>2, Asking DEF TypeOK, Pages
<1> HIDE DEF Kinds, server, tab
<1>4. \A scene1 \in Scenes, what \in Questions : Redirect(scene1, what) /\ ~attempt => Kinds'
  BY <1>1
<1>5. \A what \in Questions : Bounce(what) => Kinds'
  BY <1>2
<1> QED
  BY <1>3, <1>4, <1>5

\* Types through the forms that change the round.
LEMMA FormKinds ==
  ASSUME Kinds, StartsReady, ServeForm
  PROVE  Kinds'
<1> USE DEF Kinds, server, tab
<1>0. scene # "generating" => ~attempt
  BY DEF TypeOK
<1>1. CASE ServeStart
  <2>1. Redirect("level", "view level") /\ ~attempt
    BY <1>0, <1>1 DEF ServeStart, StartsReady
  <2> QED
    BY <2>1, AnswerKinds DEF Scenes, Questions
<1>2. CASE ServeLevel
  BY <1>0, <1>2, AnswerKinds DEF ServeLevel, From, Scenes, Questions
<1>3. CASE ServeChallenge
  BY <1>0, <1>3, AnswerKinds DEF ServeChallenge, From, Scenes, Questions
<1>4. CASE ServeComplete
  BY <1>0, <1>4, AnswerKinds DEF ServeComplete, From, Scenes, Questions
<1>5. CASE ServeRun
  <2>1. CASE scene = "generating" /\ ~attempt
    <3>1. nav' \in Navs
      BY <1>5, <2>1 DEF ServeRun, Navs
    <3> QED
      BY <1>5, <2>1, <3>1 DEF ServeRun, TypeOK
  <2>2. CASE ~(scene = "generating" /\ ~attempt)
    BY <1>5, <2>2, AnswerKinds DEF ServeRun
  <2> QED
    BY <2>1, <2>2
<1>6. ASSUME NEW reason, ServePrompt(reason) PROVE Kinds'
  BY <1>0, <1>6, AnswerKinds DEF ServePrompt, Scenes, Questions
<1>7. CASE ServeExit
  <2>1. CASE scene # "generating"
    BY <1>7, <2>1, AnswerKinds DEF ServeExit
  <2>2. CASE scene = "generating"
    BY <1>7, <2>2, Asking DEF ServeExit, Abandon, TypeOK, Questions
  <2> QED
    BY <2>1, <2>2
<1>8. CASE ServeContinue
  BY <1>0, <1>8, AnswerKinds DEF ServeContinue, Scenes, Questions
<1> QED
  BY <1>1, <1>2, <1>3, <1>4, <1>5, <1>6, <1>7, <1>8 DEF ServeForm

\* Types through a form the tab no longer waits for.
LEMMA LateKinds ==
  ASSUME Kinds, ServeLate
  PROVE  Kinds'
<1> USE DEF Kinds, tab
<1>1. CASE late = "exit" /\ scene = "generating"
  <2>1. Abandon /\ Settle("conflict") /\ late' = "none"
    BY <1>1 DEF ServeLate
  <2> QED
    BY <2>1, SettleTyped DEF Abandon, TypeOK
<1>2. CASE ~(late = "exit" /\ scene = "generating")
  BY <1>2 DEF ServeLate, TypeOK
<1> QED
  BY <1>1, <1>2

\* Types through the arrival of a page.
LEMMA PageKinds ==
  ASSUME Kinds, UNCHANGED <<server, late, mishaps>>,
         \/ \E which \in Pages : NewPage(which, Quiet)
         \/ \E which \in Pages, request \in {"none", "sent"} : NewBusyPage(which, request)
  PROVE  Kinds'
<1>1. /\ page' \in Pages /\ js' \in Scripts /\ nav' \in Navs /\ post' \in {"none", "sent"}
      /\ polls' \in [1..2 -> Polls] /\ text' = text
  BY Replaces, Scripted, Asking
<1> QED
  BY <1>1 DEF Kinds, TypeOK, server

\* Types through the routes that only show.
LEMMA ViewKinds ==
  ASSUME Kinds, ServeView
  PROVE  Kinds'
<1> USE DEF Pages
<1>1. CASE ShowLevel \/ ShowChallenge \/ ShowPrompt \/ ShowResult \/ ShowPhoto
  BY <1>1, PageKinds DEF ShowLevel, ShowChallenge, ShowPrompt, ShowResult, ShowPhoto, Show
<1>2. CASE ShowReady
  BY <1>2, PageKinds DEF ShowReady
<1>3. CASE ShowGenerating
  <2>1. CASE nav' = [nav EXCEPT !.at = "shown", !.shown = Record] /\ UNCHANGED <<server, tab, late, mishaps>>
    <3>1. nav' \in Navs
      BY <2>1, RecordTyped DEF Navs, Kinds
    <3>2. UNCHANGED <<scene, attempt, failed, due, page, text, js, polls, post, late, mishaps>>
      BY <2>1 DEF server, tab
    <3> HIDE DEF Pages
    <3> QED
      BY <3>1, <3>2 DEF Kinds, TypeOK
  <2>2. CASE nav' = [nav EXCEPT !.at = "read", !.read = Record] /\ UNCHANGED <<server, tab, late, mishaps>>
    <3>1. nav' \in Navs
      BY <2>2, RecordTyped DEF Navs, Kinds
    <3>2. UNCHANGED <<scene, attempt, failed, due, page, text, js, polls, post, late, mishaps>>
      BY <2>2 DEF server, tab
    <3> HIDE DEF Pages
    <3> QED
      BY <3>1, <3>2 DEF Kinds, TypeOK
  <2>3. CASE LoadGenerating(nav.shown, Status(nav.read)) /\ UNCHANGED <<server, late, mishaps>>
    BY <2>3, Loads, PageKinds
  <2> QED
    BY <1>3, <2>1, <2>2, <2>3 DEF ShowGenerating
<1>4. CASE ShowBoard
  <2>1. CASE Refuse
    BY <2>1, AnswerKinds
  <2>2. CASE Bounce("view photo")
    BY <2>2, AnswerKinds DEF Questions
  <2>3. CASE NewPage("board", Quiet) /\ UNCHANGED <<server, late, mishaps>>
    BY <2>3, PageKinds
  <2> QED
    BY <1>4, <2>1, <2>2, <2>3 DEF ShowBoard
<1>5. CASE nav.at = "refused" /\ Refuse
  BY <1>5, AnswerKinds
<1> QED
  BY <1>1, <1>2, <1>3, <1>4, <1>5 DEF ServeView

\* Types through what the player does and the countdowns of the pages.
LEMMA PlayerKinds ==
  ASSUME Kinds, Player \/ PromptTimer \/ RevealTimer \/ BoardTimer
  PROVE  Kinds'
<1> USE DEF Kinds, server, tab
<1>1. CASE Type
  BY <1>1, Asking DEF Type, TypeOK
<1>2. CASE Press
  <2>1. js' \in Scripts
    BY <1>2, ScriptSteps DEF Press, TypeOK
  <2>2. nav' \in Navs
    BY <1>2, Asking DEF Press, Questions
  <2> QED
    BY <1>2, <2>1, <2>2 DEF Press, TypeOK
<1>3. CASE PressRetry
  <2> DEFINE s == [js EXCEPT !.held = TRUE, !.polling = TRUE]
  <2>1. s \in Scripts
    BY ScriptSteps DEF TypeOK
  <2>2. js' = AskStatus(s, polls).script /\ polls' = AskStatus(s, polls).polls
    BY <1>3 DEF PressRetry
  <2> HIDE DEF s
  <2>3. js' \in Scripts /\ polls' \in [1..2 -> Polls]
    BY <2>1, <2>2, StatusAsked, ScriptSteps
  <2> QED
    BY <1>3, <2>3 DEF PressRetry, TypeOK
<1>4. CASE Reload
  <2>1. nav' \in Navs /\ mishaps' \in 0..MaxMishaps
    BY <1>4, Asking, MishapsBounded DEF Reload, TypeOK, Questions
  <2>2. UNCHANGED <<scene, attempt, failed, due, page, text, js, polls, post, late>>
    BY <1>4 DEF Reload
  <2> QED
    BY <2>1, <2>2 DEF TypeOK
<1>5. CASE PromptTimer \/ RevealTimer
  <2>1. nav' \in Navs
    BY <1>5, Asking DEF PromptTimer, RevealTimer, Questions
  <2>2. js' \in Scripts
    BY <1>5, ScriptSteps DEF PromptTimer, RevealTimer, TypeOK
  <2>3. UNCHANGED <<scene, attempt, failed, due, page, text, polls, post, late, mishaps>>
    BY <1>5 DEF PromptTimer, RevealTimer
  <2> QED
    BY <2>1, <2>2, <2>3 DEF TypeOK
<1>6. CASE BoardTimer
  BY <1>6, Asking DEF BoardTimer, TypeOK, Questions
<1> QED
  BY <1>1, <1>2, <1>3, <1>4, <1>5, <1>6 DEF Player

\* Types through every step.
LEMMA KindsStep ==
  ASSUME Kinds, StartsReady, [Next]_vars
  PROVE  Kinds'
<1>1. CASE UNCHANGED vars
  BY <1>1 DEF vars, Kinds, TypeOK
<1> QED
  BY <1>1, PollKinds, AttemptKinds, FormKinds, LateKinds, ViewKinds, PlayerKinds DEF Next, Work

-----------------------------------------------------------------------------
(* What the server answers *)

Views == {"home", "view level", "view challenge", "view prompt", "view generating",
          "view result", "view board", "view photo"}

\* A form or a link leads to another page, whose script is quiet or polls, to a
\* view, or is still being handled.
LEMMA Answered ==
  ASSUME Kinds, ServeForm \/ ServeView
  PROVE  \/ nav' = NoNav /\ (js' = Quiet \/ (js'.polling /\ polls'[1] # NoPoll))
         \/ nav'.ask = nav.ask /\ nav'.at \in {"running", "shown", "read"} /\ page' = page
         \/ /\ \E what \in Views : nav' = Ask(what)
            /\ page' = page
<1> DEFINE goal == \/ nav' = NoNav /\ (js' = Quiet \/ (js'.polling /\ polls'[1] # NoPoll))
                   \/ nav'.ask = nav.ask /\ nav'.at \in {"running", "shown", "read"} /\ page' = page
                   \/ (\E what \in Views : nav' = Ask(what)) /\ page' = page
<1> SUFFICES goal
  OBVIOUS
<1>0. nav \in Navs
  BY DEF Kinds
<1>1. ASSUME NEW which, NewPage(which, Quiet) PROVE goal
  BY <1>1 DEF NewPage
<1>2. ASSUME NEW what \in Views, nav' = Ask(what), UNCHANGED tab PROVE goal
  BY <1>2 DEF tab
<1>3. ASSUME nav' = [nav EXCEPT !.at = "running"] \/ nav' = [nav EXCEPT !.at = "shown", !.shown = Record]
               \/ nav' = [nav EXCEPT !.at = "read", !.read = Record],
             UNCHANGED tab
      PROVE  goal
  BY <1>0, <1>3 DEF Navs, tab
<1>4. ASSUME NEW scene1, NEW what \in Views, Redirect(scene1, what) PROVE goal
  BY <1>2, <1>4 DEF Redirect, tab
<1>5. ASSUME NEW what \in Views, Bounce(what) PROVE goal
  BY <1>2, <1>5 DEF Bounce
<1>6. CASE Refuse
  BY <1>1, <1>6 DEF Refuse
<1>7. ASSUME NEW record, NEW status, LoadGenerating(record, status) PROVE goal
  BY <1>1, <1>7, Loads, Replaces
<1> HIDE DEF goal
<1>8. CASE ServeForm
  <2>1. CASE ServeStart
    BY <2>1, <1>4 DEF ServeStart, Views
  <2>2. CASE ServeLevel \/ ServeChallenge \/ ServeComplete
    BY <2>2, <1>4, <1>6 DEF ServeLevel, ServeChallenge, ServeComplete, From, Views
  <2>3. CASE ServeRun
    BY <2>3, <1>3, <1>6 DEF ServeRun
  <2>4. ASSUME NEW reason, ServePrompt(reason) PROVE goal
    BY <2>4, <1>4, <1>6 DEF ServePrompt, Views
  <2>5. CASE ServeExit
    <3>1. CASE scene # "generating"
      BY <2>5, <3>1, <1>6 DEF ServeExit
    <3>2. CASE scene = "generating"
      BY <2>5, <3>2 DEF ServeExit, Abandon, Views, goal
    <3> QED
      BY <3>1, <3>2
  <2>6. CASE ServeContinue
    BY <2>6, <1>4, <1>5, <1>6 DEF ServeContinue, Views
  <2> QED
    BY <1>8, <2>1, <2>2, <2>3, <2>4, <2>5, <2>6 DEF ServeForm
<1>9. CASE ServeView
  <2>1. CASE ShowLevel \/ ShowChallenge \/ ShowPrompt \/ ShowResult \/ ShowPhoto \/ ShowReady
    BY <2>1, <1>1 DEF ShowLevel, ShowChallenge, ShowPrompt, ShowResult, ShowPhoto, ShowReady, Show
  <2>2. CASE ShowGenerating
    BY <2>2, <1>3, <1>7 DEF ShowGenerating
  <2>3. CASE ShowBoard
    BY <2>3, <1>1, <1>5, <1>6 DEF ShowBoard, Views
  <2>4. CASE Refuse
    BY <2>4, <1>6
  <2> QED
    BY <1>9, <2>1, <2>2, <2>3, <2>4 DEF ServeView
<1> QED
  BY <1>8, <1>9

\* The round is started only once, as no page but the ready one asks for it and
\* no scene leads back.
LEMMA StartsReadyStep ==
  ASSUME Kinds, StartsReady, [Next]_vars
  PROVE  StartsReady'
<1>0. nav \in Navs /\ (attempt => scene = "generating")
  BY DEF Kinds, TypeOK
<1>1. CASE UNCHANGED vars
  BY <1>1 DEF vars, StartsReady, Asked
<1>2. ASSUME nav' = nav, scene = "ready" => scene' = "ready" PROVE StartsReady'
  BY <1>2 DEF StartsReady, Asked
<1>3. ASSUME NEW what, nav' = Ask(what), what # "start" PROVE StartsReady'
  BY <1>3, Asking DEF StartsReady, Asked
<1>4. CASE nav' = NoNav \/ nav'.at # "sent"
  BY <1>4, Asking DEF StartsReady, Asked
<1>5. CASE ServeForm \/ ServeView
  BY <1>3, <1>4, <1>5, Answered DEF Views
<1>6. CASE \E i \in 1..2 : PollRead(i) \/ PollAnswered(i)
  BY <1>2, <1>3, <1>6 DEF PollRead, PollAnswered, ReloadScene, server
<1>7. CASE TimerFires \/ PostServed \/ PostAnswered \/ DeadlinePasses
  BY <1>2, <1>3, <1>7 DEF TimerFires, PostServed, PostAnswered, DeadlinePasses, ReloadScene, server
<1>8. ASSUME NEW answer, Settle(answer), scene = "generating" PROVE StartsReady'
  <2>1. nav' = nav \/ nav' = Ask("view generating") \/ nav'.at # "sent"
    BY <1>0, <1>8 DEF Settle, Navs
  <2> QED
    BY <1>2, <1>3, <1>4, <1>8, <2>1
<1>9. CASE AttemptEnds
  BY <1>0, <1>8, <1>9 DEF AttemptEnds
<1>10. CASE ServeLate
  BY <1>2, <1>8, <1>10 DEF ServeLate
<1>11. CASE Player \/ PromptTimer \/ RevealTimer \/ BoardTimer
  <2>1. CASE Press
    <3>1. \/ nav' = Ask("start") /\ scene = "ready" /\ scene' = scene
          \/ nav' = Ask(page) /\ page \in {"level", "challenge"}
          \/ \E what \in {"manual", "complete", "view photo", "home", "run", "exit"} : nav' = Ask(what)
      BY <2>1 DEF Press, server
    <3>2. CASE nav' = Ask("start") /\ scene = "ready" /\ scene' = scene
      BY <3>2 DEF StartsReady
    <3> QED
      BY <3>1, <3>2, <1>3
  <2>2. CASE Type \/ PressRetry
    BY <2>2, <1>2 DEF Type, PressRetry, server
  <2>3. CASE Reload \/ PromptTimer \/ RevealTimer \/ BoardTimer
    BY <2>3, <1>3 DEF Reload, PromptTimer, RevealTimer, BoardTimer
  <2> QED
    BY <1>11, <2>1, <2>2, <2>3 DEF Player
<1> QED
  BY <1>1, <1>5, <1>6, <1>7, <1>9, <1>10, <1>11 DEF Next, Work

-----------------------------------------------------------------------------
(* Before the generation *)

First == {"ready", "level", "challenge", "prompt"}
EarlyAsks == {"start", "level", "challenge", "manual", "timeout", "view level", "view challenge", "view prompt"}

\* Nothing that belongs to the Generating scene is there.
Calm ==
  /\ page \in First \cup {"error"}
  /\ \A i \in 1..2 : polls[i] = NoPoll
  /\ post = "none" /\ late = "none" /\ ~js.timer /\ ~js.fallback

\* Early in other words: until the prompt is submitted the tab is calm.
LEMMA EarlyIs ==
  Early <=> (scene \in First => Calm /\ (nav = NoNav \/ \E what \in EarlyAsks : nav = Ask(what)))
BY DEF Early, Calm, First, EarlyAsks

\* What a calm tab cannot do.
LEMMA CalmOnly ==
  ASSUME Kinds, Calm, ~attempt, Next,
         nav = NoNav \/ \E what \in EarlyAsks \cup {"home"} : nav = Ask(what)
  PROVE  \/ DeadlinePasses \/ ServeStart \/ ServeLevel \/ ServeChallenge
         \/ \E reason \in {"manual", "timeout"} : Asked(reason) /\ ServePrompt(reason)
         \/ ShowLevel \/ ShowChallenge \/ ShowPrompt \/ ShowReady
         \/ Type \/ Press \/ PromptTimer
<1>1. nav.ask \in EarlyAsks \cup {"home", "none"} /\ nav.at \in {"none", "sent"}
  BY Asking
<1>2. ASSUME NEW i \in 1..2 PROVE ~PollRead(i) /\ ~PollAnswered(i)
  BY <1>2, Polled DEF Calm, PollRead, PollAnswered
<1>3. ~TimerFires /\ ~PostServed /\ ~PostAnswered /\ ~AttemptEnds /\ ~ServeLate
  BY DEF Calm, TimerFires, PostServed, PostAnswered, AttemptEnds, ServeLate
<1>4. ~PressRetry /\ ~Reload /\ ~RevealTimer /\ ~BoardTimer
  BY DEF Calm, First, PressRetry, Reload, RevealTimer, BoardTimer
<1>5. /\ ~ServeComplete /\ ~ServeRun /\ ~Asked("exit") /\ ~Asked("continue")
      /\ ~ShowResult /\ ~ShowPhoto /\ ~ShowGenerating /\ ~ShowBoard /\ nav.at # "refused"
  BY <1>1 DEF Asked, EarlyAsks, ServeComplete, ServeRun, ShowResult, ShowPhoto, ShowGenerating, ShowBoard
<1> QED
  BY <1>2, <1>3, <1>4, <1>5 DEF Next, Player, Work, ServeForm, ServeView

\* The scenes before the generation are left forwards, and found calm.
LEMMA EarlyStep ==
  ASSUME Kinds, StartsReady, Early, [Next]_vars
  PROVE  Early'
<1> DEFINE asks == nav' = NoNav \/ \E what \in EarlyAsks : nav' = Ask(what)
<1> SUFFICES ASSUME scene' \in First
             PROVE  Calm' /\ asks
  BY DEF Early, Calm, First, EarlyAsks
<1>1. CASE UNCHANGED vars
  BY <1>1, EarlyIs DEF vars, Calm
<1>2. CASE Next
  <2>1. scene \in First
    <3>1. scene \notin First => scene' \notin First
      <4> SUFFICES ASSUME scene \notin First
                   PROVE  scene' = scene \/ scene' \in {"reveal", "result", "board", "abandoned"}
        BY DEF First
      <4>1. CASE Player
        BY <4>1 DEF Player, Type, Press, PressRetry, Reload, server
      <4>2. CASE \E i \in 1..2 : PollRead(i) \/ PollAnswered(i)
        BY <4>2 DEF PollRead, PollAnswered, server
      <4>3. CASE TimerFires \/ PostServed \/ PostAnswered \/ AttemptEnds \/ DeadlinePasses
        BY <4>3 DEF TimerFires, PostServed, PostAnswered, AttemptEnds, DeadlinePasses, server
      <4>4. CASE PromptTimer \/ RevealTimer \/ BoardTimer
        BY <4>4 DEF PromptTimer, RevealTimer, BoardTimer, server
      <4>5. CASE ServeLate
        BY <4>5 DEF ServeLate, Abandon
      <4>6. CASE ServeView
        BY <4>6 DEF ServeView, ShowLevel, ShowChallenge, ShowPrompt, ShowResult, ShowPhoto, ShowReady,
                    Show, ShowGenerating, ShowBoard, Bounce, Refuse, server
      <4>7. CASE ServeForm
        <5>1. ~ServeStart
          BY DEF ServeStart, StartsReady, First
        <5>2. ~(scene = "level") /\ ~(scene = "challenge") /\ ~(scene = "prompt")
          BY DEF First
        <5> QED
          BY <4>7, <5>1, <5>2 DEF ServeForm, ServeLevel, ServeChallenge, ServeComplete, From, ServeRun,
             ServePrompt, ServeExit, ServeContinue, Abandon, Redirect, Bounce, Refuse, server
      <4> QED
        BY <1>2, <4>1, <4>2, <4>3, <4>4, <4>5, <4>6, <4>7 DEF Next, Work
    <3> QED
      BY <3>1
  <2>2. Calm /\ (nav = NoNav \/ \E what \in EarlyAsks : nav = Ask(what)) /\ ~attempt
    BY <2>1, EarlyIs DEF Kinds, TypeOK, First
  <2>3. nav.ask \in EarlyAsks \cup {"none"} /\ js \in Scripts
    BY <2>2, Asking DEF Kinds, TypeOK
  <2>4. ASSUME NEW which \in First \cup {"error"}, NewPage(which, Quiet), late' = late PROVE Calm' /\ asks
    <3>1. /\ page' = which /\ js' = Quiet /\ nav' = NoNav /\ post' = "none"
          /\ \A i \in 1..2 : polls'[i] = NoPoll
      BY <2>4, Replaces DEF First, Pages
    <3> QED
      BY <2>2, <2>4, <3>1, Scripted DEF Calm
  <2>5. ASSUME NEW what \in EarlyAsks, nav' = Ask(what), js' = js \/ js' = [js EXCEPT !.sent = TRUE],
               UNCHANGED <<page, polls, post, late>>
        PROVE  Calm' /\ asks
    <3>1. ~js'.timer /\ ~js'.fallback
      BY <2>2, <2>3, <2>5 DEF Calm, Scripts
    <3> QED
      BY <2>2, <2>5, <3>1 DEF Calm
  <2>6. CASE Refuse
    BY <2>6, <2>4 DEF Refuse
  <2>7. CASE DeadlinePasses \/ Type
    BY <2>2, <2>7 DEF DeadlinePasses, Type, Calm, tab
  <2>8. CASE ServeStart \/ ServeLevel \/ ServeChallenge
    BY <2>5, <2>6, <2>8 DEF ServeStart, ServeLevel, ServeChallenge, From, Redirect, EarlyAsks, tab
  <2>9. ASSUME NEW reason, ServePrompt(reason) PROVE Calm' /\ asks
    BY <2>6, <2>9 DEF ServePrompt, Redirect, First
  <2>10. CASE ShowLevel \/ ShowChallenge \/ ShowPrompt \/ ShowReady
    BY <2>4, <2>10 DEF ShowLevel, ShowChallenge, ShowPrompt, ShowReady, Show, First
  <2>11. CASE Press
    <3>1. /\ js' = js \/ js' = [js EXCEPT !.sent = TRUE]
          /\ UNCHANGED <<page, polls, post, late>>
      BY <2>11 DEF Press
    <3>2. \E what \in EarlyAsks : nav' = Ask(what)
      BY <2>2, <2>11 DEF Press, Calm, First, EarlyAsks
    <3> QED
      BY <2>5, <3>1, <3>2
  <2>12. CASE PromptTimer
    BY <2>5, <2>12 DEF PromptTimer, EarlyAsks
  <2> QED
    BY <1>2, <2>2, <2>7, <2>8, <2>9, <2>10, <2>11, <2>12, CalmOnly
<1> QED
  BY <1>1, <1>2

-----------------------------------------------------------------------------
(* The page of the prompt *)

\* Where the form of the prompt has got to.
Leaving ==
  \/ scene = "prompt" /\ nav = NoNav
  \/ scene = "prompt" /\ js.sent /\ nav \in {Ask("manual"), Ask("timeout")}
  \/ scene = "abandoned" /\ js.sent /\ nav = Ask("home")
  \/ /\ scene = "generating" /\ js.sent /\ nav.ask = "view generating"
     /\ \/ nav.at = "sent"
        \/ nav.at = "shown" /\ nav.shown.scene = "generating"
        \/ nav.at = "read" /\ nav.shown.scene = "generating" /\ nav.read.scene = "generating"

\* Prompting in other words.
LEMMA PromptingIs ==
  Prompting <=> (page = "prompt" => Calm /\ ~attempt /\ Leaving)
BY DEF Prompting, Calm, Leaving, First

\* The tab is as calm as before, but its page may ask for the Generating scene.
LEMMA PromptOnly ==
  ASSUME Kinds, Prompting, page = "prompt", Next
  PROVE  \/ DeadlinePasses \/ ShowReady \/ ShowGenerating \/ Type \/ Press \/ PromptTimer
         \/ \E reason \in {"manual", "timeout"} : Asked(reason) /\ ServePrompt(reason)
<1>0. Calm /\ ~attempt /\ Leaving /\ nav \in Navs
  BY PromptingIs DEF Kinds
<1>1. /\ nav.ask \in {"none", "manual", "timeout", "home", "view generating"}
      /\ nav.at \in {"none", "sent", "shown", "read"}
  BY <1>0, Asking DEF Leaving
<1>2. ASSUME NEW i \in 1..2 PROVE ~PollRead(i) /\ ~PollAnswered(i)
  BY <1>0, <1>2, Polled DEF Calm, PollRead, PollAnswered
<1>3. ~TimerFires /\ ~PostServed /\ ~PostAnswered /\ ~AttemptEnds /\ ~ServeLate
  BY <1>0 DEF Calm, TimerFires, PostServed, PostAnswered, AttemptEnds, ServeLate
<1>4. ~PressRetry /\ ~Reload /\ ~RevealTimer /\ ~BoardTimer
  BY DEF PressRetry, Reload, RevealTimer, BoardTimer
<1>5. ~ServeStart /\ ~ServeLevel /\ ~ServeChallenge /\ ~ServeComplete /\ ~ServeRun
  BY <1>1 DEF Asked, ServeStart, ServeLevel, ServeChallenge, ServeComplete, ServeRun
<1>6. /\ ~Asked("exit") /\ ~Asked("continue") /\ ~ShowLevel /\ ~ShowChallenge /\ ~ShowPrompt
      /\ ~ShowResult /\ ~ShowPhoto /\ ~ShowBoard /\ nav.at # "refused"
  BY <1>1 DEF Asked, ShowLevel, ShowChallenge, ShowPrompt, ShowResult, ShowPhoto, ShowBoard
<1> QED
  BY <1>2, <1>3, <1>4, <1>5, <1>6 DEF Next, Player, Work, ServeForm, ServeView

\* The form goes out once, and only to a round that is in its prompt.
LEMMA PromptFiled ==
  ASSUME Kinds, Prompting, page = "prompt", NEW reason \in {"manual", "timeout"},
         Asked(reason), ServePrompt(reason)
  PROVE  \/ /\ Redirect("abandoned", "home") \/ Redirect("generating", "view generating")
            /\ js.sent
         \/ /\ Refuse /\ due = "before"
            /\ nav.ask = "timeout" \/ (nav.ask = "manual" /\ text = "blank")
<1>0. Leaving
  BY PromptingIs
<1>a. nav.at = "sent" /\ nav.ask = reason /\ nav.ask \in {"manual", "timeout"}
  BY DEF Asked
<1>b. nav # NoNav /\ nav # Ask("home") /\ nav.ask # "view generating"
  BY <1>a, Asking
<1>1. scene = "prompt" /\ js.sent /\ nav.ask = reason
  BY <1>0, <1>a, <1>b DEF Leaving
<1> QED
  BY <1>1 DEF ServePrompt, Elapsed

\* The page of the Generating scene that was asked for from the prompt is one.
LEMMA PromptFollowed ==
  ASSUME Kinds, Prompting, page = "prompt", ShowGenerating
  PROVE  \/ /\ nav' \in {[nav EXCEPT !.at = "shown", !.shown = Record],
                         [nav EXCEPT !.at = "read", !.read = Record]}
            /\ Leaving' /\ UNCHANGED <<server, tab, late>>
         \/ page' \notin {"prompt", "error"}
<1>0. Leaving /\ nav \in Navs
  BY PromptingIs DEF Kinds
<1>1. CASE /\ Asked("view generating") /\ nav' = [nav EXCEPT !.at = "shown", !.shown = Record]
           /\ UNCHANGED <<server, tab, late>>
  <2>1. scene = "generating" /\ js.sent /\ nav.ask = "view generating"
    BY <1>0, <1>1, Asking DEF Leaving, Asked
  <2>2. nav'.at = "shown" /\ nav'.ask = nav.ask /\ nav'.shown.scene = scene
    BY <1>0, <1>1 DEF Navs, Record
  <2>3. scene' = scene /\ js' = js
    BY <1>1 DEF server, tab
  <2> QED
    BY <1>1, <2>1, <2>2, <2>3 DEF Leaving
<1>2. CASE /\ nav.at = "shown" /\ nav' = [nav EXCEPT !.at = "read", !.read = Record]
           /\ UNCHANGED <<server, tab, late>>
  <2>1. scene = "generating" /\ js.sent /\ nav.ask = "view generating" /\ nav.shown.scene = "generating"
    BY <1>0, <1>2, Asking DEF Leaving
  <2>2. /\ nav'.at = "read" /\ nav'.ask = nav.ask /\ nav'.shown = nav.shown
        /\ nav'.read.scene = scene
    BY <1>0, <1>2 DEF Navs, Record
  <2>3. scene' = scene /\ js' = js
    BY <1>2 DEF server, tab
  <2> QED
    BY <1>2, <2>1, <2>2, <2>3 DEF Leaving
<1>3. CASE nav.at = "read" /\ LoadGenerating(nav.shown, Status(nav.read))
  <2>1. nav.shown.scene = "generating"
    BY <1>0, <1>3, Asking DEF Leaving
  <2> QED
    BY <1>3, <2>1, Loads DEF NewPage, NewBusyPage
<1> QED
  BY <1>1, <1>2, <1>3 DEF ShowGenerating

\* No page but that of the prompt becomes it, and no request but the view's does.
LEMMA PromptAppears ==
  ASSUME Kinds, Next, page # "prompt", page' = "prompt"
  PROVE  scene = "prompt" /\ ShowPrompt
<1>1. ~Player /\ ~PromptTimer /\ ~RevealTimer /\ ~BoardTimer
  BY DEF Player, Type, Press, PressRetry, Reload, PromptTimer, RevealTimer, BoardTimer, tab
<1>2. ASSUME NEW i \in 1..2 PROVE ~PollRead(i) /\ ~PollAnswered(i)
  BY <1>2 DEF PollRead, PollAnswered
<1>3. ~TimerFires /\ ~PostServed /\ ~PostAnswered /\ ~AttemptEnds /\ ~DeadlinePasses /\ ~ServeLate
  BY DEF TimerFires, PostServed, PostAnswered, AttemptEnds, DeadlinePasses, ServeLate, Abandon, tab
<1>4. ~Refuse
  BY DEF Refuse, NewPage
<1>5. ~ServeForm
  BY <1>4 DEF ServeForm, ServeStart, ServeLevel, ServeChallenge, ServeComplete, From, ServeRun,
     ServePrompt, ServeExit, ServeContinue, Abandon, Redirect, Bounce, tab
<1>6. ~ShowGenerating /\ ~ShowBoard
  BY <1>4, Loads DEF ShowGenerating, ShowBoard, NewPage, NewBusyPage, Bounce, tab
<1>7. ServeView
  BY <1>1, <1>2, <1>3, <1>5 DEF Next, Work
<1> QED
  BY <1>4, <1>6, <1>7 DEF ServeView, ShowLevel, ShowChallenge, ShowPrompt, ShowResult, ShowPhoto,
     ShowReady, Show, NewPage

\* On the page of the prompt nothing of the generation happens, after every step.
LEMMA PromptingStep ==
  ASSUME Kinds, StartsReady, Early, Prompting, [Next]_vars
  PROVE  Prompting'
<1> SUFFICES ASSUME page' = "prompt"
             PROVE  Calm' /\ ~attempt' /\ Leaving'
  BY DEF Prompting, Calm, Leaving, First
<1>1. CASE UNCHANGED vars
  BY <1>1, PromptingIs DEF vars, Calm, Leaving
<1>2. CASE Next /\ page # "prompt"
  <2>1. scene = "prompt" /\ ShowPrompt
    BY <1>2, PromptAppears
  <2>2. NewPage("prompt", Quiet) /\ UNCHANGED <<server, late>>
    BY <2>1 DEF ShowPrompt, Show
  <2>3. Calm /\ ~attempt
    BY <2>1, EarlyIs DEF First, Kinds, TypeOK
  <2>4. page' = "prompt" /\ js' = Quiet /\ nav' = NoNav /\ post' = "none" /\ \A i \in 1..2 : polls'[i] = NoPoll
    BY <2>2, Replaces DEF Pages
  <2>5. scene' = "prompt" /\ ~attempt' /\ late' = "none"
    BY <2>1, <2>2, <2>3 DEF server, Calm
  <2>6. Leaving'
    BY <2>4, <2>5 DEF Leaving
  <2> QED
    BY <2>4, <2>5, <2>6, Scripted DEF Calm, First
<1>3. CASE Next /\ page = "prompt"
  <2>0. Calm /\ ~attempt /\ Leaving /\ js \in Scripts
    BY <1>3, PromptingIs DEF Kinds, TypeOK
  <2>1. CASE DeadlinePasses
    <3>1. Calm' /\ UNCHANGED <<scene, attempt, js, nav>>
      BY <2>0, <2>1 DEF DeadlinePasses, tab, Calm
    <3> QED
      BY <2>0, <3>1 DEF Leaving
  <2>2. CASE ShowReady
    BY <2>2 DEF ShowReady, NewPage
  <2>3. CASE ShowGenerating
    <3>1. Leaving' /\ UNCHANGED <<server, tab, late>>
      BY <1>3, <2>3, PromptFollowed
    <3> QED
      BY <2>0, <3>1 DEF Calm, server, tab
  <2>4. CASE Type
    <3>1. Calm' /\ UNCHANGED <<scene, attempt, js, nav>>
      BY <2>0, <2>4 DEF Type, server, Calm
    <3> QED
      BY <2>0, <3>1 DEF Leaving
  <2>5. CASE Press \/ PromptTimer
    <3>1. ~js.sent /\ js' = [js EXCEPT !.sent = TRUE] /\ UNCHANGED <<server, page, polls, post, late>>
          /\ nav' \in {Ask("manual"), Ask("timeout")}
      BY <1>3, <2>0, <2>5 DEF Press, PromptTimer, Calm
    <3>2. scene = "prompt" /\ scene' = "prompt" /\ ~attempt'
      BY <2>0, <3>1 DEF Leaving, server
    <3>3. js'.sent /\ ~js'.timer /\ ~js'.fallback
      BY <2>0, <3>1 DEF Scripts, Calm
    <3>4. Leaving'
      BY <3>1, <3>2, <3>3 DEF Leaving
    <3> QED
      BY <2>0, <3>1, <3>2, <3>3, <3>4 DEF Calm
  <2>6. ASSUME NEW reason \in {"manual", "timeout"}, Asked(reason), ServePrompt(reason)
        PROVE  Calm' /\ ~attempt' /\ Leaving'
    <3>1. CASE Refuse
      BY <3>1 DEF Refuse, NewPage
    <3>2. CASE (Redirect("abandoned", "home") \/ Redirect("generating", "view generating")) /\ js.sent
      <4>1. UNCHANGED <<attempt, page, js, polls, post, late>>
        BY <3>2 DEF Redirect, tab
      <4>2. \/ scene' = "abandoned" /\ nav' = Ask("home")
            \/ scene' = "generating" /\ nav' = Ask("view generating")
        BY <3>2 DEF Redirect
      <4>3. Leaving'
        BY <3>2, <4>1, <4>2, Asking DEF Leaving
      <4> QED
        BY <2>0, <4>1, <4>3 DEF Calm
    <3> QED
      BY <1>3, <2>6, <3>1, <3>2, PromptFiled
  <2> QED
    BY <1>3, <2>1, <2>2, <2>3, <2>4, <2>5, <2>6, PromptOnly
<1> QED
  BY <1>1, <1>2, <1>3

-----------------------------------------------------------------------------
(* The script that holds the button *)

AwakeParts == Polling /\ Awake

\* A script that holds the button has something under way, after every step.
LEMMA AwakeStep ==
  ASSUME Kinds, AwakeParts, [Next]_vars
  PROVE  AwakeParts'
<1>0. js \in Scripts /\ polls \in [1..2 -> Polls] /\ nav \in Navs
  BY DEF Kinds, TypeOK
<1> USE DEF AwakeParts, Polling, Awake
<1>1. CASE UNCHANGED vars
  BY <1>1 DEF vars
<1>2. CASE nav' # NoNav \/ ~js'.held
  BY <1>2
<1>3. ASSUME js' = js, nav' = nav, post = "none" \/ post' # "none", UNCHANGED polls PROVE AwakeParts'
  BY <1>3
<1>4. ASSUME NEW s \in Scripts, s.polling \/ nav # NoNav, js' = [s EXCEPT !.timer = FALSE] \/ js' = s,
             polls' = AskStatus(s, polls).polls, nav' = nav
      PROVE  AwakeParts'
  <2>1. s.polling => \E i \in 1..2 : polls'[i] # NoPoll
    BY <1>0, <1>4, StatusAsked
  <2>2. js'.polling = s.polling
    BY <1>4 DEF Scripts
  <2> QED
    BY <1>4, <2>1, <2>2
<1>5. ASSUME NEW s \in Scripts, js' = Fallback(s) PROVE AwakeParts'
  BY <1>2, <1>5 DEF Fallback, Stopped, Scripts
<1>6. CASE ReloadScene
  BY <1>0, <1>2, <1>6, Asking DEF ReloadScene
<1>7. ASSUME NEW i \in 1..2, PollRead(i) PROVE AwakeParts'
  <2>1. [polls[i] EXCEPT !.at = "read", !.read = Record].at = "read"
    BY <1>0 DEF Polls
  <2>2. [NoPoll EXCEPT !.at = "answered", !.state = Status(polls[i].read)].at = "answered"
    BY Polled DEF Polls
  <2>3. polls'[i] \in {[polls[i] EXCEPT !.at = "read", !.read = Record],
                       [NoPoll EXCEPT !.at = "answered", !.state = Status(polls[i].read)]}
    BY <1>0, <1>7 DEF PollRead
  <2>4. polls'[i] # NoPoll
    BY ONLY <2>1, <2>2, <2>3, Polled
  <2>5. js' = js /\ nav' = nav
    BY <1>7 DEF PollRead
  <2> QED
    BY <2>4, <2>5
<1>8. ASSUME NEW i \in 1..2, PollAnswered(i) PROVE AwakeParts'
  <2>1. ASSUME NEW state, js' = AskAgain(js, state), nav' = nav PROVE AwakeParts'
    <3>1. js'.held = js.held /\ js'.polling = js.polling /\ js'.timer = js.polling
      BY <1>0, <2>1 DEF AskAgain, Scripts
    <3> QED
      BY <2>1, <3>1
  <2> QED
    BY <1>0, <1>5, <1>6, <1>8, <2>1 DEF PollAnswered
<1>9. CASE TimerFires
  <2>1. js' = [js EXCEPT !.timer = FALSE]
    BY <1>0, <1>9, StatusAsked DEF TimerFires
  <2>2. polls' = AskStatus(js, polls).polls /\ nav' = nav
    BY <1>9 DEF TimerFires
  <2>3. CASE js.polling \/ nav # NoNav
    BY <1>0, <1>4, <2>1, <2>2, <2>3
  <2>4. CASE ~js.held
    BY <1>0, <2>1, <2>4 DEF Scripts
  <2> QED
    BY <2>3, <2>4
<1>10. CASE PostServed
  BY <1>3, <1>10 DEF PostServed
<1>11. CASE PostAnswered
  <2>1. CASE /\ polls' = AskStatus(js, polls).polls /\ UNCHANGED <<js, nav, late, mishaps>>
    <3>1. CASE js.polling \/ nav # NoNav
      BY <1>0, <1>4, <2>1, <3>1
    <3>2. CASE ~js.held
      BY <2>1, <3>2
    <3> QED
      BY <3>1, <3>2
  <2> QED
    BY <1>0, <1>5, <1>6, <1>11, <2>1 DEF PostAnswered
<1>12. ASSUME NEW answer \in {"ok", "conflict"}, Settle(answer), UNCHANGED <<js, polls>> PROVE AwakeParts'
  BY <1>12, SettleTyped DEF Kinds, TypeOK
<1>13. CASE AttemptEnds
  BY <1>12, <1>13 DEF AttemptEnds
<1>14. CASE DeadlinePasses
  BY <1>3, <1>14 DEF DeadlinePasses, tab
<1>15. CASE ServeLate
  <2>1. CASE Abandon /\ Settle("conflict")
    BY <1>12, <2>1 DEF Abandon
  <2>2. CASE UNCHANGED <<tab, nav>>
    BY <1>3, <2>2 DEF tab
  <2> QED
    BY <1>15, <2>1, <2>2 DEF ServeLate
<1>16. CASE ServeForm \/ ServeView
  <2>1. js' = Quiet => ~js'.held
    BY Scripted
  <2>2. (js'.polling /\ polls'[1] # NoPoll) => AwakeParts'
    OBVIOUS
  <2>3. nav'.at \in {"running", "shown", "read", "sent"} => nav' # NoNav
    BY Asking
  <2> HIDE DEF AwakeParts
  <2> QED
    BY <1>2, <1>16, <2>1, <2>2, <2>3, Answered, Asking
<1>17. CASE Type
  BY <1>3, <1>17 DEF Type
<1>18. CASE Press \/ Reload \/ PromptTimer \/ RevealTimer \/ BoardTimer
  BY <1>2, <1>18, Asking DEF Press, Reload, PromptTimer, RevealTimer, BoardTimer
<1>19. CASE PressRetry
  <2> DEFINE s == [js EXCEPT !.held = TRUE, !.polling = TRUE]
  <2>1. s \in Scripts /\ s.polling
    BY <1>0, ScriptSteps DEF Scripts
  <2>2. js' = AskStatus(s, polls).script /\ polls' = AskStatus(s, polls).polls /\ nav' = nav
    BY <1>19 DEF PressRetry
  <2> HIDE DEF s
  <2>3. js' = [s EXCEPT !.timer = FALSE]
    BY <1>0, <2>1, <2>2, StatusAsked
  <2> QED
    BY <1>4, <2>1, <2>2, <2>3
<1> HIDE DEF AwakeParts
<1> QED
  BY <1>1, <1>7, <1>8, <1>9, <1>10, <1>11, <1>13, <1>14, <1>15, <1>16, <1>17, <1>18, <1>19
     DEF Next, Player, Work

-----------------------------------------------------------------------------
(* The order of the leaderboard *)

\* What list_completed may return: finitely many rows with different ids.
Board(rows) ==
  /\ IsFiniteSet(rows) /\ rows \subseteq [id : Int, score : Int, at : Int]
  /\ \A r, s \in rows : r.id = s.id => r = s

\* The sort key is a strict total order on such rows.
LEMMA BeforeOrders ==
  ASSUME NEW rows, Board(rows), NEW r \in rows, NEW s \in rows
  PROVE  /\ ~Before(r, r)
         /\ r # s => Before(r, s) \/ Before(s, r)
         /\ \A q \in rows : Before(q, r) /\ Before(r, s) => Before(q, s)
BY DEF Board, Before

Above(rows, r) == {s \in rows : Before(s, r)}

Place(rows, r) == Cardinality(Above(rows, r))

\* Places are numbered from zero, and the better row has the smaller one.
LEMMA Places ==
  ASSUME NEW rows, Board(rows)
  PROVE  /\ Cardinality(rows) \in Nat
         /\ \A r \in rows : Place(rows, r) \in 0..(Cardinality(rows) - 1)
         /\ \A r, s \in rows : Before(r, s) <=> Place(rows, r) < Place(rows, s)
         /\ \A r, s \in rows : Place(rows, r) = Place(rows, s) => r = s
<1>1. IsFiniteSet(rows)
  BY DEF Board
<1>2. Cardinality(rows) \in Nat
  BY <1>1, FS_CardinalityType
<1>3. ASSUME NEW r \in rows
      PROVE  IsFiniteSet(Above(rows, r)) /\ Place(rows, r) \in Nat /\ r \notin Above(rows, r)
  <2>1. Above(rows, r) \in SUBSET rows
    BY DEF Above
  <2>2. r \notin Above(rows, r)
    BY BeforeOrders DEF Above
  <2> QED
    BY <1>1, <2>1, <2>2, FS_Subset, FS_CardinalityType DEF Place
<1>4. ASSUME NEW r \in rows, NEW T, Above(rows, r) \cup {r} \subseteq T, IsFiniteSet(T)
      PROVE  Place(rows, r) + 1 <= Cardinality(T)
  <2>1. Cardinality(Above(rows, r) \cup {r}) = Place(rows, r) + 1
    BY <1>3, FS_AddElement DEF Place
  <2>2. Above(rows, r) \cup {r} \in SUBSET T
    BY <1>4
  <2>3. Cardinality(Above(rows, r) \cup {r}) <= Cardinality(T)
    BY <1>4, <2>2, FS_Subset
  <2> QED
    BY <2>1, <2>3
<1>5. ASSUME NEW r \in rows PROVE Place(rows, r) \in 0..(Cardinality(rows) - 1)
  <2>1. Above(rows, r) \cup {r} \subseteq rows
    BY DEF Above
  <2>2. Place(rows, r) + 1 <= Cardinality(rows)
    BY <1>1, <1>4, <2>1
  <2> QED
    BY <1>2, <1>3, <2>2
<1>6. ASSUME NEW r \in rows, NEW s \in rows, Before(r, s) PROVE Place(rows, r) < Place(rows, s)
  <2>1. Above(rows, r) \cup {r} \subseteq Above(rows, s)
    BY <1>6, BeforeOrders DEF Above
  <2>2. Place(rows, r) + 1 <= Place(rows, s)
    BY <1>3, <1>4, <2>1 DEF Place
  <2> QED
    BY <1>3, <2>2
<1>7. ASSUME NEW r \in rows, NEW s \in rows, ~Before(r, s) PROVE ~(Place(rows, r) < Place(rows, s))
  <2>1. CASE r = s
    BY <1>3, <2>1
  <2>2. CASE r # s
    <3>1. Before(s, r)
      BY <1>7, <2>2, BeforeOrders
    <3>2. Place(rows, s) < Place(rows, r)
      BY <3>1, <1>6
    <3> QED
      BY <1>3, <3>2
  <2> QED
    BY <2>1, <2>2
<1>8. ASSUME NEW r \in rows, NEW s \in rows, Place(rows, r) = Place(rows, s) PROVE r = s
  <2> SUFFICES ASSUME r # s PROVE FALSE
    OBVIOUS
  <2>1. Before(r, s) \/ Before(s, r)
    BY BeforeOrders
  <2>2. Place(rows, r) < Place(rows, s) \/ Place(rows, s) < Place(rows, r)
    BY <2>1, <1>6
  <2> QED
    BY <1>3, <1>8, <2>2
<1> QED
  BY <1>2, <1>5, <1>6, <1>7, <1>8

\* As many places as rows: every place is taken.
LEMMA PlacesTaken ==
  ASSUME NEW rows, Board(rows), NEW k \in 0..(Cardinality(rows) - 1)
  PROVE  \E r \in rows : Place(rows, r) = k
<1> DEFINE n == Cardinality(rows)
<1> DEFINE T == 0..(n - 1)
<1> DEFINE f == [r \in rows |-> Place(rows, r)]
<1>1. n \in Nat /\ k \in T
  BY Places
<1>2. f \in Injection(rows, T)
  BY Places DEF Injection, IsInjective
<1>3. IsFiniteSet(T) /\ Cardinality(T) = n
  BY <1>1, FS_Interval
<1> HIDE DEF f, T
<1>4. f \in Surjection(rows, T)
  BY <1>2, <1>3, FS_Injection
<1>5. PICK r \in rows : f[r] = k
  BY <1>1, <1>4 DEF Surjection
<1> QED
  BY <1>5 DEF f

\* Ordered sorts: the i-th row has i - 1 rows before it.
LEMMA OrderedSorts ==
  ASSUME NEW rows, Board(rows)
  PROVE  /\ DOMAIN Ordered(rows) = 1..Cardinality(rows) /\ Len(Ordered(rows)) = Cardinality(rows)
         /\ \A i \in 1..Cardinality(rows) :
              Ordered(rows)[i] \in rows /\ Place(rows, Ordered(rows)[i]) = i - 1
<1> DEFINE n == Cardinality(rows)
<1> DEFINE at(i) == CHOOSE r \in rows : Cardinality({s \in rows : Before(s, r)}) = i - 1
<1>1. n \in Nat
  BY Places
<1>2. Ordered(rows) = [i \in 1..n |-> at(i)]
  BY DEF Ordered
<1>3. ASSUME NEW i \in 1..n PROVE at(i) \in rows /\ Place(rows, at(i)) = i - 1
  <2>1. i - 1 \in 0..(Cardinality(rows) - 1)
    BY <1>1
  <2>2. \E r \in rows : Cardinality({s \in rows : Before(s, r)}) = i - 1
    BY <2>1, PlacesTaken DEF Place, Above
  <2> QED
    BY <2>2 DEF Place, Above
<1> HIDE DEF at
<1>4. Ordered(rows) \in Seq(rows) /\ Len(Ordered(rows)) = n
  <2>1. Ordered(rows) \in [1..n -> rows]
    BY <1>2, <1>3
  <2> QED
    BY <1>1, <2>1
<1> QED
  BY <1>2, <1>3, <1>4

\* Its rows are in the order of their places.
LEMMA OrderedBefore ==
  ASSUME NEW rows, Board(rows), NEW i \in 1..Cardinality(rows), NEW j \in 1..Cardinality(rows)
  PROVE  Before(Ordered(rows)[i], Ordered(rows)[j]) <=> i < j
<1> DEFINE r == Ordered(rows)[i]
           s == Ordered(rows)[j]
<1>1. r \in rows /\ s \in rows /\ Place(rows, r) = i - 1 /\ Place(rows, s) = j - 1
  BY OrderedSorts
<1> HIDE DEF r, s
<1>2. Before(r, s) <=> Place(rows, r) < Place(rows, s)
  BY <1>1, Places
<1>3. i \in Int /\ j \in Int
  BY Places
<1>4. Before(r, s) <=> i < j
  BY <1>1, <1>2, <1>3
<1> QED
  BY <1>4 DEF r, s

\* Every row is found in the sorted sequence.
LEMMA OrderedFinds ==
  ASSUME NEW rows, Board(rows), NEW r \in rows
  PROVE  \E i \in 1..Cardinality(rows) : Ordered(rows)[i] = r
<1> DEFINE i == Place(rows, r) + 1
<1>1. i \in 1..Cardinality(rows) /\ i - 1 = Place(rows, r)
  BY Places
<1> HIDE DEF i
<1>2. Ordered(rows)[i] \in rows /\ Place(rows, Ordered(rows)[i]) = Place(rows, r)
  BY <1>1, OrderedSorts
<1>3. Ordered(rows)[i] = r
  BY <1>2, Places
<1> QED
  BY <1>1, <1>3

-----------------------------------------------------------------------------
(* Ranks *)

Better(rows, r) == {s \in rows : s.score > r.score}

\* A tie shares what is better; a row that begins a new score is preceded by
\* exactly the better ones.
LEMMA BetterAbove ==
  ASSUME NEW rows, Board(rows), NEW i \in 1..Cardinality(rows),
         i = 1 \/ Ordered(rows)[i].score # Ordered(rows)[i - 1].score
  PROVE  Cardinality(Better(rows, Ordered(rows)[i])) = i - 1
<1> DEFINE r == Ordered(rows)[i]
<1>1. r \in rows /\ Place(rows, r) = i - 1 /\ i \in Int /\ rows \subseteq [id : Int, score : Int, at : Int]
  BY OrderedSorts, Places DEF Board
<1>2. Better(rows, r) \subseteq Above(rows, r)
  BY <1>1 DEF Better, Above, Before
<1>3. CASE i = 1
  <2>1. IsFiniteSet(Above(rows, r)) /\ Cardinality(Above(rows, r)) = 0
    <3>1. Above(rows, r) \in SUBSET rows /\ IsFiniteSet(rows)
      BY DEF Above, Board
    <3> QED
      BY <1>1, <1>3, <3>1, FS_Subset DEF Place
  <2>2. Above(rows, r) = {}
    BY <2>1, FS_EmptySet
  <2>3. Better(rows, r) = Above(rows, r)
    BY <1>2, <2>2
  <2> QED
    BY <1>1, <2>3 DEF Place
<1>4. CASE i # 1
  <2> DEFINE q == Ordered(rows)[i - 1]
  <2>0. i - 1 \in 1..Cardinality(rows) /\ i - 1 < i
    BY <1>1, <1>4, Places
  <2>1. q \in rows /\ Place(rows, q) = i - 2 /\ Before(q, r) /\ q.score # r.score
    <3>1. q \in rows /\ Place(rows, q) = (i - 1) - 1
      BY <2>0, OrderedSorts
    <3>2. Before(q, r)
      BY <2>0, OrderedBefore
    <3> QED
      BY <1>1, <1>4, <3>1, <3>2
  <2> HIDE DEF q, r
  <2>2. q.score > r.score
    BY <1>1, <2>1 DEF Before
  <2>3. ASSUME NEW s \in Above(rows, r) PROVE s.score > r.score
    <3>1. s \in rows /\ Before(s, r)
      BY DEF Above
    <3>2. Place(rows, s) < i - 1 /\ Place(rows, s) \in Int
      BY <1>1, <3>1, Places
    <3>3. ~(Place(rows, q) < Place(rows, s))
      BY <1>1, <2>1, <3>2
    <3>4. ~Before(q, s)
      BY <2>1, <3>1, <3>3, Places
    <3>5. s.score >= q.score
      BY <1>1, <2>1, <3>1, <3>4 DEF Before
    <3> QED
      BY <1>1, <2>1, <2>2, <3>1, <3>5
  <2>4. Better(rows, r) = Above(rows, r)
    BY <1>2, <2>3 DEF Better, Above
  <2> QED
    BY <1>1, <2>4 DEF Place, r
<1> QED
  BY <1>3, <1>4

\* The ranks _ranked_leaderboard_entries computes row by row count the better rows.
LEMMA EntriesRank ==
  ASSUME NEW rows, Board(rows)
  PROVE  /\ DOMAIN Entries(rows) = 1..Cardinality(rows) /\ Len(Entries(rows)) = Cardinality(rows)
         /\ Entries(rows) \in Seq([row : rows, rank : Int])
         /\ \A i \in 1..Cardinality(rows) :
              /\ Entries(rows)[i].row = Ordered(rows)[i]
              /\ Entries(rows)[i].rank = 1 + Cardinality(Better(rows, Ordered(rows)[i]))
<1> DEFINE n == Cardinality(rows)
           ordered == Ordered(rows)
           same(i) == ordered[i].score = ordered[i - 1].score
           Solution(f) == f = [i \in 1..Len(ordered) |-> IF i = 1 THEN 1 ELSE IF same(i) THEN f[i - 1] ELSE i]
           chosen == CHOOSE f : Solution(f)
           count(i) == 1 + Cardinality(Better(rows, ordered[i]))
           good == [i \in 1..n |-> count(i)]
<1>1. n \in Nat /\ Len(ordered) = n /\ \A i \in 1..n : ordered[i] \in rows
  BY Places, OrderedSorts
<1>2. ASSUME NEW i \in 1..n PROVE count(i) \in Int
  <2>1. Better(rows, ordered[i]) \in SUBSET rows /\ IsFiniteSet(rows)
    BY DEF Better, Board
  <2> QED
    BY <2>1, FS_Subset, FS_CardinalityType
<1>3. ASSUME NEW i \in 1..n
      PROVE  count(i) = IF i = 1 THEN 1 ELSE IF same(i) THEN count(i - 1) ELSE i
  <2>1. CASE i = 1 \/ ~same(i)
    <3>1. Cardinality(Better(rows, ordered[i])) = i - 1
      BY <2>1, BetterAbove
    <3> QED
      BY <1>1, <2>1, <3>1
  <2>2. CASE i # 1 /\ same(i)
    BY <2>2 DEF Better
  <2> QED
    BY <2>1, <2>2
<1> HIDE DEF count, same
<1>4. Solution(good)
  <2>1. ASSUME NEW i \in 1..n PROVE good[i] = IF i = 1 THEN 1 ELSE IF same(i) THEN good[i - 1] ELSE i
    <3>1. i # 1 => i - 1 \in 1..n
      BY <1>1
    <3> QED
      BY <1>3, <3>1
  <2> HIDE DEF good
  <2>2. good = [i \in 1..n |-> good[i]]
    BY DEF good
  <2> QED
    BY <1>1, <2>1, <2>2
<1>5. Solution(chosen)
  <2> HIDE DEF Solution
  <2> QED
    BY <1>4
<1>6. Entries(rows) = [i \in 1..Len(ordered) |-> [row |-> ordered[i], rank |-> chosen[i]]]
  BY DEF Entries, same
<1> HIDE DEF chosen
<1>7. ASSUME NEW i \in 1..n PROVE chosen[i] = IF i = 1 THEN 1 ELSE IF same(i) THEN chosen[i - 1] ELSE i
  BY <1>1, <1>5
<1> HIDE DEF Solution, good
<1>8. \A i \in 1..n : chosen[i] = count(i)
  <2> DEFINE S == {m \in Nat : m + 1 \in 1..n => chosen[m + 1] = count(m + 1)}
  <2>1. 0 \in S
    BY <1>3, <1>7
  <2>2. ASSUME NEW m \in Nat, m \in S PROVE m + 1 \in S
    <3> SUFFICES ASSUME (m + 1) + 1 \in 1..n PROVE chosen[(m + 1) + 1] = count((m + 1) + 1)
      OBVIOUS
    <3>1. PICK k \in 1..n : k = (m + 1) + 1
      OBVIOUS
    <3>2. k - 1 = m + 1 /\ m + 1 \in 1..n /\ k # 1
      BY <1>1, <3>1
    <3>3. chosen[k - 1] = count(k - 1)
      BY <2>2, <3>2
    <3>4. chosen[k] = count(k)
      BY <1>3, <1>7, <3>2, <3>3
    <3> QED
      BY <3>1, <3>4
  <2> HIDE DEF S
  <2>3. Nat \subseteq S
    BY <2>1, <2>2, SetInduction
  <2> QED
    <3> SUFFICES ASSUME NEW i \in 1..n PROVE chosen[i] = count(i)
      OBVIOUS
    <3>1. i - 1 \in Nat /\ (i - 1) + 1 = i
      BY <1>1
    <3>2. i - 1 \in S
      BY <2>3, <3>1
    <3> QED
      BY <3>1, <3>2 DEF S
<1>9. Entries(rows) = [i \in 1..n |-> [row |-> ordered[i], rank |-> count(i)]]
  BY <1>1, <1>6, <1>8
<1>10. Entries(rows) \in [1..n -> [row : rows, rank : Int]]
  BY <1>1, <1>2, <1>9
<1>11. Entries(rows) \in Seq([row : rows, rank : Int]) /\ Len(Entries(rows)) = n
  <2> DEFINE X == [row : rows, rank : Int]
             entries == Entries(rows)
  <2>1. entries \in [1..n -> X] /\ n \in Nat
    BY <1>1, <1>10
  <2> HIDE DEF X, entries, n
  <2>2. entries \in Seq(X) /\ Len(entries) = n
    BY <2>1
  <2> QED
    BY <2>2 DEF X, entries
<1>12. DOMAIN Entries(rows) = 1..n
  BY <1>9
<1>13. ASSUME NEW i \in 1..n
       PROVE  Entries(rows)[i].row = ordered[i] /\ Entries(rows)[i].rank = count(i)
  BY <1>9
<1> QED
  BY <1>11, <1>12, <1>13 DEF count

-----------------------------------------------------------------------------
(* The window *)

\* What is shown are the entries that follow the first d, the current one included.
Shows(shown, entries, current, d) ==
  LET room == IF Len(entries) < MaxRows THEN Len(entries) ELSE MaxRows
  IN  /\ DOMAIN shown = 1..room /\ Len(shown) = room
      /\ \A i \in 1..room : d + i \in 1..Len(entries) /\ shown[i] = entries[d + i]
      /\ current - d \in 1..room

\* The window is a stretch of the entries, as long as there is room for, and the
\* current entry is in it.  With MaxRows = 2 it would not be.
LEMMA WindowShows ==
  ASSUME NEW X, NEW entries \in Seq(X), NEW current \in 1..Len(entries)
  PROVE  \E d \in Nat : Shows(Window(entries, current), entries, current, d)
<1> DEFINE n == Len(entries)
           shown == Window(entries, current)
<1>1. n \in Nat /\ MaxRows \in Nat /\ MaxRows >= 3 /\ current \in Int /\ 1 <= current /\ current <= n
  BY RowsAssumption
<1>2. CASE n <= MaxRows
  <2>1. shown = entries /\ DOMAIN entries = 1..n
    BY <1>2 DEF Window
  <2>2. n = IF n < MaxRows THEN n ELSE MaxRows
    BY <1>1, <1>2
  <2>3. \A i \in 1..n : 0 + i \in 1..n /\ shown[i] = entries[0 + i]
    BY <1>1, <2>1
  <2>4. current - 0 \in 1..n
    BY <1>1
  <2>5. Len(shown) = n
    BY <2>1
  <2> HIDE DEF shown
  <2>6. Shows(shown, entries, current, 0)
    BY <2>1, <2>2, <2>3, <2>4, <2>5 DEF Shows
  <2> QED
    BY <2>6 DEF shown
<1>3. CASE ~(n <= MaxRows)
  <2> DEFINE start == IF current <= MaxRows THEN 1 ELSE current - 2
             last == n - MaxRows + 1
             first == IF start < last THEN start ELSE last
             d == first - 1
  <2>1. shown = SubSeq(entries, first, first + MaxRows - 1)
    BY <1>3 DEF Window
  <2>2. start \in Int /\ 1 <= start /\ start <= current /\ last \in Int /\ 2 <= last
    BY <1>1, <1>3
  <2>3. first \in Int /\ 1 <= first /\ first <= last /\ first <= start
    BY <2>2
  <2>4. first <= current /\ current <= first + MaxRows - 1
    <3>1. CASE current <= MaxRows
      <4>1. start = 1
        BY <3>1
      <4>2. first = 1
        BY <2>3, <4>1
      <4> QED
        BY <1>1, <3>1, <4>2
    <3>2. CASE ~(current <= MaxRows)
      <4>1. start = current - 2
        BY <3>2
      <4> HIDE DEF start
      <4>2. first = current - 2 \/ first = n - MaxRows + 1
        BY <4>1
      <4> HIDE DEF first, last
      <4> QED
        BY <1>1, <2>2, <2>3, <4>1, <4>2
    <3> QED
      BY <3>1, <3>2
  <2>5. first + MaxRows - 1 <= n
    BY <1>1, <2>3
  <2> HIDE DEF first, last, start
  <2>6. Len(shown) = MaxRows /\ DOMAIN shown = 1..MaxRows
    <3>1. \A i \in first..(first + MaxRows - 1) : entries[i] \in X
      BY <1>1, <2>3, <2>5
    <3>2. Len(shown) = (first + MaxRows - 1) - first + 1 /\ DOMAIN shown = 1..Len(shown)
      BY <1>1, <2>1, <2>3, <2>5, SubSeqProperties
    <3> QED
      BY <1>1, <2>3, <3>2
  <2>7. ASSUME NEW i \in 1..MaxRows PROVE d + i \in 1..n /\ shown[i] = entries[d + i]
    <3>1. d + i \in 1..n /\ first + i - 1 = d + i /\ i \in 1..((first + MaxRows - 1) - first + 1)
      BY <1>1, <2>3, <2>5
    <3>2. shown[i] = entries[first + i - 1]
      BY <1>1, <2>1, <2>3, <2>5, <3>1, SubSeqProperties
    <3> QED
      BY <3>1, <3>2
  <2>8. d \in Nat /\ current - d \in 1..MaxRows
    BY <1>1, <2>3, <2>4
  <2>9. MaxRows = IF n < MaxRows THEN n ELSE MaxRows
    BY <1>1, <1>3
  <2> HIDE DEF d, shown
  <2>10. Shows(shown, entries, current, d)
    BY <2>6, <2>7, <2>8, <2>9 DEF Shows
  <2> QED
    BY <2>8, <2>10 DEF shown
<1> QED
  BY <1>2, <1>3

\* get_leaderboard shows what a viewer is promised, for every finite history the
\* player's row is part of.
LEMMA ProjectionIsRight ==
  ASSUME NEW rows, Board(rows), NEW id, \E r \in rows : r.id = id
  PROVE  ProjectionRight(Projection(rows, id), rows, id)
<1> DEFINE n == Cardinality(rows)
           entries == Entries(rows)
           ordered == Ordered(rows)
           current == CHOOSE i \in DOMAIN entries : entries[i].row.id = id
           shown == Window(entries, current)
           room == IF n < MaxRows THEN n ELSE MaxRows
<1>1. n \in Nat /\ DOMAIN entries = 1..n /\ Len(entries) = n /\ entries \in Seq([row : rows, rank : Int])
  BY Places, EntriesRank
<1>2. \A i \in 1..n : /\ entries[i].row = ordered[i] /\ ordered[i] \in rows
                      /\ entries[i].rank = 1 + Cardinality(Better(rows, ordered[i]))
  BY EntriesRank, OrderedSorts
<1>3. current \in 1..n /\ entries[current].row.id = id
  <2>1. \E i \in DOMAIN entries : entries[i].row.id = id
    BY <1>1, <1>2, OrderedFinds
  <2> QED
    BY <1>1, <2>1
<1>4. Projection(rows, id) = [shown |-> shown, rank |-> entries[current].rank]
  BY DEF Projection
<1> HIDE DEF current, entries
<1>5. PICK d \in Nat :
        /\ DOMAIN shown = 1..room /\ Len(shown) = room
        /\ \A i \in 1..room : d + i \in 1..n /\ shown[i] = entries[d + i]
        /\ current - d \in 1..room
  <2>1. PICK d \in Nat : Shows(shown, entries, current, d)
    BY <1>1, <1>3, WindowShows
  <2> QED
    BY <1>1, <2>1 DEF Shows
<1> HIDE DEF shown
<1>6. RanksRight(shown, rows)
  <2> SUFFICES ASSUME NEW i \in 1..room
               PROVE  /\ shown[i].row \in rows
                      /\ shown[i].rank = 1 + Cardinality(Better(rows, shown[i].row))
    BY <1>5 DEF RanksRight, Better
  <2>1. d + i \in 1..n /\ shown[i] = entries[d + i]
    BY <1>5
  <2>2. /\ shown[i].row = ordered[d + i] /\ ordered[d + i] \in rows
        /\ shown[i].rank = 1 + Cardinality(Better(rows, ordered[d + i]))
    BY <1>2, <2>1
  <2> QED
    BY <2>2
<1>7. room \in Nat
  BY <1>1, RowsAssumption
<1>8. StretchOf(shown, rows)
  <2>1. ASSUME NEW i \in 1..(room - 1)
        PROVE  /\ Before(shown[i].row, shown[i + 1].row)
               /\ ~\E r \in rows : Before(shown[i].row, r) /\ Before(r, shown[i + 1].row)
    <3>0. i \in 1..room /\ i + 1 \in 1..room
      BY <1>7
    <3>1. PICK j \in 1..n : j = d + i /\ shown[i] = entries[j]
      BY ONLY <1>5, <3>0
    <3>2. PICK k \in 1..n : k = d + (i + 1) /\ shown[i + 1] = entries[k]
      BY ONLY <1>5, <3>0
    <3>3. k = j + 1 /\ j \in Int /\ k \in Int
      BY <1>7, <3>1, <3>2
    <3>4. shown[i].row = ordered[j] /\ shown[i + 1].row = ordered[k]
      BY <1>2, <3>1, <3>2
    <3>5. Before(ordered[j], ordered[k])
      BY <3>3, OrderedBefore
    <3>6. ASSUME NEW r \in rows PROVE ~(Before(ordered[j], r) /\ Before(r, ordered[k]))
      <4>1. PICK m \in 1..n : ordered[m] = r
        BY OrderedFinds
      <4>2. (Before(ordered[j], r) <=> j < m) /\ (Before(r, ordered[k]) <=> m < k)
        BY <4>1, OrderedBefore
      <4>3. ~(j < m /\ m < k)
        BY <1>1, <3>3
      <4> QED
        BY <4>2, <4>3
    <3> QED
      BY <3>4, <3>5, <3>6
  <2> HIDE DEF n
  <2> QED
    BY <1>5, <2>1 DEF StretchOf, n
<1>9. \E i \in DOMAIN shown : shown[i].row.id = id /\ shown[i].rank = entries[current].rank
  <2>1. PICK i \in 1..room : i = current - d
    BY <1>5
  <2>2. d + i = current
    BY <1>1, <1>3, <2>1
  <2>3. shown[i] = entries[current]
    BY <1>5, <2>2
  <2> QED
    BY <1>3, <1>5, <2>3
<1> QED
  BY <1>4, <1>6, <1>8, <1>9 DEF ProjectionRight

-----------------------------------------------------------------------------
(* The rows of the board *)

\* What the leaderboard page renders: the player's row, numbered 0, and the rows
\* of others, numbered from 1.
LEMMA RenderedRight ==
  ASSUME NEW others \in OtherRows, NEW mine \in Scores, NEW at \in 0..MaxOthers, NEW rows,
         rows = {[id |-> i, score |-> others[i], at |-> i] : i \in DOMAIN others}
                  \cup {[id |-> 0, score |-> mine, at |-> at]}
  PROVE  ProjectionRight(Projection(rows, 0), rows, 0)
<1>1. PICK n \in 0..MaxOthers : others \in [1..n -> Scores]
  BY DEF OtherRows
<1>2. n \in Nat /\ at \in Int /\ Scores \subseteq Int
  BY BoundsAssumption
<1> DEFINE row(i) == [id |-> i, score |-> others[i], at |-> i]
           f == [i \in 1..n |-> row(i)]
           T == {row(i) : i \in 1..n}
           own == [id |-> 0, score |-> mine, at |-> at]
<1>3. rows = T \cup {own}
  BY <1>1
<1>4. IsFiniteSet(T)
  <2>1. f \in Surjection(1..n, T)
    BY DEF Surjection
  <2>2. IsFiniteSet(1..n)
    BY <1>2, FS_Interval
  <2> HIDE DEF f, T
  <2> QED
    BY <2>1, <2>2, FS_Surjection
<1>5. IsFiniteSet(rows)
  <2> HIDE DEF T, own
  <2>1. IsFiniteSet(T \cup {own})
    BY <1>4, FS_AddElement
  <2> QED
    BY <1>3, <2>1
<1>6. \A r \in rows : r = own \/ \E i \in 1..n : r = row(i)
  BY <1>3
<1>7. rows \subseteq [id : Int, score : Int, at : Int]
  <2>1. own \in [id : Int, score : Int, at : Int]
    BY <1>2
  <2>2. ASSUME NEW i \in 1..n PROVE row(i) \in [id : Int, score : Int, at : Int]
    <3>1. others[i] \in Scores
      <4> HIDE DEF f, T, own, row
      <4> QED
        BY <1>1
    <3>2. others[i] \in Int
      BY <3>1, <1>2, Zenon
    <3>3. i \in Int
      OBVIOUS
    <3> QED
      BY <3>2, <3>3
  <2> HIDE DEF row, own
  <2> QED
    BY <1>6, <2>1, <2>2
<1>8. \A r, s \in rows : r.id = s.id => r = s
  <2>1. own.id = 0 /\ \A i \in 1..n : row(i).id = i /\ i # 0
    BY <1>2
  <2> HIDE DEF row, own
  <2> QED
    BY <1>6, <2>1
<1>9. \E r \in rows : r.id = 0
  <2>1. own.id = 0
    OBVIOUS
  <2> HIDE DEF T, own
  <2> QED
    BY <1>3, <2>1
<1> QED
  BY <1>5, <1>7, <1>8, <1>9, ProjectionIsRight DEF Board

\* The leaderboard changes only when its page is rendered.
LEMMA BoardStep == BoardIsRight /\ [Next]_vars => BoardIsRight'
<1> SUFFICES ASSUME BoardIsRight, [Next]_vars PROVE BoardIsRight'
  OBVIOUS
<1>1. CASE board' = board
  BY <1>1 DEF BoardIsRight
<1>2. CASE ShowBoard /\ board' # board
  <2>1. PICK others \in OtherRows, mine \in Scores, at \in 0..MaxOthers :
          LET rows == {[id |-> i, score |-> others[i], at |-> i] : i \in DOMAIN others}
                        \cup {[id |-> 0, score |-> mine, at |-> at]}
          IN board' = [rows |-> rows, view |-> Projection(rows, 0)]
    BY <1>2 DEF ShowBoard, Refuse, Bounce
  <2> DEFINE rows == {[id |-> i, score |-> others[i], at |-> i] : i \in DOMAIN others}
                       \cup {[id |-> 0, score |-> mine, at |-> at]}
  <2>2. board' = [rows |-> rows, view |-> Projection(rows, 0)]
    BY <2>1
  <2>3. ProjectionRight(Projection(rows, 0), rows, 0)
    BY RenderedRight
  <2> HIDE DEF rows
  <2>4. board'.rows = rows /\ board'.view = Projection(rows, 0)
    BY <2>2
  <2> QED
    BY <2>3, <2>4 DEF BoardIsRight
<1>3. ASSUME Next, ~ShowBoard PROVE board' = board
  <2>1. CASE Player \/ PromptTimer \/ RevealTimer \/ BoardTimer
    BY <2>1 DEF Player, Type, Press, PressRetry, Reload, PromptTimer, RevealTimer, BoardTimer
  <2>2. CASE \E i \in 1..2 : PollRead(i) \/ PollAnswered(i)
    BY <2>2 DEF PollRead, PollAnswered
  <2>3. CASE TimerFires \/ PostServed \/ PostAnswered \/ AttemptEnds \/ DeadlinePasses \/ ServeLate
    BY <2>3 DEF TimerFires, PostServed, PostAnswered, AttemptEnds, DeadlinePasses, ServeLate, Abandon
  <2>4. CASE ServeForm
    BY <2>4 DEF ServeForm, ServeStart, ServeLevel, ServeChallenge, ServeComplete, From, ServeRun,
       ServePrompt, ServeExit, ServeContinue, Abandon, Redirect, Bounce, Refuse
  <2>5. CASE ServeView
    BY <1>3, <2>5 DEF ServeView, ShowLevel, ShowChallenge, ShowPrompt, ShowResult, ShowPhoto,
       ShowReady, Show, ShowGenerating, Refuse
  <2> QED
    BY <1>3, <2>1, <2>2, <2>3, <2>4, <2>5 DEF Next, Work
<1>4. CASE UNCHANGED vars
  BY <1>1, <1>4 DEF vars
<1> QED
  BY <1>1, <1>2, <1>3, <1>4

-----------------------------------------------------------------------------
(* The theorems *)

\* The invariant holds when the tab is opened.
LEMMA KioskInit == Init => KioskInv
<1> SUFFICES ASSUME Init PROVE KioskInv
  OBVIOUS
<1> USE DEF Init
<1>1. Kinds
  <2>1. TypeOK
    <3>1. mishaps \in 0..MaxMishaps
      BY BoundsAssumption
    <3>2. js \in Scripts
      BY Scripted
    <3>3. /\ scene = "ready" /\ attempt = FALSE /\ failed = FALSE /\ due = "before"
          /\ text = "blank" /\ post = "none"
      OBVIOUS
    <3> HIDE DEF Init
    <3> QED
      BY <3>1, <3>2, <3>3 DEF TypeOK
  <2>2. page \in Pages /\ nav \in Navs /\ late \in {"none", "exit", "run"}
    BY Asking DEF Pages
  <2>3. polls \in [1..2 -> Polls]
    BY Polled
  <2> QED
    BY <2>1, <2>2, <2>3 DEF Kinds
<1>2. StartsReady /\ Polling /\ Awake
  BY Scripted DEF StartsReady, Polling, Awake
<1>3. Early /\ Prompting
  BY Scripted DEF Early, Prompting
<1> QED
  BY <1>1, <1>2, <1>3 DEF KioskInv

\* Every step keeps it.
LEMMA KioskStep == KioskInv /\ [Next]_vars => KioskInv'
BY KindsStep, StartsReadyStep, EarlyStep, PromptingStep, AwakeStep DEF KioskInv, AwakeParts

\* The page, its script and its requests keep to what pairs them: the strengthening
\* that the results below rest on.
THEOREM KioskInvariant == Spec => []KioskInv
BY KioskInit, KioskStep, PTL DEF Spec

\* Every variable of the tab and of the round keeps to its type, and an attempt
\* runs only in the Generating scene.
THEOREM Typed == Spec => []TypeOK
<1>1. KioskInv => TypeOK
  BY DEF KioskInv, Kinds
<1> QED
  BY <1>1, KioskInvariant, PTL

\* A script that holds the button of the Generating scene never goes to sleep,
\* in whatever order polls, timers, posts, reloads and their losses come.
THEOREM StaysAwake == Spec => []Awake
<1>1. KioskInv => Awake
  BY DEF KioskInv
<1> QED
  BY <1>1, KioskInvariant, PTL

\* Whatever the browser's clock says, the form of the prompt that meets the
\* server's deadline is never answered with an error page (submit_prompt), and
\* before it only a blank press or a timer that is early is.
THEOREM DeadlineForgives == Spec => RefusedOnlyEarly
<1>1. ASSUME KioskInv, [Next]_vars, page = "prompt", page' = "error"
      PROVE  /\ due = "before"
             /\ nav.ask = "timeout" \/ (nav.ask = "manual" /\ text = "blank")
  <2>1. Kinds /\ Prompting /\ Next
    BY <1>1 DEF KioskInv, vars
  <2>2. ~DeadlinePasses /\ ~ShowReady /\ ~Type /\ ~Press /\ ~PromptTimer
    BY <1>1 DEF DeadlinePasses, ShowReady, NewPage, Type, Press, PromptTimer, tab
  <2>3. ~ShowGenerating
    BY <1>1, <2>1, PromptFollowed DEF tab
  <2>4. PICK reason \in {"manual", "timeout"} : Asked(reason) /\ ServePrompt(reason)
    BY <1>1, <2>1, <2>2, <2>3, PromptOnly
  <2>5. ASSUME NEW scene1, NEW what, Redirect(scene1, what) PROVE FALSE
    BY <1>1, <2>5 DEF Redirect, tab
  <2> QED
    BY <1>1, <2>1, <2>4, <2>5, PromptFiled
<1>2. KioskInv /\ [Next]_vars =>
        [page = "prompt" /\ page' = "error" =>
           /\ due = "before"
           /\ nav.ask = "timeout" \/ (nav.ask = "manual" /\ text = "blank")]_vars
  BY <1>1
<1> QED
  BY <1>2, KioskInvariant, PTL DEF Spec, RefusedOnlyEarly

\* The leaderboard page shows the player's row and its neighbours with the ranks
\* that count the better rows, whoever else has completed by the time the rows are
\* listed (get_leaderboard, _ranked_leaderboard_entries, _leaderboard_window).
THEOREM BoardRight == Spec => []BoardIsRight
<1>1. Init => BoardIsRight
  BY DEF Init, BoardIsRight
<1> QED
  BY <1>1, BoardStep, PTL DEF Spec

=============================================================================
