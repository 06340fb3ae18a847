------------------------------- MODULE Kiosk -------------------------------
(***************************************************************************)
(* One browser tab of the kiosk playing one round: the pages the HTTP      *)
(* application (server.py) renders, their scripts (templates/*.ts), and    *)
(* the requests between them.  Behind the routes the round is reduced to   *)
(* its scene, one generation attempt with its claim, and the deadline of   *)
(* the scene; RoundRequests and GenerationAttempts have the details.       *)
(*                                                                         *)
(* A navigation (form or link) replaces the page when it is answered.  A   *)
(* later one replaces an earlier one, which the server still handles, if   *)
(* it has not yet.  Fetches of a page end with it.  Browser and server     *)
(* have a clock each (deploy/README.md: kiosks are clients of a remote     *)
(* server), and nothing keeps the two together: a page that counts down to *)
(* the server's deadline may be done before it or long after it.           *)
(***************************************************************************)
EXTENDS Leaderboard

CONSTANTS
  Scores,      \* visible scores
  MaxOthers,   \* bound: completed rounds of other players
  MaxMishaps   \* bound: reloads, lost fetches and attempts that end unrecorded

ASSUME BoundsAssumption == MaxOthers \in Nat /\ MaxMishaps \in Nat /\ Scores \subseteq Nat

VARIABLES
  scene,    \* state of the durable round
  attempt,  \* whether an attempt holds a live claim
  failed,   \* pipeline_failure is recorded
  due,      \* the server's clock against the deadline of the scene
  page,     \* what the tab shows
  text,     \* what the player has typed
  js,       \* script: button held, native fallback, polling, poll timer, form submitted
  polls,    \* status requests in flight; never more than two
  post,     \* the run or retry request in flight
  nav,      \* the pending navigation
  late,     \* a form whose navigation was replaced and that the server has yet to handle
  board,    \* history: the rows of the leaderboard rendered last, and their projection
  mishaps

vars == <<scene, attempt, failed, due, page, text, js, polls, post, nav, late, board, mishaps>>

server == <<scene, attempt, failed, due>>
tab == <<page, text, js, polls, post>>

Quiet == [held |-> FALSE, fallback |-> FALSE, polling |-> FALSE, timer |-> FALSE, sent |-> FALSE]
Unread == [scene |-> "none", failed |-> FALSE]
NoPoll == [at |-> "idle", read |-> Unread, state |-> "none"]
NoNav == [at |-> "none", ask |-> "none", shown |-> Unread, read |-> Unread]
Ask(what) == [NoNav EXCEPT !.at = "sent", !.ask = what]
NoBoard == [rows |-> {}, view |-> [shown |-> <<>>, rank |-> 0]]

Init ==
  /\ scene = "ready" /\ attempt = FALSE /\ failed = FALSE /\ due = "before"
  /\ page = "ready" /\ text = "blank" /\ js = Quiet
  /\ polls = [i \in 1..2 |-> NoPoll] /\ post = "none" /\ nav = NoNav /\ late = "none"
  /\ board = NoBoard /\ mishaps = 0

-----------------------------------------------------------------------------
\* The script of the Generating scene.

\* Variant for mutation: the poller waits for an attempt to begin, not to end.
AskAgainUntilRunning(s, state) == [s EXCEPT !.timer = s.polling /\ state = "waiting"]

\* scheduleStatusPoll, after an answer that settles nothing.
AskAgain(s, state) == [s EXCEPT !.timer = s.polling]

\* readGenerationStatus sends its request only while the page polls.
AskStatus(s, q) ==
  LET i == IF q[1].at = "idle" THEN 1 ELSE 2
  IN [script |-> [s EXCEPT !.timer = FALSE],
      polls |-> IF s.polling THEN [q EXCEPT ![i] = [NoPoll EXCEPT !.at = "sent"]] ELSE q]

Stopped(s) == [s EXCEPT !.polling = FALSE, !.timer = FALSE]

\* Variant for mutation: the script stops but keeps hold of the button.
FallbackHolding(s) == [Stopped(s) EXCEPT !.fallback = TRUE]

\* showNativeFallback: the button is released and submits natively from now on.
Fallback(s) == [Stopped(s) EXCEPT !.held = FALSE, !.fallback = TRUE]

NewPage(which, script) ==
  /\ page' = which /\ js' = script /\ nav' = NoNav
  /\ polls' = [i \in 1..2 |-> NoPoll] /\ post' = "none" /\ UNCHANGED text

\* A script that holds the button and polls, with its first request.
NewBusyPage(which, request) ==
  /\ page' = which /\ nav' = NoNav /\ post' = request /\ UNCHANGED text
  /\ js' = [Quiet EXCEPT !.held = TRUE, !.polling = TRUE]
  /\ polls' = [i \in 1..2 |-> IF i = 1 THEN [NoPoll EXCEPT !.at = "sent"] ELSE NoPoll]

\* The script gives up the page for the scene as it is now.  A form that is on
\* its way loses its answer, not its effect.
ReloadScene ==
  /\ nav' = Ask("view generating")
  /\ late' = IF nav.at = "sent" /\ nav.ask \in {"exit", "run"} THEN nav.ask ELSE late

\* The template takes its layout from a record, the script its state from a
\* status that is read later.  When the two do not fit together the script
\* leaves the page alone.
LoadGenerating(record, status) ==
  CASE record.scene = "reveal" /\ status = "generated" -> NewPage("reveal", Quiet)
    [] record.scene = "generating" /\ status = "running" ->
         NewBusyPage(IF record.failed THEN "rerunning" ELSE "running", "none")
    [] record.scene = "generating" /\ status = "waiting" /\ ~record.failed ->
         NewBusyPage("waiting", "sent")
    [] record.scene = "generating" /\ status = "failure" /\ record.failed -> NewPage("failure", Quiet)
    [] record.scene \notin {"generating", "reveal"} -> NewPage("error", Quiet)
    [] OTHER -> NewPage(IF record.failed THEN "stale failure" ELSE "stale", Quiet)

Record == [scene |-> scene, failed |-> failed]

\* get_generation_status: the record first, then the claim.
Status(record) ==
  IF record.scene = "reveal" THEN "generated"
  ELSE IF record.scene # "generating" THEN "conflict"
  ELSE IF attempt THEN "running"
  ELSE IF record.failed THEN "failure" ELSE "waiting"

PollRead(i) ==
  /\ \/ /\ polls[i].at = "sent"
        /\ polls' = [polls EXCEPT ![i].at = "read", ![i].read = Record]
     \/ /\ polls[i].at = "read"
        /\ polls' = [polls EXCEPT ![i] = [NoPoll EXCEPT !.at = "answered", !.state = Status(polls[i].read)]]
  /\ UNCHANGED <<server, page, text, js, post, nav, late, board, mishaps>>

\* The answer of a status request, or none, as seen by the script.
PollAnswered(i) ==
  /\ \/ /\ polls[i].state \in {"waiting", "running"}
        /\ js' = AskAgain(js, polls[i].state) /\ UNCHANGED <<nav, late, mishaps>>
     \/ /\ polls[i].state \in {"generated", "failure", "conflict"}
        /\ js' = Stopped(js) /\ ReloadScene /\ UNCHANGED mishaps
     \/ /\ polls[i].at # "idle" /\ mishaps < MaxMishaps /\ mishaps' = mishaps + 1
        /\ js' = Fallback(js) /\ UNCHANGED <<nav, late>>
  /\ polls' = [polls EXCEPT ![i] = NoPoll]
  /\ UNCHANGED <<server, page, text, post, board>>

TimerFires ==
  /\ js.timer
  /\ LET next == AskStatus(js, polls) IN js' = next.script /\ polls' = next.polls
  /\ UNCHANGED <<server, page, text, post, nav, late, board, mishaps>>

\* An attempt starts unless the round has one or is elsewhere.
PostServed ==
  /\ post = "sent"
  /\ IF scene = "generating" /\ ~attempt
     THEN attempt' = TRUE /\ post' = "running"
     ELSE post' = "conflict" /\ UNCHANGED attempt
  /\ UNCHANGED <<scene, failed, due, page, text, js, polls, nav, late, board, mishaps>>

PostAnswered ==
  /\ \/ /\ post = "ok"
        /\ polls' = AskStatus(js, polls).polls
        /\ UNCHANGED <<js, nav, late, mishaps>>
     \/ /\ post = "conflict"
        /\ js' = Stopped(js) /\ ReloadScene /\ UNCHANGED <<polls, mishaps>>
     \/ /\ post # "none" /\ mishaps < MaxMishaps /\ mishaps' = mishaps + 1
        /\ js' = Fallback(js) /\ UNCHANGED <<polls, nav, late>>
  /\ post' = "none"
  /\ UNCHANGED <<server, page, text, board>>

-----------------------------------------------------------------------------
\* What an attempt does to whoever waits for it: the fetch, or a native request.
Settle(answer) ==
  /\ post' = IF post = "running" THEN answer ELSE post
  /\ nav' = IF nav.at # "running" THEN nav
            ELSE IF answer = "ok" THEN Ask("view generating") ELSE [nav EXCEPT !.at = "refused"]

\* The provider's result is committed, a failure is recorded, or the attempt
\* ends without either (a lost heartbeat, a stale snapshot).
AttemptEnds ==
  /\ attempt /\ attempt' = FALSE
  /\ \/ scene' = "reveal" /\ failed' = FALSE /\ due' = "before" /\ Settle("ok") /\ UNCHANGED mishaps
     \/ failed' = TRUE /\ Settle("ok") /\ UNCHANGED <<scene, due, mishaps>>
     \/ /\ mishaps < MaxMishaps /\ mishaps' = mishaps + 1
        /\ Settle("conflict") /\ UNCHANGED <<scene, failed, due>>
  /\ UNCHANGED <<page, text, js, polls, late, board>>

DeadlinePasses ==
  /\ scene \in {"prompt", "reveal", "board"} /\ due # "after"
  /\ due' = IF due = "before" THEN "at" ELSE "after"
  /\ UNCHANGED <<scene, attempt, failed, tab, nav, late, board, mishaps>>

\* Variant for mutation: at the very instant of the deadline it has not elapsed.
ElapsedStrictly == due = "after"

Elapsed == due # "before"

-----------------------------------------------------------------------------
\* Navigations: the server's answer to a form ...
Redirect(scene1, what) ==
  /\ scene' = scene1 /\ due' = "before" /\ nav' = Ask(what)
  /\ UNCHANGED <<attempt, failed, tab, late, board, mishaps>>

Bounce(what) == nav' = Ask(what) /\ UNCHANGED <<server, tab, late, board, mishaps>>
Refuse == NewPage("error", Quiet) /\ UNCHANGED <<server, late, board, mishaps>>

\* submit_prompt, for both reasons the form may carry.
ServePrompt(reason) ==
  IF scene # "prompt" \/ (~Elapsed /\ (reason = "timeout" \/ text = "blank")) THEN Refuse
  ELSE IF text = "blank" THEN Redirect("abandoned", "home")
  ELSE Redirect("generating", "view generating")

\* abandon_generation takes the claim away from the running attempt.
Abandon ==
  /\ scene' = "abandoned" /\ attempt' = FALSE
  /\ UNCHANGED <<failed, due, page, text, js, polls, board, mishaps>>

\* Variant for mutation: the claim of the running attempt is forgotten.
ServeExitLeavingClaim ==
  IF scene # "generating" THEN Refuse
  ELSE /\ scene' = "abandoned" /\ nav' = Ask("home")
       /\ UNCHANGED <<attempt, failed, due, tab, late, board, mishaps>>

ServeExit ==
  IF scene # "generating" THEN Refuse
  ELSE /\ Abandon /\ nav' = Ask("home") /\ UNCHANGED late
       /\ post' = (IF post = "running" THEN "conflict" ELSE post)

\* Variant for mutation: a deadline that has not elapsed is an error here too.
ServeContinueStrictly ==
  IF scene = "reveal" /\ Elapsed THEN Redirect("result", "view result") ELSE Refuse

ServeContinue ==
  IF scene # "reveal" THEN Refuse
  ELSE IF Elapsed THEN Redirect("result", "view result") ELSE Bounce("view generating")

\* The routes with a single outcome, and refusal from any other scene.
Asked(what) == nav.at = "sent" /\ nav.ask = what
From(expected, scene1, what) == IF scene = expected THEN Redirect(scene1, what) ELSE Refuse

ServeStart == Asked("start") /\ Redirect("level", "view level")
ServeLevel == Asked("level") /\ From("level", "challenge", "view challenge")
ServeChallenge == Asked("challenge") /\ From("challenge", "prompt", "view prompt")
ServeComplete == Asked("complete") /\ From("result", "board", "view board")

\* run and retry, when the form is submitted natively.
ServeRun ==
  /\ Asked("run")
  /\ IF scene = "generating" /\ ~attempt
     THEN /\ attempt' = TRUE /\ nav' = [nav EXCEPT !.at = "running"]
          /\ UNCHANGED <<scene, failed, due, tab, late, board, mishaps>>
     ELSE Refuse

ServeForm ==
  \/ ServeStart \/ ServeLevel \/ ServeChallenge \/ ServeComplete \/ ServeRun
  \/ \E reason \in {"manual", "timeout"} : Asked(reason) /\ ServePrompt(reason)
  \/ Asked("exit") /\ ServeExit
  \/ Asked("continue") /\ ServeContinue

\* Nobody hears the answer, so a refusal is none.
ServeLate ==
  /\ late # "none" /\ late' = "none"
  /\ IF late = "exit" /\ scene = "generating" THEN Abandon /\ Settle("conflict")
     ELSE /\ attempt' = (attempt \/ (late = "run" /\ scene = "generating"))
          /\ UNCHANGED <<scene, failed, due, tab, nav, board, mishaps>>

\* ... and to a link or redirect.  Scenes refuse a round that is elsewhere.
Show(which, expected) ==
  /\ IF scene = expected THEN NewPage(which, Quiet) ELSE NewPage("error", Quiet)
  /\ UNCHANGED <<server, late, board, mishaps>>

ShowLevel == Asked("view level") /\ Show("level", "level")
ShowChallenge == Asked("view challenge") /\ Show("challenge", "challenge")
ShowPrompt == Asked("view prompt") /\ Show("prompt", "prompt")
ShowResult == Asked("view result") /\ Show("result", "result")
ShowPhoto == Asked("view photo") /\ Show("photo", "board")
ShowReady ==
  Asked("home") /\ NewPage("ready", Quiet) /\ UNCHANGED <<server, late, board, mishaps>>

\* generating_scene reads the record, then the status, which reads the record
\* again and then the claim.
ShowGenerating ==
  \/ /\ Asked("view generating")
     /\ nav' = [nav EXCEPT !.at = "shown", !.shown = Record]
     /\ UNCHANGED <<server, tab, late, board, mishaps>>
  \/ /\ nav.at = "shown"
     /\ nav' = [nav EXCEPT !.at = "read", !.read = Record]
     /\ UNCHANGED <<server, tab, late, board, mishaps>>
  \/ /\ nav.at = "read" /\ LoadGenerating(nav.shown, Status(nav.read))
     /\ UNCHANGED <<server, late, board, mishaps>>

OtherRows == UNION {[1..n -> Scores] : n \in 0..MaxOthers}

\* The rows are listed in a second transaction: whatever other players have
\* completed by then, before or after this player.
ShowBoard ==
  /\ Asked("view board")
  /\ IF scene # "board" THEN Refuse
     ELSE IF Elapsed THEN Bounce("view photo")
     ELSE /\ \E others \in OtherRows, mine \in Scores, at \in 0..MaxOthers :
               LET rows == {[id |-> i, score |-> others[i], at |-> i] : i \in DOMAIN others}
                             \cup {[id |-> 0, score |-> mine, at |-> at]}
               IN board' = [rows |-> rows, view |-> Projection(rows, 0)]
          /\ NewPage("board", Quiet) /\ UNCHANGED <<server, late, mishaps>>

ServeView ==
  \/ ShowLevel \/ ShowChallenge \/ ShowPrompt \/ ShowResult \/ ShowPhoto \/ ShowReady
  \/ ShowGenerating \/ ShowBoard
  \/ nav.at = "refused" /\ Refuse

-----------------------------------------------------------------------------
\* The player, and the timers that act for the player.
Type ==
  /\ page = "prompt" /\ nav = NoNav /\ text' \in {"blank", "typed"} \ {text}
  /\ UNCHANGED <<server, page, js, polls, post, nav, late, board, mishaps>>

Press ==
  /\ nav = NoNav
  /\ \/ page = "ready" /\ scene = "ready" /\ nav' = Ask("start") /\ UNCHANGED js
     \/ page \in {"level", "challenge"} /\ nav' = Ask(page) /\ UNCHANGED js
     \/ page = "prompt" /\ ~js.sent /\ nav' = Ask("manual") /\ js' = [js EXCEPT !.sent = TRUE]
     \/ page = "result" /\ nav' = Ask("complete") /\ UNCHANGED js
     \/ page = "board" /\ nav' = Ask("view photo") /\ UNCHANGED js
     \/ page = "photo" /\ nav' = Ask("home") /\ UNCHANGED js
     \/ (js.fallback \/ page \in {"stale", "stale failure"}) /\ nav' = Ask("run") /\ UNCHANGED js
     \/ page \in {"failure", "rerunning", "stale failure"} /\ nav' = Ask("exit") /\ UNCHANGED js
  /\ UNCHANGED <<server, page, text, polls, post, late, board, mishaps>>

\* The intercepted retry button, which postGeneration holds from then on.
PressRetry ==
  /\ page = "failure" /\ nav = NoNav /\ ~js.held /\ ~js.fallback
  /\ LET next == AskStatus([js EXCEPT !.held = TRUE, !.polling = TRUE], polls) IN
       js' = next.script /\ polls' = next.polls
  /\ post' = "sent"
  /\ UNCHANGED <<server, page, text, nav, late, board, mishaps>>

Reload ==
  /\ page \in {"waiting", "running", "failure", "rerunning", "reveal"} /\ nav = NoNav
  /\ mishaps < MaxMishaps /\ mishaps' = mishaps + 1
  /\ nav' = Ask("view generating")
  /\ UNCHANGED <<server, tab, late, board>>

\* prompt.ts: at zero the current text goes out once, as a timeout.  The zero is
\* that of the browser's clock, wherever the server's is.
PromptTimer ==
  /\ page = "prompt" /\ ~js.sent
  /\ js' = [js EXCEPT !.sent = TRUE] /\ nav' = Ask("timeout")
  /\ UNCHANGED <<server, page, text, polls, post, late, board, mishaps>>

\* generating.ts counts five seconds from the image on; it may be done while
\* the server's deadline is still ahead.
RevealTimer ==
  /\ page = "reveal" /\ nav = NoNav /\ ~js.sent
  /\ js' = [js EXCEPT !.sent = TRUE] /\ nav' = Ask("continue")
  /\ UNCHANGED <<server, page, text, polls, post, late, board, mishaps>>

\* leaderboard.ts counts to the server's deadline, by the browser's clock too.
BoardTimer ==
  /\ page = "board" /\ nav = NoNav
  /\ nav' = Ask("view photo")
  /\ UNCHANGED <<server, tab, late, board, mishaps>>

-----------------------------------------------------------------------------
Player == Type \/ Press \/ PressRetry \/ Reload

Work ==
  \/ \E i \in 1..2 : PollRead(i) \/ PollAnswered(i)
  \/ TimerFires \/ PostServed \/ PostAnswered \/ AttemptEnds \/ DeadlinePasses
  \/ ServeForm \/ ServeLate \/ ServeView \/ PromptTimer \/ RevealTimer \/ BoardTimer

Next == Player \/ Work

Spec == Init /\ [][Next]_vars

\* Requests are answered, timers fire, images load, attempts end, time passes.
\* Nothing obliges the player to do anything.
FairSpec ==
  /\ Spec
  /\ \A i \in 1..2 : WF_vars(PollRead(i)) /\ WF_vars(PollAnswered(i))
  /\ WF_vars(TimerFires) /\ WF_vars(PostServed) /\ WF_vars(PostAnswered)
  /\ WF_vars(AttemptEnds) /\ WF_vars(DeadlinePasses)
  /\ WF_vars(ServeForm) /\ WF_vars(ServeLate) /\ WF_vars(ServeView)
  /\ WF_vars(PromptTimer) /\ WF_vars(RevealTimer) /\ WF_vars(BoardTimer)

-----------------------------------------------------------------------------
Scripts == [held : BOOLEAN, fallback : BOOLEAN, polling : BOOLEAN, timer : BOOLEAN, sent : BOOLEAN]

TypeOK ==
  /\ scene \in {"ready", "level", "challenge", "prompt", "generating", "reveal", "result",
                "board", "abandoned"}
  /\ attempt \in BOOLEAN /\ failed \in BOOLEAN /\ due \in {"before", "at", "after"}
  /\ text \in {"blank", "typed"} /\ post \in {"none", "sent", "running", "ok", "conflict"}
  /\ js \in Scripts /\ mishaps \in 0..MaxMishaps
  /\ attempt => scene = "generating"

\* A script that holds the button of the Generating scene has not gone to sleep:
\* a request, a timer or a navigation is under way that will run it again.
Awake ==
  js.held => js.timer \/ post # "none" \/ nav # NoNav \/ \E i \in 1..2 : polls[i] # NoPoll

\* The leaderboard shows the player's own row, with the rank that counts the
\* better ones, amid its neighbours.
BoardIsRight ==
  board # NoBoard => ProjectionRight(board.view, board.rows, 0)

\* A player who leaves the prompt is shown an error instead of the next scene
\* only while the server's deadline is still ahead: by pressing the button with
\* nothing typed, or by the timer of a browser whose clock is ahead of the
\* server's.  A press or a timer that meets the deadline is never refused.
RefusedOnlyEarly ==
  [][page = "prompt" /\ page' = "error" =>
       /\ due = "before"
       /\ nav.ask = "timeout" \/ (nav.ask = "manual" /\ text = "blank")]_vars

\* The attempt this page watches, which an earlier page asked for, ended without
\* a record: the status is "waiting", upon which only a new page acts.
Stranded ==
  page = "running" /\ scene = "generating" /\ ~attempt /\ ~failed

\* A script that holds the button lets go of it, or its page goes away, unless
\* the page only watches the attempt of an earlier page and that is stranded.
GenerationSettles == js.held ~> ~js.held \/ Stranded

\* design/ui-scenes.md, Generating: when the image is ready it is revealed by
\* itself.  (Or the player's exit comes too late and is refused.)
PictureRevealed == scene = "reveal" ~> page \in {"reveal", "error"}

\* The revealed picture is followed by the result, however early the browser's
\* timer fires.
RevealLeads == page = "reveal" ~> page = "result"

=============================================================================
