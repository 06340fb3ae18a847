-------------------------- MODULE GameRoundService --------------------------
(***************************************************************************)
(* The whole of services/game_round.py on its store: requests and          *)
(* generation attempts of any number of rounds interleave, the clock runs, *)
(* and the process shuts down, crashes and restarts under them.            *)
(***************************************************************************)
EXTENDS GenerationAttempts, RoundRequests, FiniteSets

vars == <<storeVars, attemptVars, pending>>

TypeOK == StoreTypeOK /\ AttemptTypeOK /\ RequestTypeOK

Init == StoreInit /\ AttemptInit /\ RequestInit

\* Requests are served until the database is closed; a stop or a crash drops
\* those in flight.
Serve == phase # "down" /\ RequestNext /\ UNCHANGED attemptVars

Attempt == AttemptNext /\ UNCHANGED pending

ProcessStep ==
  \/ Shutdown /\ UNCHANGED pending
  \/ Restart /\ UNCHANGED pending
  \/ (Stop \/ Crash) /\ pending' = NoRequests

Next ==
  \/ Serve
  \/ Attempt
  \/ ProcessStep
  \/ Tick /\ UNCHANGED <<attemptVars, pending>>

Spec == Init /\ [][Next]_vars

(***************************************************************************)
(* Fairness.  The event loop and the worker threads run what is ready, so  *)
(* every task step, renewal and pending write happens in the end, and so   *)
(* does a cancelled provider's cleanup.  A player need not play, nothing   *)
(* need crash, and a provider left alone may run for ever: that            *)
(* provider_timeout ends it is not assumed.                                *)
(***************************************************************************)
AttemptFairness(t) ==
  /\ WF_vars(TaskStep(t) /\ UNCHANGED pending)
  /\ WF_vars(Renew(t) /\ UNCHANGED pending)
  /\ WF_vars(ProviderCancelled(t) /\ UNCHANGED pending)

FairSpec ==
  /\ Spec
  /\ \A t \in Tokens : AttemptFairness(t)
  /\ \A q \in Requests : WF_vars(phase # "down" /\ Apply(q) /\ UNCHANGED attemptVars)
  /\ WF_vars(Tick /\ UNCHANGED <<attemptVars, pending>>)
  /\ WF_vars(Stop /\ pending' = NoRequests)

-----------------------------------------------------------------------------
(* Refinement *)

Lifecycle == INSTANCE RoundLifecycle WITH
  scene <- [r \in Rounds |-> IF round[r] = None THEN None ELSE round[r].state],
  result <- [r \in Rounds |-> IF round[r] = None THEN None ELSE round[r].artifact]

\* Every round only moves along the edges of RoundStateMachine, terminal rounds
\* stay as they are, and a result appears only with the reveal: no interleaving
\* of stale requests and attempts makes the service do anything else.
RefinesLifecycle == Lifecycle!Spec

Holders == {claim[r].token : r \in {s \in Rounds : claim[s] # None}}

Fence == INSTANCE AttemptFence WITH
  holder <- [r \in Rounds |-> IF claim[r] = None THEN None ELSE claim[r].token],
  spent <- issued \ Holders,
  winner <- [r \in Rounds |-> IF round[r] = None THEN None ELSE round[r].artifact],
  closed <- {r \in Rounds : InScene(r, "abandoned")}

\* The claims fence attempts: a token ousted by expiry, abandonment or release
\* never decides its round, and no round is decided twice, also across restarts.
RefinesFence == Fence!Spec

-----------------------------------------------------------------------------
(* Safety *)

\* A round that shows a picture has it on disk: no rollback, discard or
\* startup sweep ever takes a committed picture away.
PictureOnDisk == Referenced \subseteq public

\* A picture left behind by an attempt that ended, and used by no round, can
\* only come from an attempt that lost its heartbeat after its provider had
\* succeeded, or that died with the process; every other way of ending cleans up.
OrphansAreExplained ==
  \A t \in public \ Referenced :
    pc[t] = "done" => beat[t] = "lost" /\ provider[t] = "success"

\* An attempt that has ended leaves no live claim behind, except when the round
\* changed between its snapshot and its claim, so that its result was refused
\* although its token was valid.
LiveLeftoverIsStaleSnapshot ==
  \A r \in Rounds, t \in Tokens :
    LiveMatch(r, t) /\ pc[t] = "done" => snap[t] # round[r]

\* An attempt never ends before the provider and the heartbeat it started have:
\* no task of a round outlives the request, close() or the crash that ended it.
\* (An agent process may outlive a crash: GeneratedArtifacts.)
EndedMeansSettled ==
  \A t \in Tokens : pc[t] \in Ended => provider[t] # "running" /\ beat[t] # "on"

\* A failed attempt that has ended has released its claim, whatever else
\* happened to its round.  design/code-architecture.md says so; the code does
\* not when the failure could not be recorded.
FailureReleasesClaim ==
  \A r \in Rounds, t \in Tokens :
    provider[t] = "failure" /\ pc[t] = "done" => ~LiveMatch(r, t)

\* An attempt that was fenced and has ended has removed the picture no round
\* refers to.  design/code-architecture.md says so; the code does not when the
\* loss of the heartbeat is noticed together with the provider's success.
FencedPictureRemoved ==
  \A t \in public \ Referenced : pc[t] # "done"

\* A round receives a result only from the token that holds its claim at that
\* very moment, with the lease unexpired and its own provider finished.
ResultIsFenced ==
  [][\A r \in Rounds : LET old == Referenced IN
       round'[r] # None /\ round'[r].artifact \notin old \cup {None} =>
         /\ LiveMatch(r, round'[r].artifact)
         /\ target[round'[r].artifact] = r
         /\ provider[round'[r].artifact] = "success"]_vars

\* The first submission accepted for a round is final: a second one that was
\* read before it (a double click, the timer racing the button) never replaces
\* the stored reason, and only an elapsed prompt deadline abandons a blank one.
\* What is stored is "timeout" exactly if the prompt deadline was over when the
\* submission was read, however late it is written.
SubmissionIsFinal ==
  [][\A r \in Rounds : round[r] # None =>
       /\ round[r].reason # None => round'[r].reason = round[r].reason
       /\ InScene(r, "prompt_entry") /\ round'[r].state = "abandoned"
            => now >= round[r].deadline
       /\ InScene(r, "prompt_entry") /\ round'[r].state = "generating"
            => (round'[r].reason = "timeout" <=> round'[r].updated >= round[r].deadline)]_vars

\* A claim that an attempt has left behind, by a crash or a refused commit, runs
\* out within a lease and is never prolonged: until then it is at most cleared,
\* and then another attempt may take the round over.
LeftoverLapses ==
  [][\A r \in Rounds : claim[r] # None /\ pc[claim[r].token] \in Ended =>
       /\ claim[r].expires <= now + Lease
       /\ claim'[r] \in {claim[r], None} \/ ~Live(r)]_vars

-----------------------------------------------------------------------------
(* Liveness *)

\* close() returns, even if every provider would run forever.
ShutdownCompletes == phase = "closing" ~> phase = "down"

\* A provider whose round was abandoned is stopped: the heartbeat finds out.
AbandonStopsProvider ==
  \A t \in Tokens, r \in Rounds :
    (provider[t] = "running" /\ target[t] = r /\ InScene(r, "abandoned"))
      ~> provider[t] # "running"

\* Every admitted attempt ends, unless its provider runs for ever and nothing
\* makes the attempt stop it; provider_timeout excludes that.
AttemptsEnd ==
  \A t \in Tokens :
    \/ <>[](pc[t] = "running" /\ provider[t] = "running")
    \/ t \in Active ~> pc[t] \in Ended

=============================================================================
