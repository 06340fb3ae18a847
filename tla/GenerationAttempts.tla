------------------------- MODULE GenerationAttempts -------------------------
(***************************************************************************)
(* Generation attempts of GameRoundService (services/game_round.py): one   *)
(* asyncio task per POST .../generate, the provider task and the heartbeat *)
(* task it supervises, the picture the provider publishes, and the life of *)
(* the server process (shutdown, crash, restart with reconciliation).      *)
(*                                                                         *)
(* A step is the code between two points where the event loop may run      *)
(* something else, or one store transaction run in a worker thread.  A     *)
(* cancellation is pending in `cancelled' until the task meets an await    *)
(* that lets it through; the "settle" loops of the code swallow it.        *)
(***************************************************************************)
EXTENDS RoundStore

CONSTANTS RevealTime   \* _REVEAL_DURATION, in clock ticks

ASSUME RevealAssumption == RevealTime \in Nat

VARIABLES
  phase,      \* the process: "up", "closing" (service.close() runs) or "down"
  pc,         \* where the task of each attempt stands
  target,     \* the round an attempt works for
  snap,       \* the round record an attempt read
  stamp,      \* requested_at, later the timestamp of the attempt's result
  provider,   \* the provider task of each attempt
  beat,       \* the heartbeat task of each attempt
  cancelled,  \* attempts with an undelivered task.cancel()
  public      \* tokens whose picture lies in the public artifact root

taskVars == <<target, snap, stamp>>
attemptVars == <<phase, pc, target, snap, stamp, provider, beat, cancelled, public>>

Ended == {"done", "dead"}
Phases == {"up", "closing", "down"}
Points == {"idle", "read", "acquire", "acquired", "running", "finish", "commit",
           "rollback", "settle", "unwind", "unclaim"} \cup Ended

AttemptTypeOK ==
  /\ phase \in Phases
  /\ pc \in [Tokens -> Points]
  /\ target \in [Tokens -> Rounds \cup {None}]
  /\ snap \in [Tokens -> Records \cup {None}]
  /\ stamp \in [Tokens -> Nat]
  /\ provider \in [Tokens -> {"idle", "running", "success", "failure", "cancelled"}]
  /\ beat \in [Tokens -> {"off", "on", "lost"}]
  /\ cancelled \in SUBSET Tokens
  /\ public \in SUBSET Tokens

AttemptInit ==
  /\ phase = "up"
  /\ pc = [t \in Tokens |-> "idle"]
  /\ target = [t \in Tokens |-> None]
  /\ snap = [t \in Tokens |-> None]
  /\ stamp = [t \in Tokens |-> 0]
  /\ provider = [t \in Tokens |-> "idle"]
  /\ beat = [t \in Tokens |-> "off"]
  /\ cancelled = {}
  /\ public = {}

Active == {t \in Tokens : pc[t] \notin Ended \cup {"idle"}}

Referenced == {round[r].artifact : r \in {s \in Rounds : round[s] # None}} \ {None}

Goto(t, point) == pc' = [pc EXCEPT ![t] = point]

-----------------------------------------------------------------------------
(* Entering and claiming *)

\* generate_round registers the task before its first await.
Admit(t, r) ==
  /\ phase = "up" /\ pc[t] = "idle" /\ round[r] # None
  /\ target' = [target EXCEPT ![t] = r]
  /\ Goto(t, "read")
  /\ UNCHANGED <<storeVars, phase, snap, stamp, provider, beat, cancelled, public>>

\* The snapshot is read in a transaction of its own, before the claim.
ReadRound(t) ==
  /\ pc[t] = "read" /\ t \notin cancelled
  /\ IF InScene(target[t], "generating")
     THEN /\ snap' = [snap EXCEPT ![t] = round[target[t]]]
          /\ stamp' = [stamp EXCEPT ![t] = now]
          /\ Goto(t, "acquire")
     ELSE Goto(t, "done") /\ UNCHANGED <<snap, stamp>>
  /\ UNCHANGED <<storeVars, phase, target, provider, beat, cancelled, public>>

CancelRead(t) ==
  /\ pc[t] = "read" /\ t \in cancelled
  /\ Goto(t, "done")
  /\ UNCHANGED <<storeVars, phase, taskVars, provider, beat, cancelled, public>>

\* The acquisition thread is shielded: under cancellation it still runs, and a
\* claim it obtained is released.
Acquire(t) ==
  /\ pc[t] = "acquire"
  /\ \/ /\ Claimable(target[t], stamp[t])
        /\ AcquireFresh(target[t], t)
        /\ Goto(t, IF t \in cancelled THEN "unclaim" ELSE "acquired")
     \/ /\ ~Claimable(target[t], stamp[t])
        /\ Goto(t, "done")
        /\ UNCHANGED storeVars
  /\ UNCHANGED <<phase, taskVars, provider, beat, cancelled, public>>

CancelAcquired(t) ==
  /\ pc[t] = "acquired" /\ t \in cancelled
  /\ Goto(t, "unclaim")
  /\ UNCHANGED <<storeVars, phase, taskVars, provider, beat, cancelled, public>>

StartProvider(t) ==
  /\ pc[t] = "acquired" /\ t \notin cancelled
  /\ Goto(t, "running")
  /\ provider' = [provider EXCEPT ![t] = "running"]
  /\ beat' = [beat EXCEPT ![t] = "on"]
  /\ UNCHANGED <<storeVars, phase, taskVars, cancelled, public>>

-----------------------------------------------------------------------------
(* The provider and heartbeat tasks *)

ProviderEnds(t, outcome) ==
  /\ provider[t] = "running"
  /\ provider' = [provider EXCEPT ![t] = outcome]
  /\ UNCHANGED <<storeVars, phase, pc, taskVars, beat, cancelled>>

\* The pipeline publishes the picture before it is evaluated and scored.
ProviderPublishes(t) ==
  /\ provider[t] = "running" /\ pc[t] = "running" /\ t \notin public
  /\ public' = public \cup {t}
  /\ UNCHANGED <<storeVars, phase, pc, taskVars, provider, beat, cancelled>>

ProviderSucceeds(t) ==
  /\ pc[t] = "running" /\ t \in public
  /\ ProviderEnds(t, "success") /\ UNCHANGED public

\* Error, timeout or no capacity: the pipeline discards the attempt's files.
ProviderFails(t) ==
  /\ pc[t] = "running"
  /\ ProviderEnds(t, "failure") /\ public' = public \ {t}

\* Variant for mutation: after a lost heartbeat the provider is not cancelled.
ProviderCancelledInUnwind(t) ==
  /\ pc[t] = "unwind"
  /\ ProviderEnds(t, "cancelled") /\ public' = public \ {t}

\* A cancelled provider discards its files before it ends.
ProviderCancelled(t) ==
  /\ pc[t] \in {"settle", "unwind"}
  /\ ProviderEnds(t, "cancelled") /\ public' = public \ {t}

\* A renewal that finds its token gone, replaced or expired ends the heartbeat.
\* The sleep between renewals is not timed: a renewal may come at any moment.
Renew(t) ==
  /\ beat[t] = "on"
  /\ \/ RenewFresh(target[t], t) /\ UNCHANGED beat
     \/ /\ ~LiveMatch(target[t], t)
        /\ beat' = [beat EXCEPT ![t] = "lost"]
        /\ UNCHANGED storeVars
  /\ UNCHANGED <<phase, pc, taskVars, provider, cancelled, public>>

-----------------------------------------------------------------------------
(* Supervision: _run_claimed_pipeline *)

\* The wait found the heartbeat finished, whatever the provider did.
LoseHeartbeat(t) ==
  /\ pc[t] = "running" /\ beat[t] = "lost" /\ t \notin cancelled
  /\ Goto(t, "settle")
  /\ UNCHANGED <<storeVars, phase, taskVars, provider, beat, cancelled, public>>

\* Variant for mutation: the provider is not awaited.
ReleaseLostEarly(t) ==
  /\ pc[t] = "settle"
  /\ ReleaseMatching(target[t], t)
  /\ Goto(t, "done")
  /\ UNCHANGED <<phase, taskVars, provider, beat, cancelled, public>>

\* The provider is settled, then the token released; the artifact is not
\* rolled back on this path.
ReleaseLost(t) ==
  /\ pc[t] = "settle" /\ provider[t] # "running"
  /\ ReleaseMatching(target[t], t)
  /\ Goto(t, "done")
  /\ UNCHANGED <<phase, taskVars, provider, beat, cancelled, public>>

\* The wait found only the provider finished.
JoinProvider(t) ==
  /\ pc[t] = "running" /\ provider[t] \in {"success", "failure"} /\ beat[t] = "on"
  /\ t \notin cancelled
  /\ Goto(t, "finish")
  /\ UNCHANGED <<storeVars, phase, taskVars, provider, beat, cancelled, public>>

\* Variant for mutation: the heartbeat goes on.
FinishHeartbeatLater(t) ==
  /\ pc[t] = "finish"
  /\ Goto(t, "commit")
  /\ stamp' = [stamp EXCEPT ![t] = now]
  /\ cancelled' = cancelled \ {t}
  /\ UNCHANGED <<storeVars, phase, target, snap, provider, beat, public>>

\* The heartbeat is cancelled and settled; a cancellation that arrives in this
\* settle loop is swallowed.  The result is then timestamped.
FinishHeartbeat(t) ==
  /\ pc[t] = "finish"
  /\ Goto(t, "commit")
  /\ beat' = [beat EXCEPT ![t] = "off"]
  /\ stamp' = [stamp EXCEPT ![t] = now]
  /\ cancelled' = cancelled \ {t}
  /\ UNCHANGED <<storeVars, phase, target, snap, provider, public>>

-----------------------------------------------------------------------------
(* Finalization: _persist_generation_success, _persist_generation_failure *)

SuccessRecord(t) ==
  [snap[t] EXCEPT !.state = "generated_reveal", !.artifact = t, !.failure = FALSE,
                  !.updated = stamp[t], !.deadline = stamp[t] + RevealTime]

FailureRecord(t) ==
  [snap[t] EXCEPT !.artifact = None, !.failure = TRUE, !.updated = stamp[t]]

\* Variant for mutation: a cancellation rolls back whatever the commit did.
CommitSuccessCancelled(t) ==
  /\ pc[t] = "commit" /\ provider[t] = "success"
  /\ \/ /\ ReplaceAndRelease(target[t], t, snap[t], SuccessRecord(t))
        /\ Goto(t, IF t \in cancelled THEN "unwind" ELSE "done")
     \/ /\ ~Finalizable(target[t], t, snap[t])
        /\ Goto(t, IF t \in cancelled THEN "unwind" ELSE "rollback")
        /\ UNCHANGED storeVars
  /\ UNCHANGED <<phase, taskVars, provider, beat, cancelled, public>>

\* A commit that won before the cancellation keeps its picture and its result; a
\* commit that lost is rolled back, and only a cancelled one releases its claim.
CommitSuccess(t) ==
  /\ pc[t] = "commit" /\ provider[t] = "success"
  /\ \/ /\ ReplaceAndRelease(target[t], t, snap[t], SuccessRecord(t))
        /\ Goto(t, "done")
     \/ /\ ~Finalizable(target[t], t, snap[t])
        /\ Goto(t, IF t \in cancelled THEN "unwind" ELSE "rollback")
        /\ UNCHANGED storeVars
  /\ UNCHANGED <<phase, taskVars, provider, beat, cancelled, public>>

CommitFailure(t) ==
  /\ pc[t] = "commit" /\ provider[t] = "failure"
  /\ \/ /\ ReplaceAndRelease(target[t], t, snap[t], FailureRecord(t))
        /\ Goto(t, "done")
     \/ /\ ~Finalizable(target[t], t, snap[t])
        /\ Goto(t, IF t \in cancelled THEN "unwind" ELSE "done")
        /\ UNCHANGED storeVars
  /\ UNCHANGED <<phase, taskVars, provider, beat, cancelled, public>>

\* Variant for mutation: the refused picture stays.
RollbackNothing(t) ==
  /\ pc[t] = "rollback"
  /\ Goto(t, "done")
  /\ UNCHANGED <<storeVars, phase, taskVars, provider, beat, cancelled, public>>

Rollback(t) ==
  /\ pc[t] = "rollback"
  /\ public' = public \ {t}
  /\ Goto(t, "done")
  /\ UNCHANGED <<storeVars, phase, taskVars, provider, beat, cancelled>>

-----------------------------------------------------------------------------
(* Cancellation: provider and heartbeat settle, files go, then the claim *)

CancelRun(t) ==
  /\ pc[t] = "running" /\ t \in cancelled
  /\ Goto(t, "unwind")
  /\ UNCHANGED <<storeVars, phase, taskVars, provider, beat, cancelled, public>>

\* Variant for mutation: the claim is not released.
UnwindKeepsClaim(t) ==
  /\ pc[t] = "unwind" /\ provider[t] # "running"
  /\ public' = public \ {t}
  /\ beat' = [beat EXCEPT ![t] = "off"]
  /\ Goto(t, "done")
  /\ UNCHANGED <<storeVars, phase, taskVars, provider, cancelled>>

Unwind(t) ==
  /\ pc[t] = "unwind" /\ provider[t] # "running"
  /\ public' = public \ {t}
  /\ beat' = [beat EXCEPT ![t] = "off"]
  /\ Goto(t, "unclaim")
  /\ UNCHANGED <<storeVars, phase, taskVars, provider, cancelled>>

Unclaim(t) ==
  /\ pc[t] = "unclaim"
  /\ ReleaseMatching(target[t], t)
  /\ Goto(t, "done")
  /\ UNCHANGED <<phase, taskVars, provider, beat, cancelled, public>>

-----------------------------------------------------------------------------
(* The process *)

\* Variant for mutation: close() waits without cancelling.
ShutdownPatiently ==
  /\ phase = "up"
  /\ phase' = "closing"
  /\ UNCHANGED <<storeVars, pc, taskVars, provider, beat, cancelled, public>>

\* close(): no more admissions, every active task is cancelled once.
Shutdown ==
  /\ phase = "up"
  /\ phase' = "closing"
  /\ cancelled' = Active
  /\ UNCHANGED <<storeVars, pc, taskVars, provider, beat, public>>

\* close() returns when every attempt settled; then the database is closed.
Stop ==
  /\ phase = "closing" /\ Active = {}
  /\ phase' = "down"
  /\ UNCHANGED <<storeVars, pc, taskVars, provider, beat, cancelled, public>>

\* The process dies: tasks vanish, shelves and pictures stay.
Crash ==
  /\ phase # "down"
  /\ phase' = "down"
  /\ pc' = [t \in Tokens |-> IF t \in Active THEN "dead" ELSE pc[t]]
  /\ provider' = [t \in Tokens |-> IF provider[t] = "running" THEN "cancelled" ELSE provider[t]]
  /\ beat' = [t \in Tokens |-> IF t \in Active THEN "off" ELSE beat[t]]
  /\ cancelled' = {}
  /\ UNCHANGED <<storeVars, taskVars, public>>

\* Startup reconciles the public root with the durable rounds.
Restart ==
  /\ phase = "down"
  /\ phase' = "up"
  /\ public' = public \cap Referenced
  /\ UNCHANGED <<storeVars, pc, taskVars, provider, beat, cancelled>>

-----------------------------------------------------------------------------
TaskStep(t) ==
  \/ ReadRound(t) \/ CancelRead(t) \/ Acquire(t) \/ CancelAcquired(t) \/ StartProvider(t)
  \/ LoseHeartbeat(t) \/ ReleaseLost(t) \/ JoinProvider(t) \/ FinishHeartbeat(t)
  \/ CommitSuccess(t) \/ CommitFailure(t) \/ Rollback(t)
  \/ CancelRun(t) \/ Unwind(t) \/ Unclaim(t)

ProviderStep(t) ==
  \/ ProviderPublishes(t) \/ ProviderSucceeds(t) \/ ProviderFails(t) \/ ProviderCancelled(t)

AttemptNext ==
  \E t \in Tokens :
    \/ \E r \in Rounds : Admit(t, r)
    \/ TaskStep(t) \/ ProviderStep(t) \/ Renew(t)

=============================================================================
