----------------------- MODULE GameRoundServiceProofs -----------------------
(***************************************************************************)
(* Theorems about GameRoundService for any rounds, tokens, requests and    *)
(* durations.                                                              *)
(***************************************************************************)
EXTENDS GameRoundService, TLAPS

-----------------------------------------------------------------------------
(* Types *)

\* A record that is moved to another scene stays a record and keeps its picture,
\* unless the move drops it.
LEMMA MovedRecord ==
  ASSUME StoreTypeOK, NEW r \in Rounds, round[r] # None,
         NEW scene \in Scenes, NEW deadline \in Nat
  PROVE  /\ Moved(r, scene, deadline) \in Records
         /\ Moved(r, scene, deadline).artifact = round[r].artifact
         /\ [Moved(r, scene, deadline) EXCEPT !.artifact = None, !.failure = FALSE] \in Records
         /\ [Moved(r, scene, deadline) EXCEPT !.artifact = None, !.failure = FALSE].artifact = None
         /\ \A why \in Reasons :
              /\ [Moved(r, scene, deadline) EXCEPT !.reason = why] \in Records
              /\ [Moved(r, scene, deadline) EXCEPT !.reason = why].artifact = round[r].artifact
BY DEF StoreTypeOK, Moved, Records

\* What an attempt writes when it succeeds or fails is a record.
LEMMA OutcomeType ==
  ASSUME AttemptTypeOK, NEW t \in Tokens, snap[t] # None
  PROVE  SuccessRecord(t) \in Records /\ FailureRecord(t) \in Records
<1>1. snap[t] \in Records /\ stamp[t] \in Nat
  BY DEF AttemptTypeOK
<1>2. stamp[t] + RevealTime \in Nat
  BY <1>1, RevealAssumption
<1> QED
  BY <1>1, <1>2 DEF SuccessRecord, FailureRecord, Records, Scenes

\* The initial state is well typed.
LEMMA InitTyped == Init => TypeOK
BY DEF Init, TypeOK, StoreInit, StoreTypeOK, AttemptInit, AttemptTypeOK, RequestInit,
       NoRequests, RequestTypeOK, Phases, Points

\* An attempt past its admission has a round, and past its reading a record.
Placed ==
  \A t \in Tokens :
    /\ pc[t] # "idle" => target[t] \in Rounds
    /\ pc[t] \notin {"idle", "read"} \cup Ended => snap[t] \in Records

\* No attempt has started, so none needs a target or a snapshot.
LEMMA InitPlaced == Init => Placed
BY DEF Init, AttemptInit, Placed, Ended

\* Every request asks for a write of a record, with the picture it read or none.
LEMMA RequestAsks ==
  ASSUME StoreTypeOK, NEW q \in Requests, NEW r \in Rounds, Request(q, r)
  PROVE  /\ round[r] # None
         /\ \E new \in Records, clears \in BOOLEAN :
              Ask(q, r, new, clears) /\ new.artifact \in {round[r].artifact, None}
<1>1. round[r] # None
  BY DEF Request, ConfigureRound, ContinueChallenge, SubmitPrompt, AbandonGeneration,
     ShowResult, CompleteRound, InScene
<1>2. /\ round[r].deadline \in Nat /\ now + PromptTime \in Nat /\ now + BoardTime \in Nat
  BY <1>1, RequestTimeAssumption DEF StoreTypeOK, Records
<1>3. /\ "challenge_reveal" \in Scenes /\ "prompt_entry" \in Scenes /\ "abandoned" \in Scenes
      /\ "generating" \in Scenes /\ "result" \in Scenes /\ "leaderboard" \in Scenes
  BY DEF Scenes
<1>4. CASE ConfigureRound(q, r)
  <2> DEFINE new == Moved(r, "challenge_reveal", 0)
  <2>1. new \in Records /\ new.artifact = round[r].artifact
    BY <1>1, <1>3, MovedRecord
  <2>2. Ask(q, r, new, FALSE)
    BY <1>4 DEF ConfigureRound
  <2> QED
    BY <1>1, <2>1, <2>2
<1>5. CASE ContinueChallenge(q, r)
  <2> DEFINE new == Moved(r, "prompt_entry", now + PromptTime)
  <2>1. new \in Records /\ new.artifact = round[r].artifact
    BY <1>1, <1>2, <1>3, MovedRecord
  <2>2. Ask(q, r, new, FALSE)
    BY <1>5 DEF ContinueChallenge
  <2> QED
    BY <1>1, <2>1, <2>2
<1>6. ASSUME NEW reason \in Reasons, NEW blank \in BOOLEAN, SubmitPrompt(q, r, reason, blank)
      PROVE  \E new \in Records, clears \in BOOLEAN :
               Ask(q, r, new, clears) /\ new.artifact \in {round[r].artifact, None}
  <2>1. CASE Ask(q, r, Moved(r, "abandoned", 0), FALSE)
    <3>1. Moved(r, "abandoned", 0) \in Records /\ Moved(r, "abandoned", 0).artifact = round[r].artifact
      BY <1>1, <1>3, MovedRecord
    <3> QED
      BY <2>1, <3>1
  <2>2. ASSUME NEW why \in Reasons, Ask(q, r, [Moved(r, "generating", 0) EXCEPT !.reason = why], FALSE)
        PROVE  \E new \in Records, clears \in BOOLEAN :
                 Ask(q, r, new, clears) /\ new.artifact \in {round[r].artifact, None}
    <3> DEFINE new == [Moved(r, "generating", 0) EXCEPT !.reason = why]
    <3>1. \A w \in Reasons :
            /\ [Moved(r, "generating", 0) EXCEPT !.reason = w] \in Records
            /\ [Moved(r, "generating", 0) EXCEPT !.reason = w].artifact = round[r].artifact
      BY <1>1, <1>3, MovedRecord
    <3>2. new \in Records /\ new.artifact = round[r].artifact
      BY <3>1, Zenon
    <3> QED
      BY <2>2, <3>2
  <2> QED
    BY <1>6, <2>1, <2>2 DEF SubmitPrompt, Reasons
<1>7. CASE AbandonGeneration(q, r)
  <2> DEFINE new == [Moved(r, "abandoned", 0) EXCEPT !.artifact = None, !.failure = FALSE]
  <2>1. new \in Records /\ new.artifact = None
    BY <1>1, <1>3, MovedRecord
  <2>2. Ask(q, r, new, TRUE)
    BY <1>7 DEF AbandonGeneration
  <2> QED
    BY <1>1, <2>1, <2>2
<1>8. CASE ShowResult(q, r)
  <2> DEFINE new == Moved(r, "result", round[r].deadline)
  <2>1. new \in Records /\ new.artifact = round[r].artifact
    BY <1>1, <1>2, <1>3, MovedRecord
  <2>2. Ask(q, r, new, FALSE)
    BY <1>8 DEF ShowResult
  <2> QED
    BY <1>1, <2>1, <2>2
<1>9. CASE CompleteRound(q, r)
  <2> DEFINE new == Moved(r, "leaderboard", now + BoardTime)
  <2>1. new \in Records /\ new.artifact = round[r].artifact
    BY <1>1, <1>2, <1>3, MovedRecord
  <2>2. Ask(q, r, new, FALSE)
    BY <1>9 DEF CompleteRound
  <2> QED
    BY <1>1, <2>1, <2>2
<1> QED
  BY <1>1, <1>4, <1>5, <1>6, <1>7, <1>8, <1>9 DEF Request

\* Requests preserve the types.
LEMMA RequestTyped ==
  ASSUME TypeOK, RequestNext
  PROVE  StoreTypeOK' /\ RequestTypeOK'
<1> USE DEF TypeOK
<1>1. ASSUME NEW r \in Rounds, CreateRound(r)
      PROVE  StoreTypeOK' /\ RequestTypeOK'
  BY <1>1 DEF CreateRound, Create, StoreTypeOK, RequestTypeOK, Records, Scenes
<1>2. ASSUME NEW q \in Requests, NEW r \in Rounds, Request(q, r)
      PROVE  StoreTypeOK' /\ RequestTypeOK'
  <2>1. PICK new \in Records, clears \in BOOLEAN : round[r] # None /\ Ask(q, r, new, clears)
    BY <1>2, RequestAsks
  <2>2. [round |-> r, expected |-> round[r], new |-> new, clears |-> clears] \in Writes
    BY <2>1 DEF StoreTypeOK, Writes
  <2> QED
    BY <2>1, <2>2 DEF Ask, StoreTypeOK, RequestTypeOK, storeVars
<1>3. ASSUME NEW q \in Requests, Apply(q)
      PROVE  StoreTypeOK' /\ RequestTypeOK'
  <2>1. pending[q] \in Writes /\ pending[q].new \in Records
    BY <1>3 DEF Apply, RequestTypeOK, Writes
  <2> QED
    BY <1>3, <2>1
    DEF Apply, ReplaceIfCurrent, ReplaceAndClear, storeVars, StoreTypeOK, RequestTypeOK
<1> QED
  BY <1>1, <1>2, <1>3 DEF RequestNext

\* Tasks, providers and heartbeats preserve the types.
LEMMA AttemptTyped ==
  ASSUME TypeOK, Placed, AttemptNext
  PROVE  StoreTypeOK' /\ AttemptTypeOK' /\ Placed'
<1> USE DEF TypeOK
<1>1. StoreTypeOK /\ AttemptTypeOK
  OBVIOUS
<1>2. ASSUME NEW t \in Tokens, NEW r \in Rounds, Admit(t, r)
      PROVE  StoreTypeOK' /\ AttemptTypeOK' /\ Placed'
  BY <1>2 DEF Admit, Goto, storeVars, StoreTypeOK, AttemptTypeOK, Placed, Points, Ended
<1>3. ASSUME NEW t \in Tokens, TaskStep(t)
      PROVE  StoreTypeOK' /\ AttemptTypeOK' /\ Placed'
  <2> USE DEF Goto, storeVars, taskVars, StoreTypeOK, AttemptTypeOK, Placed, Points, Ended
  <2>1. CASE ReadRound(t)
    BY <2>1 DEF ReadRound, InScene
  <2>2. CASE CancelRead(t)
    BY <2>2 DEF CancelRead
  <2>3. CASE Acquire(t)
    <3>1. [token |-> t, expires |-> now + Lease] \in Claims
      BY TimeAssumption DEF Claims
    <3> QED
      BY <2>3, <3>1 DEF Acquire, AcquireFresh
  <2>4. CASE CancelAcquired(t)
    BY <2>4 DEF CancelAcquired
  <2>5. CASE StartProvider(t)
    BY <2>5 DEF StartProvider
  <2>6. CASE LoseHeartbeat(t)
    BY <2>6 DEF LoseHeartbeat
  <2>7. CASE ReleaseLost(t)
    BY <2>7 DEF ReleaseLost, ReleaseMatching
  <2>8. CASE JoinProvider(t)
    BY <2>8 DEF JoinProvider
  <2>9. CASE FinishHeartbeat(t)
    BY <2>9 DEF FinishHeartbeat
  <2>10. CASE CommitSuccess(t)
    <3>1. SuccessRecord(t) \in Records
      BY <2>10, OutcomeType, NoneAssumption DEF CommitSuccess
    <3> QED
      BY <2>10, <3>1 DEF CommitSuccess, ReplaceAndRelease
  <2>11. CASE CommitFailure(t)
    <3>1. FailureRecord(t) \in Records
      BY <2>11, OutcomeType, NoneAssumption DEF CommitFailure
    <3> QED
      BY <2>11, <3>1 DEF CommitFailure, ReplaceAndRelease
  <2>12. CASE Rollback(t)
    BY <2>12 DEF Rollback
  <2>13. CASE CancelRun(t)
    BY <2>13 DEF CancelRun
  <2>14. CASE Unwind(t)
    BY <2>14 DEF Unwind
  <2>15. CASE Unclaim(t)
    BY <2>15 DEF Unclaim, ReleaseMatching
  <2> QED
    BY <1>3, <2>1, <2>2, <2>3, <2>4, <2>5, <2>6, <2>7, <2>8, <2>9, <2>10, <2>11, <2>12,
       <2>13, <2>14, <2>15 DEF TaskStep
<1>4. ASSUME NEW t \in Tokens, ProviderStep(t)
      PROVE  StoreTypeOK' /\ AttemptTypeOK' /\ Placed'
  BY <1>4 DEF ProviderStep, ProviderPublishes, ProviderSucceeds, ProviderFails,
     ProviderCancelled, ProviderEnds, storeVars, taskVars, StoreTypeOK, AttemptTypeOK, Placed
<1>5. ASSUME NEW t \in Tokens, Renew(t)
      PROVE  StoreTypeOK' /\ AttemptTypeOK' /\ Placed'
  <2>1. [token |-> t, expires |-> now + Lease] \in Claims
    BY TimeAssumption DEF StoreTypeOK, Claims
  <2> QED
    BY <1>5, <2>1 DEF Renew, RenewFresh, storeVars, taskVars, StoreTypeOK, AttemptTypeOK, Placed
<1> QED
  BY <1>2, <1>3, <1>4, <1>5 DEF AttemptNext

\* So do shutdown, crash and restart.
LEMMA ProcessTyped ==
  ASSUME TypeOK, Placed, ProcessStep
  PROVE  TypeOK' /\ Placed'
<1> USE DEF TypeOK, storeVars, taskVars, StoreTypeOK, AttemptTypeOK, RequestTypeOK, Placed, Phases
<1>1. CASE Shutdown /\ UNCHANGED pending
  BY <1>1 DEF Shutdown, Active
<1>2. CASE Restart /\ UNCHANGED pending
  BY <1>2 DEF Restart
<1>3. CASE Stop /\ pending' = NoRequests
  BY <1>3 DEF Stop, NoRequests
<1>4. CASE Crash /\ pending' = NoRequests
  BY <1>4 DEF Crash, Active, NoRequests, Points, Ended
<1> QED
  BY <1>1, <1>2, <1>3, <1>4 DEF ProcessStep

\* Every state of the service is well typed, and its attempts are placed.
THEOREM Typed == Spec => [](TypeOK /\ Placed)
<1>1. Init => TypeOK /\ Placed
  BY InitTyped, InitPlaced
<1>2. TypeOK /\ Placed /\ [Next]_vars => TypeOK' /\ Placed'
  <2> SUFFICES ASSUME TypeOK, Placed, [Next]_vars PROVE TypeOK' /\ Placed'
    OBVIOUS
  <2>1. CASE Serve
    BY <2>1, RequestTyped DEF Serve, TypeOK, attemptVars, taskVars, AttemptTypeOK, Placed
  <2>2. CASE Attempt
    BY <2>2, AttemptTyped DEF Attempt, TypeOK, RequestTypeOK
  <2>3. CASE ProcessStep
    BY <2>3, ProcessTyped
  <2>4. CASE Tick /\ UNCHANGED <<attemptVars, pending>>
    BY <2>4 DEF Tick, attemptVars, taskVars, TypeOK, StoreTypeOK, AttemptTypeOK,
       RequestTypeOK, Placed
  <2>5. CASE UNCHANGED vars
    BY <2>5 DEF vars, storeVars, attemptVars, taskVars, TypeOK, StoreTypeOK, AttemptTypeOK,
       RequestTypeOK, Placed
  <2> QED
    BY <2>1, <2>2, <2>3, <2>4, <2>5 DEF Next
<1> QED
  BY <1>1, <1>2, PTL DEF Spec

-----------------------------------------------------------------------------
(* The picture of a round *)

\* No request attaches a picture: it keeps the one its snapshot had or drops it.
RequestsAddNoPicture ==
  \A q \in Requests : pending[q] # None =>
    pending[q].new.artifact \in {pending[q].expected.artifact, None}

\* From a provider's success to its commit the picture is public.
SuccessIsPublic ==
  \A t \in Tokens :
    provider[t] = "success" /\ pc[t] \in {"running", "finish", "commit"} => t \in public

\* An attempt whose picture a round carries has ended, so nothing of it will
\* roll the picture back.
WinnersEnded ==
  \A r \in Rounds : round[r] # None /\ round[r].artifact # None =>
    pc[round[r].artifact] \in Ended

\* A process that is down runs no attempt.
DownIsIdle == phase = "down" => \A t \in Tokens : pc[t] \in Ended \cup {"idle"}

\* Where the task of an attempt stands while its provider and heartbeat run.
Supervised ==
  \A t \in Tokens :
    /\ provider[t] = "running" => pc[t] \in {"running", "settle", "unwind"}
    /\ beat[t] = "on" => pc[t] \in {"running", "finish", "unwind"}

\* PictureOnDisk without sets of sets: what a round carries is public.
Shown == \A r \in Rounds : round[r] # None /\ round[r].artifact # None => round[r].artifact \in public

PictureInv ==
  /\ RequestsAddNoPicture /\ SuccessIsPublic /\ WinnersEnded
  /\ DownIsIdle /\ Supervised /\ Shown

Typing == TypeOK /\ Placed

\* Shown is PictureOnDisk round by round.
LEMMA ShownIsOnDisk == Shown <=> PictureOnDisk
BY DEF Shown, PictureOnDisk, Referenced

\* What a request does to the pictures of the rounds: nothing, or dropping one.
LEMMA RequestDropsOnly ==
  ASSUME Typing, RequestsAddNoPicture, RequestNext
  PROVE  /\ RequestsAddNoPicture'
         /\ \A r \in Rounds : round'[r] # None /\ round'[r].artifact # None =>
              round[r] # None /\ round[r].artifact = round'[r].artifact
<1> DEFINE Drops == \A r \in Rounds : round'[r] # None /\ round'[r].artifact # None =>
                      round[r] # None /\ round[r].artifact = round'[r].artifact
<1> USE DEF Typing, TypeOK
<1>1. ASSUME NEW r \in Rounds, CreateRound(r)
      PROVE  RequestsAddNoPicture' /\ Drops
  BY <1>1 DEF CreateRound, Create, RequestsAddNoPicture, StoreTypeOK
<1>2. ASSUME NEW q \in Requests, NEW r \in Rounds, Request(q, r)
      PROVE  RequestsAddNoPicture' /\ Drops
  <2>1. PICK new \in Records, clears \in BOOLEAN :
          Ask(q, r, new, clears) /\ new.artifact \in {round[r].artifact, None}
    BY <1>2, RequestAsks
  <2> QED
    BY <2>1 DEF Ask, RequestsAddNoPicture, RequestTypeOK, storeVars
<1>3. ASSUME NEW q \in Requests, Apply(q)
      PROVE  RequestsAddNoPicture' /\ Drops
  <2>1. pending[q] # None /\ pending[q] \in Writes
    BY <1>3 DEF Apply, RequestTypeOK
  <2>2. pending[q].new.artifact \in {pending[q].expected.artifact, None}
    BY <2>1 DEF RequestsAddNoPicture
  <2>3. RequestsAddNoPicture'
    BY <1>3 DEF Apply, RequestsAddNoPicture, RequestTypeOK
  <2>4. Drops
    BY <1>3, <2>1, <2>2, NoneAssumption
    DEF Apply, ReplaceIfCurrent, ReplaceAndClear, storeVars, StoreTypeOK, Writes
  <2> QED
    BY <2>3, <2>4
<1> QED
  BY <1>1, <1>2, <1>3 DEF RequestNext

\* Requests leave the attempts alone, so they preserve the invariant.
LEMMA ServePicture ==
  ASSUME Typing, PictureInv, Serve
  PROVE  PictureInv'
<1>1. /\ RequestsAddNoPicture'
      /\ \A r \in Rounds : round'[r] # None /\ round'[r].artifact # None =>
           round[r] # None /\ round[r].artifact = round'[r].artifact
  BY RequestDropsOnly DEF Serve, PictureInv
<1>2. WinnersEnded' /\ Shown'
  BY <1>1 DEF Serve, attemptVars, PictureInv, WinnersEnded, Shown
<1>3. SuccessIsPublic' /\ DownIsIdle' /\ Supervised'
  BY DEF Serve, attemptVars, PictureInv, SuccessIsPublic, DownIsIdle, Supervised
<1> QED
  BY <1>1, <1>2, <1>3 DEF PictureInv

\* A step of an attempt's task that writes no result to a round.
LEMMA QuietStepPicture ==
  ASSUME Typing, PictureInv, UNCHANGED <<round, phase, pending>>, NEW t \in Tokens,
         \/ ReadRound(t) \/ CancelRead(t) \/ Acquire(t) \/ CancelAcquired(t) \/ StartProvider(t)
         \/ LoseHeartbeat(t) \/ ReleaseLost(t) \/ JoinProvider(t) \/ FinishHeartbeat(t)
         \/ Rollback(t) \/ CancelRun(t) \/ Unwind(t) \/ Unclaim(t)
  PROVE  PictureInv'
<1> USE DEF Typing, TypeOK, AttemptTypeOK, StoreTypeOK, Goto, taskVars, Ended, Points,
            PictureInv, RequestsAddNoPicture, SuccessIsPublic, WinnersEnded, DownIsIdle,
            Supervised, Shown
<1>1. CASE ReadRound(t) \/ CancelRead(t)
  BY <1>1 DEF ReadRound, CancelRead
<1>2. CASE Acquire(t) \/ CancelAcquired(t)
  BY <1>2 DEF Acquire, CancelAcquired
<1>3. CASE StartProvider(t)
  BY <1>3 DEF StartProvider
<1>4. CASE LoseHeartbeat(t) \/ ReleaseLost(t)
  BY <1>4 DEF LoseHeartbeat, ReleaseLost
<1>5. CASE JoinProvider(t) \/ FinishHeartbeat(t)
  BY <1>5 DEF JoinProvider, FinishHeartbeat
<1>6. CASE Rollback(t)
  BY <1>6 DEF Rollback
<1>7. CASE CancelRun(t) \/ Unclaim(t)
  BY <1>7 DEF CancelRun, Unclaim
<1>8. CASE Unwind(t)
  BY <1>8 DEF Unwind
<1> QED
  BY <1>1, <1>2, <1>3, <1>4, <1>5, <1>6, <1>7, <1>8

\* A commit either gives its round a picture that is public and ends the
\* attempt, or leaves the rounds as they are, or clears the picture.
LEMMA CommitPicture ==
  ASSUME Typing, PictureInv, UNCHANGED pending, NEW t \in Tokens,
         CommitSuccess(t) \/ CommitFailure(t)
  PROVE  PictureInv'
<1> USE DEF Typing, TypeOK, AttemptTypeOK, StoreTypeOK, Goto, taskVars, Ended, Points,
            PictureInv, RequestsAddNoPicture, SuccessIsPublic, WinnersEnded, DownIsIdle,
            Supervised, Shown
<1>1. snap[t] \in Records /\ target[t] \in Rounds
  BY DEF Placed, CommitSuccess, CommitFailure
<1>2. CASE CommitSuccess(t) /\ ReplaceAndRelease(target[t], t, snap[t], SuccessRecord(t))
  <2>1. SuccessRecord(t).artifact = t
    BY <1>1 DEF SuccessRecord, Records
  <2>2. Finalizable(target[t], t, snap[t])
    BY <1>2 DEF ReplaceAndRelease
  <2>3. /\ round' = [round EXCEPT ![target[t]] = SuccessRecord(t)]
        /\ pc' = [pc EXCEPT ![t] = "done"]
        /\ UNCHANGED <<public, provider, beat, phase>>
        /\ pc[t] = "commit" /\ provider[t] = "success"
    BY <1>2, <2>2 DEF ReplaceAndRelease, CommitSuccess
  <2>4. t \in public
    BY <2>3
  <2>5. WinnersEnded'
    <3> SUFFICES ASSUME NEW r \in Rounds, round'[r] # None, round'[r].artifact # None
                 PROVE  pc'[round'[r].artifact] \in Ended
      OBVIOUS
    <3>1. CASE r = target[t]
      BY <1>1, <2>1, <2>3, <3>1
    <3>2. CASE r # target[t]
      <4>1. round'[r] = round[r] /\ round[r].artifact \in Tokens
        BY <1>1, <2>3, <3>2 DEF Records
      <4> QED
        BY <2>3, <4>1
    <3> QED
      BY <3>1, <3>2
  <2>6. Shown'
    BY <1>1, <2>1, <2>3, <2>4
  <2>7. SuccessIsPublic' /\ DownIsIdle' /\ Supervised' /\ RequestsAddNoPicture'
    BY <2>3
  <2> QED
    BY <2>5, <2>6, <2>7
<1>3. CASE CommitFailure(t) /\ ReplaceAndRelease(target[t], t, snap[t], FailureRecord(t))
  <2>1. FailureRecord(t).artifact = None
    BY <1>1 DEF FailureRecord, Records
  <2>2. /\ round' = [round EXCEPT ![target[t]] = FailureRecord(t)]
        /\ UNCHANGED <<public, provider, beat, phase>>
        /\ \E point \in {"done", "unwind"} : pc' = [pc EXCEPT ![t] = point]
        /\ pc[t] = "commit"
    BY <1>3 DEF ReplaceAndRelease, CommitFailure
  <2> QED
    BY <1>1, <2>1, <2>2
<1>4. CASE round' = round
  <2>1. /\ UNCHANGED <<public, provider, beat, phase>> /\ pc[t] = "commit"
        /\ \E point \in {"done", "unwind", "rollback"} : pc' = [pc EXCEPT ![t] = point]
    BY DEF CommitSuccess, CommitFailure
  <2> QED
    BY <1>4, <2>1
<1> QED
  BY <1>2, <1>3, <1>4 DEF CommitSuccess, CommitFailure, storeVars

\* Every step of an attempt preserves the invariant.
LEMMA AttemptPicture ==
  ASSUME Typing, PictureInv, Attempt
  PROVE  PictureInv'
<1> USE DEF Typing, TypeOK, AttemptTypeOK, StoreTypeOK, taskVars, storeVars, Ended, Points,
            PictureInv, RequestsAddNoPicture, SuccessIsPublic, WinnersEnded, DownIsIdle,
            Supervised, Shown
<1>1. PICK t \in Tokens : \/ \E r \in Rounds : Admit(t, r)
                         \/ TaskStep(t) \/ ProviderStep(t) \/ Renew(t)
  BY DEF Attempt, AttemptNext
<1>2. UNCHANGED pending
  BY DEF Attempt
<1>3. CASE \E r \in Rounds : Admit(t, r)
  BY <1>2, <1>3 DEF Admit, Goto
<1>4. CASE TaskStep(t)
  <2>1. CASE CommitSuccess(t) \/ CommitFailure(t)
    BY <1>2, <2>1, CommitPicture
  <2>2. CASE ~(CommitSuccess(t) \/ CommitFailure(t))
    <3>1. \/ ReadRound(t) \/ CancelRead(t) \/ Acquire(t) \/ CancelAcquired(t) \/ StartProvider(t)
          \/ LoseHeartbeat(t) \/ ReleaseLost(t) \/ JoinProvider(t) \/ FinishHeartbeat(t)
          \/ Rollback(t) \/ CancelRun(t) \/ Unwind(t) \/ Unclaim(t)
      BY <1>4, <2>2 DEF TaskStep
    <3>2. UNCHANGED <<round, phase>>
      BY <3>1 DEF ReadRound, CancelRead, Acquire, AcquireFresh, CancelAcquired, StartProvider,
         LoseHeartbeat, ReleaseLost, ReleaseMatching, JoinProvider, FinishHeartbeat, Rollback,
         CancelRun, Unwind, Unclaim
    <3> QED
      BY <1>2, <3>1, <3>2, QuietStepPicture
  <2> QED
    BY <2>1, <2>2
<1>5. CASE ProviderStep(t)
  <2>1. CASE ProviderPublishes(t)
    BY <1>2, <2>1 DEF ProviderPublishes
  <2>2. CASE ProviderSucceeds(t)
    BY <1>2, <2>2 DEF ProviderSucceeds, ProviderEnds
  <2>3. CASE ProviderFails(t)
    BY <1>2, <2>3 DEF ProviderFails, ProviderEnds
  <2>4. CASE ProviderCancelled(t)
    BY <1>2, <2>4 DEF ProviderCancelled, ProviderEnds
  <2> QED
    BY <1>5, <2>1, <2>2, <2>3, <2>4 DEF ProviderStep
<1>6. CASE Renew(t)
  BY <1>2, <1>6 DEF Renew, RenewFresh
<1> QED
  BY <1>1, <1>3, <1>4, <1>5, <1>6

\* A stop or a crash ends every attempt; the sweep at the next start keeps what
\* the rounds refer to.
LEMMA ProcessPicture ==
  ASSUME Typing, PictureInv, ProcessStep
  PROVE  PictureInv'
<1> USE DEF Typing, TypeOK, AttemptTypeOK, StoreTypeOK, RequestTypeOK, taskVars, storeVars, Ended,
            Points, Active, PictureInv, RequestsAddNoPicture, SuccessIsPublic, WinnersEnded,
            DownIsIdle, Supervised, Shown
<1>1. CASE Shutdown /\ UNCHANGED pending
  BY <1>1 DEF Shutdown
<1>2. CASE Restart /\ UNCHANGED pending
  <2>1. Shown'
    BY <1>2, ShownIsOnDisk DEF Restart, Referenced
  <2> QED
    BY <1>2, <2>1 DEF Restart
<1>3. CASE Stop /\ pending' = NoRequests
  BY <1>3 DEF Stop, NoRequests
<1>4. CASE Crash /\ pending' = NoRequests
  BY <1>4 DEF Crash, NoRequests
<1> QED
  BY <1>1, <1>2, <1>3, <1>4 DEF ProcessStep

\* PictureInv holds in every state.
THEOREM PictureInvariant == Spec => []PictureInv
<1>1. Init => PictureInv
  BY DEF Init, StoreInit, AttemptInit, RequestInit, NoRequests, PictureInv, RequestsAddNoPicture,
     SuccessIsPublic, WinnersEnded, DownIsIdle, Supervised, Shown
<1>2. Typing /\ PictureInv /\ [Next]_vars => PictureInv'
  <2> SUFFICES ASSUME Typing, PictureInv, [Next]_vars PROVE PictureInv'
    OBVIOUS
  <2>1. CASE Serve
    BY <2>1, ServePicture
  <2>2. CASE Attempt
    BY <2>2, AttemptPicture
  <2>3. CASE ProcessStep
    BY <2>3, ProcessPicture
  <2>4. CASE UNCHANGED <<round, attemptVars, pending>>
    BY <2>4 DEF attemptVars, PictureInv, RequestsAddNoPicture, SuccessIsPublic, WinnersEnded,
       DownIsIdle, Supervised, Shown
  <2> QED
    BY <2>1, <2>2, <2>3, <2>4 DEF Next, Tick, vars, storeVars
<1> QED
  BY <1>1, <1>2, Typed, PTL DEF Spec, Typing

\* No rollback, discard or startup sweep ever takes away the picture of a round.
THEOREM PicturesStay == Spec => []PictureOnDisk
<1>1. PictureInv => PictureOnDisk
  BY ShownIsOnDisk DEF PictureInv
<1> QED
  BY <1>1, PictureInvariant, PTL

\* An attempt that ended has neither provider nor heartbeat running.
THEOREM EndsSettled == Spec => []EndedMeansSettled
<1>1. PictureInv => EndedMeansSettled
  BY DEF PictureInv, Supervised, EndedMeansSettled, Ended
<1> QED
  BY <1>1, PictureInvariant, PTL

\* A result enters a round only under a live claim of its token.
THEOREM ResultsFenced == Spec => ResultIsFenced
<1> DEFINE A == \A r \in Rounds : LET old == Referenced IN
       round'[r] # None /\ round'[r].artifact \notin old \cup {None} =>
         /\ LiveMatch(r, round'[r].artifact)
         /\ target[round'[r].artifact] = r
         /\ provider[round'[r].artifact] = "success"
<1>1. Typing /\ PictureInv /\ [Next]_vars => A
  <2> SUFFICES ASSUME Typing, PictureInv, [Next]_vars, NEW r \in Rounds,
                      round'[r] # None, round'[r].artifact \notin Referenced \cup {None}
               PROVE  /\ LiveMatch(r, round'[r].artifact)
                      /\ target[round'[r].artifact] = r
                      /\ provider[round'[r].artifact] = "success"
    OBVIOUS
  <2>1. ~(round[r] # None /\ round[r].artifact = round'[r].artifact)
    BY DEF Referenced
  <2>2. ~Serve
    BY <2>1, RequestDropsOnly DEF Serve, PictureInv
  <2>3. ~UNCHANGED round
    BY <2>1
  <2>4. PICK t \in Tokens : CommitSuccess(t) \/ CommitFailure(t)
    BY <2>2, <2>3 DEF Next, Attempt, AttemptNext, ProcessStep, Tick, vars, storeVars,
       Admit, TaskStep, ReadRound, CancelRead, Acquire, AcquireFresh, CancelAcquired,
       StartProvider, LoseHeartbeat, ReleaseLost, ReleaseMatching, JoinProvider, FinishHeartbeat,
       Rollback, CancelRun, Unwind, Unclaim, ProviderStep, ProviderPublishes, ProviderSucceeds,
       ProviderFails, ProviderCancelled, ProviderEnds, Renew, RenewFresh, Shutdown, Restart,
       Stop, Crash
  <2>5. snap[t] \in Records /\ target[t] \in Rounds
    BY <2>4 DEF Typing, Placed, CommitSuccess, CommitFailure, Ended
  <2>6. ~CommitFailure(t)
    <3>1. FailureRecord(t).artifact = None
      BY <2>5 DEF FailureRecord, Records
    <3> QED
      BY <2>1, <2>3, <2>5, <3>1
      DEF CommitFailure, ReplaceAndRelease, storeVars, Typing, TypeOK, StoreTypeOK
  <2>7. /\ Finalizable(target[t], t, snap[t]) /\ provider[t] = "success"
        /\ round' = [round EXCEPT ![target[t]] = SuccessRecord(t)]
    BY <2>3, <2>4, <2>6 DEF CommitSuccess, ReplaceAndRelease, storeVars
  <2>8. r = target[t] /\ SuccessRecord(t).artifact = t
    BY <2>1, <2>5, <2>7 DEF SuccessRecord, Records, Typing, TypeOK, StoreTypeOK
  <2> QED
    BY <2>5, <2>7, <2>8 DEF Finalizable, Typing, TypeOK, StoreTypeOK
<1>2. Spec => [][A]_vars
  BY <1>1, Typed, PictureInvariant, PTL DEF Spec, Typing
<1> QED
  BY <1>2 DEF ResultIsFenced

=============================================================================
