---------------------- MODULE GameRoundServiceRefinement ----------------------
(***************************************************************************)
(* GameRoundService implements RoundLifecycle and AttemptFence, for any    *)
(* rounds, tokens, requests and durations, and what follows on the way:    *)
(* submissions are final, and what an ended attempt may leave behind and   *)
(* for how long.                                                           *)
(***************************************************************************)
EXTENDS GameRoundServiceProofs

-----------------------------------------------------------------------------
(* The invariant *)

Early == {"level_selection", "challenge_reveal", "prompt_entry"}

\* Nothing is stored ahead of its scene: no reason before the submission and no
\* picture before the reveal.
RecordLawful(rec) ==
  /\ rec.state \in Early => rec.reason = None
  /\ rec.state \in Early \cup {"generating"} => rec.artifact = None

RoundsLawful == \A r \in Rounds : round[r] # None => RecordLawful(round[r])

\* An attempt works on a generating round without a picture.
SnapsLawful ==
  \A t \in Tokens : snap[t] # None => snap[t].state = "generating" /\ snap[t].artifact = None

\* A request in flight moves the record it read along an edge, keeps its picture
\* and a submission it carries, takes the claim away when it leaves "generating",
\* abandons a prompt only when its deadline was over, and calls its submission
\* what it was when the deadline was looked at.
WriteLawful(w, time) ==
  /\ <<w.expected.state, w.new.state>> \in Lifecycle!Edges
  /\ RecordLawful(w.expected) /\ RecordLawful(w.new)
  /\ w.new.artifact = w.expected.artifact
  /\ w.expected.reason # None => w.new.reason = w.expected.reason
  /\ w.expected.state = "generating" => w.clears
  /\ w.expected.state = "prompt_entry" /\ w.new.state = "abandoned" => time >= w.expected.deadline
  /\ w.expected.state = "prompt_entry" /\ w.new.state = "generating"
       => (w.new.reason = "timeout" <=> w.new.updated >= w.expected.deadline)

WritesLawful == \A q \in Requests : pending[q] # None => WriteLawful(pending[q], now)

\* Only a generating round has a claim, and its token works for that round.
ClaimsPlaced ==
  \A r \in Rounds : claim[r] # None =>
    /\ InScene(r, "generating")
    /\ target[claim[r].token] = r /\ claim[r].token \in issued

\* A token is written to a claim only by the acquisition of its attempt, and the
\* provider starts after it.
TokensFresh ==
  \A t \in Tokens :
    /\ pc[t] \in {"idle", "read", "acquire"} => t \notin issued
    /\ pc[t] \in {"idle", "read", "acquire", "acquired"} => provider[t] = "idle"

\* LiveLeftoverIsStaleSnapshot, from the refused commit on.
Leftovers ==
  \A r \in Rounds, t \in Tokens :
    LiveMatch(r, t) /\ pc[t] \in {"rollback", "done"} => snap[t] # round[r]

LostBeats == \A t \in Tokens : pc[t] = "settle" => beat[t] = "lost"

\* Why a picture is public at each point of its attempt.
PublicsKnown ==
  \A t \in Tokens :
    /\ t \in public /\ pc[t] # "dead" => provider[t] \in {"running", "success"}
    /\ pc[t] = "unclaim" => t \notin public
    /\ t \in public /\ pc[t] = "done" => t \in Referenced \/ beat[t] = "lost"

ServiceInv ==
  /\ RoundsLawful /\ SnapsLawful /\ WritesLawful /\ ClaimsPlaced
  /\ TokensFresh /\ Leftovers /\ LostBeats /\ PublicsKnown

\* The initial state satisfies it: there is no round, no claim, no attempt.
LEMMA InitService == Init => ServiceInv
BY NoneAssumption DEF Init, StoreInit, AttemptInit, RequestInit, NoRequests, ServiceInv, RoundsLawful,
   SnapsLawful, WritesLawful, ClaimsPlaced, TokensFresh, Leftovers, LiveMatch, Matches,
   LostBeats, PublicsKnown

-----------------------------------------------------------------------------
(* Requests *)

\* What Moved changes and what it keeps.
LEMMA MovedFields ==
  ASSUME StoreTypeOK, NEW r \in Rounds, round[r] # None, NEW scene, NEW deadline
  PROVE  /\ Moved(r, scene, deadline).state = scene
         /\ Moved(r, scene, deadline).reason = round[r].reason
         /\ Moved(r, scene, deadline).artifact = round[r].artifact
         /\ \A why : LET rec == [Moved(r, scene, deadline) EXCEPT !.reason = why] IN
              /\ rec.state = scene /\ rec.reason = why /\ rec.artifact = round[r].artifact
              /\ rec.updated = now
         /\ LET rec == [Moved(r, scene, deadline) EXCEPT !.artifact = None, !.failure = FALSE] IN
              rec.state = scene /\ rec.reason = round[r].reason /\ rec.artifact = None
BY DEF StoreTypeOK, Moved, Records

\* Every request asks for a lawful write of a record.
LEMMA RequestLawful ==
  ASSUME StoreTypeOK, RoundsLawful, NEW q \in Requests, NEW r \in Rounds, Request(q, r)
  PROVE  \E new \in Records, clears \in BOOLEAN :
           /\ Ask(q, r, new, clears)
           /\ WriteLawful([round |-> r, expected |-> round[r], new |-> new, clears |-> clears], now)
<1> DEFINE Write(new, clears) == [round |-> r, expected |-> round[r], new |-> new, clears |-> clears]
<1> DEFINE Goal == \E new \in Records, clears \in BOOLEAN :
                     Ask(q, r, new, clears) /\ WriteLawful(Write(new, clears), now)
<1> SUFFICES Goal
  OBVIOUS
<1>1. round[r] # None
  BY DEF Request, ConfigureRound, ContinueChallenge, SubmitPrompt, AbandonGeneration,
     ShowResult, CompleteRound, InScene
<1>2. /\ round[r].deadline \in Nat /\ now + PromptTime \in Nat /\ now + BoardTime \in Nat
      /\ now \in Nat /\ RecordLawful(round[r])
  BY <1>1, RequestTimeAssumption DEF StoreTypeOK, Records, RoundsLawful
<1> USE DEF InScene, WriteLawful, RecordLawful, Early, Lifecycle!Edges
<1>3. CASE ConfigureRound(q, r)
  <2> DEFINE new == Moved(r, "challenge_reveal", 0)
  <2>1. new \in Records /\ Ask(q, r, new, FALSE)
    BY <1>1, <1>3, MovedRecord DEF ConfigureRound, Scenes
  <2>2. WriteLawful(Write(new, FALSE), now)
    BY <1>1, <1>2, <1>3, MovedFields DEF ConfigureRound
  <2> QED
    BY <2>1, <2>2
<1>4. CASE ContinueChallenge(q, r)
  <2> DEFINE new == Moved(r, "prompt_entry", now + PromptTime)
  <2>1. new \in Records /\ Ask(q, r, new, FALSE)
    BY <1>1, <1>2, <1>4, MovedRecord DEF ContinueChallenge, Scenes
  <2>2. WriteLawful(Write(new, FALSE), now)
    BY <1>1, <1>2, <1>4, MovedFields DEF ContinueChallenge
  <2> QED
    BY <2>1, <2>2
<1>5. ASSUME NEW reason \in Reasons, NEW blank \in BOOLEAN, SubmitPrompt(q, r, reason, blank)
      PROVE  Goal
  <2>1. CASE now >= round[r].deadline /\ Ask(q, r, Moved(r, "abandoned", 0), FALSE)
    <3> DEFINE new == Moved(r, "abandoned", 0)
    <3>1. new \in Records
      BY <1>1, MovedRecord DEF Scenes
    <3>2. WriteLawful(Write(new, FALSE), now)
      BY <1>1, <1>2, <1>5, <2>1, MovedFields DEF SubmitPrompt
    <3> QED
      BY <2>1, <3>1, <3>2
  <2>2. ASSUME NEW why \in Reasons, Ask(q, r, [Moved(r, "generating", 0) EXCEPT !.reason = why], FALSE),
               why = "timeout" <=> now >= round[r].deadline
        PROVE  Goal
    <3> DEFINE new == [Moved(r, "generating", 0) EXCEPT !.reason = why]
    <3>1. \A w \in Reasons : [Moved(r, "generating", 0) EXCEPT !.reason = w] \in Records
      BY <1>1, MovedRecord DEF Scenes
    <3>2. new \in Records
      BY <3>1, Zenon
    <3>3. /\ new.state = "generating" /\ new.artifact = round[r].artifact /\ new.reason = why
          /\ new.updated = now
      BY <1>1, MovedFields
    <3>4. WriteLawful(Write(new, FALSE), now)
      BY <1>1, <1>2, <1>5, <2>2, <3>3 DEF SubmitPrompt
    <3> QED
      BY <2>2, <3>2, <3>4
  <2> QED
    BY <1>5, <2>1, <2>2 DEF SubmitPrompt, Reasons
<1>6. CASE AbandonGeneration(q, r)
  <2> DEFINE new == [Moved(r, "abandoned", 0) EXCEPT !.artifact = None, !.failure = FALSE]
  <2>1. new \in Records /\ Ask(q, r, new, TRUE)
    BY <1>1, <1>6, MovedRecord DEF AbandonGeneration, Scenes
  <2>2. new.state = "abandoned" /\ new.artifact = None /\ new.reason = round[r].reason
    BY <1>1, MovedFields
  <2>3. WriteLawful(Write(new, TRUE), now)
    BY <1>1, <1>2, <1>6, <2>2 DEF AbandonGeneration
  <2> QED
    BY <2>1, <2>3
<1>7. CASE ShowResult(q, r)
  <2> DEFINE new == Moved(r, "result", round[r].deadline)
  <2>1. new \in Records /\ Ask(q, r, new, FALSE)
    BY <1>1, <1>2, <1>7, MovedRecord DEF ShowResult, Scenes
  <2>2. WriteLawful(Write(new, FALSE), now)
    BY <1>1, <1>2, <1>7, MovedFields DEF ShowResult
  <2> QED
    BY <2>1, <2>2
<1>8. CASE CompleteRound(q, r)
  <2> DEFINE new == Moved(r, "leaderboard", now + BoardTime)
  <2>1. new \in Records /\ Ask(q, r, new, FALSE)
    BY <1>1, <1>2, <1>8, MovedRecord DEF CompleteRound, Scenes
  <2>2. WriteLawful(Write(new, FALSE), now)
    BY <1>1, <1>2, <1>8, MovedFields DEF CompleteRound
  <2> QED
    BY <2>1, <2>2
<1> HIDE DEF Goal
<1> QED
  BY <1>3, <1>4, <1>5, <1>6, <1>7, <1>8 DEF Request

\* A lawful write stays one while time goes on.
LEMMA WritesStayLawful ==
  ASSUME StoreTypeOK, RequestTypeOK, WritesLawful, now' \in Nat, now' >= now,
         \A q \in Requests : pending'[q] \in {pending[q], None}
  PROVE  WritesLawful'
<1> SUFFICES ASSUME NEW q \in Requests, pending'[q] # None
             PROVE  WriteLawful(pending'[q], now')
  BY DEF WritesLawful
<1>1. pending'[q] = pending[q] /\ pending[q] # None /\ WriteLawful(pending[q], now)
  BY DEF WritesLawful
<1>2. pending[q].expected.deadline \in Nat
  BY <1>1 DEF RequestTypeOK, Writes, Records
<1> QED
  BY <1>1, <1>2 DEF StoreTypeOK, WriteLawful, RecordLawful, Early, Lifecycle!Edges

\* Requests preserve the invariant.
LEMMA ServeService ==
  ASSUME Typing, PictureInv, ServiceInv, Serve
  PROVE  ServiceInv'
<1> USE DEF Typing, TypeOK
<1>1. UNCHANGED attemptVars /\ StoreTypeOK /\ RequestTypeOK
  BY DEF Serve
<1>2. ASSUME NEW r \in Rounds, CreateRound(r)
      PROVE  ServiceInv'
  <2>1. /\ round[r] = None /\ UNCHANGED <<claim, now, issued, pending>>
        /\ round' = [round EXCEPT ![r] =
             [state |-> "level_selection", updated |-> now, deadline |-> 0,
              reason |-> None, artifact |-> None, failure |-> FALSE]]
    BY <1>2 DEF CreateRound, Create
  <2>2. RoundsLawful'
    BY <2>1, <1>1 DEF ServiceInv, RoundsLawful, RecordLawful, StoreTypeOK
  <2>3. WritesLawful'
    BY <2>1, <1>1, WritesStayLawful DEF ServiceInv, StoreTypeOK
  <2>4. ClaimsPlaced'
    BY <2>1, <1>1 DEF ServiceInv, ClaimsPlaced, InScene, StoreTypeOK, attemptVars, taskVars
  <2>5. Leftovers'
    BY <2>1, <1>1
    DEF ServiceInv, Leftovers, ClaimsPlaced, InScene, LiveMatch, Live, Matches, StoreTypeOK, attemptVars
  <2>6. PublicsKnown'
    BY <2>1, <1>1, NoneAssumption DEF ServiceInv, PublicsKnown, Referenced, StoreTypeOK, attemptVars
  <2> QED
    BY <2>1, <2>2, <2>3, <2>4, <2>5, <2>6, <1>1
    DEF ServiceInv, SnapsLawful, TokensFresh, LostBeats, attemptVars, taskVars
<1>3. ASSUME NEW q \in Requests, NEW r \in Rounds, Request(q, r)
      PROVE  ServiceInv'
  <2>1. PICK new \in Records, clears \in BOOLEAN :
          /\ Ask(q, r, new, clears)
          /\ WriteLawful([round |-> r, expected |-> round[r], new |-> new, clears |-> clears], now)
    BY <1>1, <1>3, RequestLawful DEF ServiceInv
  <2> DEFINE w == [round |-> r, expected |-> round[r], new |-> new, clears |-> clears]
  <2>2. pending' = [pending EXCEPT ![q] = w] /\ UNCHANGED storeVars /\ WriteLawful(w, now)
    BY <2>1 DEF Ask
  <2> HIDE DEF w
  <2>3. WritesLawful'
    <3> SUFFICES ASSUME NEW p \in Requests, pending'[p] # None
                 PROVE  WriteLawful(pending'[p], now')
      BY DEF WritesLawful
    <3>1. WriteLawful(pending'[p], now)
      BY <1>1, <2>2 DEF ServiceInv, WritesLawful, RequestTypeOK
    <3> QED
      BY <2>2, <3>1 DEF storeVars, WriteLawful
  <2> QED
    BY <1>1, <2>2, <2>3
    DEF ServiceInv, storeVars, attemptVars, taskVars, RoundsLawful, SnapsLawful, ClaimsPlaced, InScene,
        TokensFresh, Leftovers, LiveMatch, Live, Matches, LostBeats, PublicsKnown, Referenced
<1>4. ASSUME NEW q \in Requests, Apply(q)
      PROVE  ServiceInv'
  <2> DEFINE w == pending[q]
  <2>1. w \in Writes /\ WriteLawful(w, now) /\ w.round \in Rounds /\ w.new \in Records /\ w.expected \in Records
    BY <1>1, <1>4 DEF Apply, RequestTypeOK, ServiceInv, WritesLawful, Writes
  <2>2. WritesLawful'
    <3>1. now' = now /\ now \in Nat
      BY <1>1, <1>4 DEF Apply, ReplaceIfCurrent, ReplaceAndClear, storeVars, StoreTypeOK
    <3> QED
      BY <1>1, <1>4, <3>1, WritesStayLawful DEF Apply, RequestTypeOK, ServiceInv
  <2>3. CASE UNCHANGED storeVars
    BY <1>1, <2>2, <2>3
    DEF ServiceInv, storeVars, attemptVars, taskVars, RoundsLawful, SnapsLawful, ClaimsPlaced, InScene,
        TokensFresh, Leftovers, LiveMatch, Live, Matches, LostBeats, PublicsKnown, Referenced
  <2>4. CASE ~UNCHANGED storeVars
    <3>1. /\ round[w.round] = w.expected /\ round' = [round EXCEPT ![w.round] = w.new]
          /\ claim' = (IF w.clears THEN [claim EXCEPT ![w.round] = None] ELSE claim)
          /\ UNCHANGED <<now, issued>>
      BY <1>4, <2>4, <2>1 DEF Apply, ReplaceIfCurrent, ReplaceAndClear, Writes
    <3> HIDE DEF w
    <3>2. RoundsLawful'
      BY <1>1, <2>1, <3>1 DEF ServiceInv, RoundsLawful, WriteLawful, StoreTypeOK
    <3>3. claim'[w.round] = None
      BY <1>1, <2>1, <3>1, NoneAssumption
      DEF ServiceInv, ClaimsPlaced, InScene, WriteLawful, StoreTypeOK
    <3>4. ClaimsPlaced'
      BY <1>1, <2>1, <3>1, <3>3
      DEF ServiceInv, ClaimsPlaced, InScene, StoreTypeOK, attemptVars, taskVars
    <3>5. Leftovers'
      BY <1>1, <2>1, <3>1, <3>3
      DEF ServiceInv, Leftovers, LiveMatch, Live, Matches, StoreTypeOK, attemptVars, taskVars
    <3>6. Referenced' = Referenced
      BY <1>1, <2>1, <3>1, NoneAssumption DEF Referenced, StoreTypeOK, WriteLawful
    <3> QED
      BY <1>1, <2>2, <3>1, <3>2, <3>4, <3>5, <3>6
      DEF ServiceInv, SnapsLawful, TokensFresh, LostBeats, PublicsKnown, attemptVars, taskVars, storeVars
  <2> QED
    BY <2>3, <2>4
<1> QED
  BY <1>2, <1>3, <1>4 DEF Serve, RequestNext

-----------------------------------------------------------------------------
(* Attempts *)

\* A step that writes neither a round nor a request and lets no time pass.
LEMMA RoundsKept ==
  ASSUME ServiceInv, UNCHANGED <<round, now, pending>>
  PROVE  RoundsLawful' /\ WritesLawful'
BY DEF ServiceInv, RoundsLawful, WritesLawful, WriteLawful

\* A step of an attempt's task that writes no round preserves the invariant.
LEMMA QuietStepService ==
  ASSUME Typing, PictureInv, ServiceInv, UNCHANGED pending, NEW t \in Tokens,
         \/ ReadRound(t) \/ CancelRead(t) \/ Acquire(t) \/ CancelAcquired(t) \/ StartProvider(t)
         \/ LoseHeartbeat(t) \/ ReleaseLost(t) \/ JoinProvider(t) \/ FinishHeartbeat(t)
         \/ Rollback(t) \/ CancelRun(t) \/ Unwind(t) \/ Unclaim(t)
  PROVE  ServiceInv'
<1>1. UNCHANGED <<round, now>>
  BY DEF storeVars, ReadRound, CancelRead, Acquire, AcquireFresh, CancelAcquired, StartProvider,
     LoseHeartbeat, ReleaseLost, ReleaseMatching, JoinProvider, FinishHeartbeat, Rollback,
     CancelRun, Unwind, Unclaim
<1>2. RoundsLawful' /\ WritesLawful'
  BY <1>1, RoundsKept
<1> USE DEF Typing, TypeOK, AttemptTypeOK, StoreTypeOK, Goto, taskVars, storeVars, PictureInv, Supervised,
            SnapsLawful, ClaimsPlaced, TokensFresh, Leftovers, LostBeats, PublicsKnown, InScene,
            LiveMatch, Live, Matches
<1>3. Referenced' = Referenced
  BY <1>1 DEF Referenced
<1>4. /\ SnapsLawful /\ ClaimsPlaced /\ TokensFresh /\ Leftovers /\ LostBeats /\ PublicsKnown
  BY DEF ServiceInv
<1>5. CASE ReadRound(t)
  <2>1. ASSUME round[target[t]] # None, round[target[t]].state = "generating"
        PROVE  round[target[t]].artifact = None
    BY <1>5, <2>1 DEF ReadRound, Placed, ServiceInv, RoundsLawful, RecordLawful
  <2> QED
    BY <1>1, <1>2, <1>3, <1>4, <1>5, <2>1 DEF ReadRound, ServiceInv
<1>6. CASE CancelRead(t)
  BY <1>1, <1>2, <1>3, <1>4, <1>6 DEF CancelRead, ServiceInv
<1>7. CASE Acquire(t)
  BY <1>1, <1>2, <1>3, <1>4, <1>7 DEF Acquire, AcquireFresh, Claimable, Placed, Ended, ServiceInv
<1>8. CASE CancelAcquired(t)
  BY <1>1, <1>2, <1>3, <1>4, <1>8 DEF CancelAcquired, ServiceInv
<1>9. CASE StartProvider(t)
  BY <1>1, <1>2, <1>3, <1>4, <1>9 DEF StartProvider, ServiceInv
<1>10. CASE LoseHeartbeat(t)
  BY <1>1, <1>2, <1>3, <1>4, <1>10 DEF LoseHeartbeat, ServiceInv
<1>11. CASE ReleaseLost(t)
  BY <1>1, <1>2, <1>3, <1>4, <1>11 DEF ReleaseLost, ReleaseMatching, ServiceInv
<1>12. CASE JoinProvider(t)
  BY <1>1, <1>2, <1>3, <1>4, <1>12 DEF JoinProvider, ServiceInv
<1>13. CASE FinishHeartbeat(t)
  BY <1>1, <1>2, <1>3, <1>4, <1>13 DEF FinishHeartbeat, ServiceInv
<1>14. CASE Rollback(t)
  BY <1>1, <1>2, <1>3, <1>4, <1>14 DEF Rollback, ServiceInv
<1>15. CASE CancelRun(t)
  BY <1>1, <1>2, <1>3, <1>4, <1>15 DEF CancelRun, ServiceInv
<1>16. CASE Unwind(t)
  BY <1>1, <1>2, <1>3, <1>4, <1>16 DEF Unwind, ServiceInv
<1>17. CASE Unclaim(t)
  BY <1>1, <1>2, <1>3, <1>4, <1>17 DEF Unclaim, ReleaseMatching, ServiceInv
<1> QED
  BY <1>5, <1>6, <1>7, <1>8, <1>9, <1>10, <1>11, <1>12, <1>13, <1>14, <1>15, <1>16, <1>17

\* The commits.
LEMMA CommitService ==
  ASSUME Typing, PictureInv, ServiceInv, UNCHANGED pending, NEW t \in Tokens,
         CommitSuccess(t) \/ CommitFailure(t)
  PROVE  ServiceInv'
<1> USE DEF Typing, TypeOK, AttemptTypeOK, StoreTypeOK, Goto, taskVars, storeVars, PictureInv, Supervised,
            SnapsLawful, ClaimsPlaced, TokensFresh, Leftovers, LostBeats, PublicsKnown, InScene,
            LiveMatch, Live, Matches
<1>1. snap[t] \in Records /\ target[t] \in Rounds /\ pc[t] = "commit" /\ now' = now /\ now \in Nat
  BY DEF Placed, CommitSuccess, CommitFailure, ReplaceAndRelease, Ended
<1>2. WritesLawful'
  BY <1>1, WritesStayLawful DEF ServiceInv
<1>3. /\ SnapsLawful /\ ClaimsPlaced /\ TokensFresh /\ Leftovers /\ LostBeats /\ PublicsKnown
      /\ RoundsLawful
  BY DEF ServiceInv
<1>4. CASE UNCHANGED storeVars
  <2>1. ~Finalizable(target[t], t, snap[t])
    BY <1>1, <1>4, NoneAssumption DEF CommitSuccess, CommitFailure, ReplaceAndRelease, Finalizable
  <2>2. /\ UNCHANGED <<phase, taskVars, provider, beat, cancelled, public>>
        /\ \E point \in {"rollback", "unwind", "done"} : pc' = [pc EXCEPT ![t] = point]
        /\ pc'[t] = "done" => provider[t] = "failure"
    BY <2>1 DEF CommitSuccess, CommitFailure, ReplaceAndRelease
  <2>3. Leftovers'
    BY <1>1, <1>3, <1>4, <2>1, <2>2 DEF Finalizable
  <2>4. Referenced' = Referenced
    BY <1>4 DEF Referenced
  <2> QED
    BY <1>1, <1>2, <1>3, <1>4, <2>2, <2>3, <2>4 DEF ServiceInv, RoundsLawful
<1>5. CASE ~UNCHANGED storeVars
  <2>1. PICK new \in {SuccessRecord(t), FailureRecord(t)} :
          /\ ReplaceAndRelease(target[t], t, snap[t], new)
          /\ pc' = [pc EXCEPT ![t] = "done"]
          /\ UNCHANGED <<phase, taskVars, provider, beat, cancelled, public>>
          /\ \/ new = SuccessRecord(t) /\ provider[t] = "success"
             \/ new = FailureRecord(t) /\ provider[t] = "failure"
    BY <1>5 DEF CommitSuccess, CommitFailure
  <2>2. /\ new.reason = snap[t].reason
        /\ \/ provider[t] = "success" /\ new.state = "generated_reveal" /\ new.artifact = t
           \/ provider[t] = "failure" /\ new.state = snap[t].state /\ new.artifact = None
    BY <1>1, <2>1 DEF SuccessRecord, FailureRecord, Records
  <2>3. /\ round[target[t]] = snap[t] /\ LiveMatch(target[t], t)
        /\ round' = [round EXCEPT ![target[t]] = new] /\ claim' = [claim EXCEPT ![target[t]] = None]
        /\ UNCHANGED <<now, issued>>
    BY <2>1 DEF ReplaceAndRelease, Finalizable
  <2>4. snap[t].state = "generating" /\ snap[t].artifact = None /\ snap[t] # None
    BY <1>1, <1>3, NoneAssumption
  <2>5. RoundsLawful'
    BY <1>1, <1>3, <2>2, <2>3, <2>4 DEF RoundsLawful, RecordLawful, Early
  <2>6. Referenced \subseteq Referenced' /\ (provider[t] = "success" => t \in Referenced')
    <3>1. round'[target[t]] = new /\ new # None
      BY <1>1, <2>1, <2>3, OutcomeType, <2>4, NoneAssumption
    <3>2. ASSUME NEW r \in Rounds, round[r] # None, round[r].artifact # None
          PROVE  round'[r] = round[r]
      BY <1>1, <2>3, <2>4, <3>2
    <3>3. Referenced \subseteq Referenced'
      BY <3>2 DEF Referenced
    <3>4. ASSUME provider[t] = "success" PROVE t \in Referenced'
      BY <1>1, <2>1, <2>2, <3>1, <3>4, NoneAssumption DEF Referenced
    <3> QED
      BY <3>3, <3>4
  <2>7. ClaimsPlaced' /\ Leftovers'
    BY <1>1, <1>3, <2>1, <2>3
  <2>8. PublicsKnown'
    BY <1>1, <1>3, <2>1, <2>6
  <2> QED
    BY <1>1, <1>2, <1>3, <2>1, <2>3, <2>5, <2>7, <2>8 DEF ServiceInv
<1> QED
  BY <1>4, <1>5

\* Admissions, providers and heartbeats write no round.
LEMMA AttemptService ==
  ASSUME Typing, PictureInv, ServiceInv, Attempt
  PROVE  ServiceInv'
<1> USE DEF Typing, TypeOK, AttemptTypeOK, StoreTypeOK, Goto, taskVars, storeVars, PictureInv, Supervised,
            SnapsLawful, ClaimsPlaced, TokensFresh, Leftovers, LostBeats, PublicsKnown, InScene,
            LiveMatch, Live, Matches
<1>1. PICK t \in Tokens : \/ \E r \in Rounds : Admit(t, r)
                         \/ TaskStep(t) \/ ProviderStep(t) \/ Renew(t)
  BY DEF Attempt, AttemptNext
<1>2. UNCHANGED pending
  BY DEF Attempt
<1>3. CASE CommitSuccess(t) \/ CommitFailure(t)
  BY <1>2, <1>3, CommitService
<1>4. CASE TaskStep(t) /\ ~(CommitSuccess(t) \/ CommitFailure(t))
  BY <1>2, <1>4, QuietStepService DEF TaskStep
<1>5. CASE (\E r \in Rounds : Admit(t, r)) \/ ProviderStep(t) \/ Renew(t)
  <2>1. UNCHANGED <<round, now>>
    BY <1>5 DEF Admit, ProviderStep, ProviderPublishes, ProviderSucceeds, ProviderFails,
       ProviderCancelled, ProviderEnds, Renew, RenewFresh
  <2>2. RoundsLawful' /\ WritesLawful' /\ Referenced' = Referenced
    BY <1>2, <2>1, RoundsKept DEF Referenced
  <2>3. /\ SnapsLawful /\ ClaimsPlaced /\ TokensFresh /\ Leftovers /\ LostBeats /\ PublicsKnown
    BY DEF ServiceInv
  <2>4. CASE \E r \in Rounds : Admit(t, r)
    BY <2>1, <2>2, <2>3, <2>4 DEF Admit, ServiceInv
  <2>5. CASE ProviderStep(t)
    BY <2>1, <2>2, <2>3, <2>5 DEF ProviderStep, ProviderPublishes, ProviderSucceeds, ProviderFails,
       ProviderCancelled, ProviderEnds, ServiceInv
  <2>6. CASE Renew(t)
    BY <2>1, <2>2, <2>3, <2>6 DEF Renew, RenewFresh, ServiceInv
  <2> QED
    BY <1>5, <2>4, <2>5, <2>6
<1> QED
  BY <1>1, <1>3, <1>4, <1>5

\* Shutdown, stop, crash and restart write neither rounds nor claims.
LEMMA ProcessService ==
  ASSUME Typing, PictureInv, ServiceInv, ProcessStep
  PROVE  ServiceInv'
<1> USE DEF Typing, TypeOK, AttemptTypeOK, StoreTypeOK, RequestTypeOK, taskVars, storeVars
<1>1. UNCHANGED storeVars /\ UNCHANGED taskVars /\ (pending' = pending \/ pending' = NoRequests)
  BY DEF ProcessStep, Shutdown, Restart, Stop, Crash
<1>2. WritesLawful' /\ Referenced' = Referenced
  BY <1>1, WritesStayLawful DEF ServiceInv, NoRequests, Referenced
<1>3. \A t \in Tokens : /\ pc'[t] \in {pc[t], "dead"} /\ provider'[t] \in {provider[t], "cancelled"}
                        /\ pc'[t] # pc[t] => pc[t] \notin Ended \cup {"idle"}
                        /\ pc'[t] = pc[t] => provider'[t] = provider[t] /\ beat'[t] = beat[t]
  BY DEF ProcessStep, Shutdown, Restart, Stop, Crash, Active, Ended, PictureInv, Supervised
<1>4. public' \subseteq public
  BY DEF ProcessStep, Shutdown, Restart, Stop, Crash
<1> QED
  BY <1>1, <1>2, <1>3, <1>4
  DEF ServiceInv, RoundsLawful, SnapsLawful, ClaimsPlaced, TokensFresh, Leftovers, LostBeats,
      PublicsKnown, InScene, LiveMatch, Live, Matches, Ended

\* ServiceInv holds in every state.
THEOREM ServiceInvariant == Spec => []ServiceInv
<1>1. Typing /\ PictureInv /\ ServiceInv /\ [Next]_vars => ServiceInv'
  <2> SUFFICES ASSUME Typing, PictureInv, ServiceInv, [Next]_vars PROVE ServiceInv'
    OBVIOUS
  <2>1. CASE Serve
    BY <2>1, ServeService
  <2>2. CASE Attempt
    BY <2>2, AttemptService
  <2>3. CASE ProcessStep
    BY <2>3, ProcessService
  <2>4. CASE Tick /\ UNCHANGED <<attemptVars, pending>>
    <3>1. WritesLawful'
      BY <2>4, WritesStayLawful DEF Tick, Typing, TypeOK, StoreTypeOK, ServiceInv
    <3> QED
      BY <2>4, <3>1 DEF Tick, attemptVars, taskVars, ServiceInv, RoundsLawful, SnapsLawful,
         ClaimsPlaced, InScene, TokensFresh, Leftovers, LiveMatch, Live, Matches, LostBeats,
         PublicsKnown, Referenced, Typing, TypeOK, StoreTypeOK, Claims
  <2>5. CASE UNCHANGED vars
    BY <2>5 DEF vars, storeVars, attemptVars, taskVars, ServiceInv, RoundsLawful, SnapsLawful, WritesLawful,
       WriteLawful, ClaimsPlaced, InScene, TokensFresh, Leftovers, LiveMatch, Live, Matches, LostBeats,
       PublicsKnown, Referenced
  <2> QED
    BY <2>1, <2>2, <2>3, <2>4, <2>5 DEF Next
<1> QED
  BY <1>1, InitService, Typed, PictureInvariant, PTL DEF Spec, Typing

-----------------------------------------------------------------------------
(* What an ended attempt leaves behind *)

\* Every picture an ended attempt left and no round shows is explained by a
\* heartbeat that was lost after the provider had succeeded (OrphansAreExplained).
THEOREM OrphansExplained == Spec => []OrphansAreExplained
<1>1. Typing /\ PictureInv /\ ServiceInv => OrphansAreExplained
  BY DEF Typing, TypeOK, AttemptTypeOK, PictureInv, Supervised, ServiceInv, PublicsKnown, OrphansAreExplained
<1> QED
  BY <1>1, Typed, PictureInvariant, ServiceInvariant, PTL DEF Typing

\* A live claim that an ended attempt left protects a round that changed since
\* the attempt read it (LiveLeftoverIsStaleSnapshot).
THEOREM LeftoversExplained == Spec => []LiveLeftoverIsStaleSnapshot
<1>1. ServiceInv => LiveLeftoverIsStaleSnapshot
  BY DEF ServiceInv, Leftovers, LiveLeftoverIsStaleSnapshot
<1> QED
  BY <1>1, ServiceInvariant, PTL

-----------------------------------------------------------------------------
(* What a step does to the rounds *)

Begun == [state |-> "level_selection", updated |-> now, deadline |-> 0,
          reason |-> None, artifact |-> None, failure |-> FALSE]

\* A round is created.
BegunStep ==
  \E r \in Rounds : /\ round[r] = None /\ round' = [round EXCEPT ![r] = Begun]
                    /\ UNCHANGED <<claim, issued>>

\* A request's write is applied.
WrittenStep ==
  \E w \in Writes : /\ WriteLawful(w, now) /\ round[w.round] = w.expected
                    /\ round' = [round EXCEPT ![w.round] = w.new]
                    /\ claim' = IF w.clears THEN [claim EXCEPT ![w.round] = None] ELSE claim
                    /\ UNCHANGED issued

\* An attempt commits under its claim.
CommittedStep ==
  \E t \in Tokens : /\ target[t] \in Rounds /\ snap[t] \in Records
                    /\ round[target[t]] = snap[t] /\ LiveMatch(target[t], t)
                    /\ \/ round' = [round EXCEPT ![target[t]] = SuccessRecord(t)]
                       \/ round' = [round EXCEPT ![target[t]] = FailureRecord(t)]
                    /\ claim' = [claim EXCEPT ![target[t]] = None]
                    /\ UNCHANGED issued

\* Nothing else touches the rounds.
LEMMA RoundStep ==
  ASSUME Typing, ServiceInv, [Next]_vars
  PROVE  UNCHANGED round \/ BegunStep \/ WrittenStep \/ CommittedStep
<1>1. ASSUME NEW r \in Rounds, CreateRound(r) PROVE BegunStep
  BY <1>1 DEF CreateRound, Create, Begun, BegunStep
<1>2. ASSUME NEW q \in Requests, NEW r \in Rounds, Request(q, r) PROVE UNCHANGED round
  <2>1. \E new \in Records, clears \in BOOLEAN : Ask(q, r, new, clears)
    BY <1>2, RequestLawful DEF Typing, TypeOK, ServiceInv
  <2> QED
    BY <2>1 DEF Ask, storeVars
<1>3. ASSUME NEW q \in Requests, Apply(q) PROVE UNCHANGED round \/ WrittenStep
  <2> DEFINE w == pending[q]
  <2>1. w \in Writes /\ WriteLawful(w, now) /\ w.clears \in BOOLEAN
    BY <1>3 DEF Apply, Typing, TypeOK, RequestTypeOK, ServiceInv, WritesLawful, Writes
  <2>2. \/ UNCHANGED round
        \/ /\ round[w.round] = w.expected
           /\ round' = [round EXCEPT ![w.round] = w.new]
           /\ claim' = IF w.clears THEN [claim EXCEPT ![w.round] = None] ELSE claim
           /\ UNCHANGED issued
    BY <1>3, <2>1 DEF Apply, ReplaceIfCurrent, ReplaceAndClear, storeVars
  <2> QED
    BY <2>1, <2>2 DEF WrittenStep
<1>4. ASSUME NEW t \in Tokens, CommitSuccess(t) \/ CommitFailure(t)
      PROVE  UNCHANGED round \/ CommittedStep
  <2>1. target[t] \in Rounds /\ snap[t] \in Records
    BY <1>4 DEF Typing, Placed, CommitSuccess, CommitFailure, Ended
  <2> QED
    BY <1>4, <2>1 DEF CommitSuccess, CommitFailure, ReplaceAndRelease, Finalizable, storeVars, CommittedStep
<1>5. ASSUME NEW t \in Tokens, TaskStep(t), ~(CommitSuccess(t) \/ CommitFailure(t))
      PROVE  UNCHANGED round
  BY <1>5 DEF TaskStep, storeVars, ReadRound, CancelRead, Acquire, AcquireFresh, CancelAcquired, StartProvider,
     LoseHeartbeat, ReleaseLost, ReleaseMatching, JoinProvider, FinishHeartbeat, Rollback,
     CancelRun, Unwind, Unclaim
<1>6. ASSUME NEW t \in Tokens, (\E r \in Rounds : Admit(t, r)) \/ ProviderStep(t) \/ Renew(t)
      PROVE  UNCHANGED round
  BY <1>6 DEF storeVars, Admit, ProviderStep, ProviderPublishes, ProviderSucceeds, ProviderFails,
     ProviderCancelled, ProviderEnds, Renew, RenewFresh
<1>7. ASSUME ProcessStep \/ Tick \/ UNCHANGED vars PROVE UNCHANGED round
  BY <1>7 DEF ProcessStep, Shutdown, Restart, Stop, Crash, Tick, vars, storeVars
<1>8. CASE Serve
  BY <1>1, <1>2, <1>3, <1>8 DEF Serve, RequestNext
<1>9. CASE Attempt
  BY <1>4, <1>5, <1>6, <1>9 DEF Attempt, AttemptNext
<1> QED
  BY <1>7, <1>8, <1>9 DEF Next

\* A stored submission is never replaced, is labelled by the deadline it met, and
\* only an elapsed prompt deadline abandons a prompt (SubmissionIsFinal).
THEOREM SubmissionsFinal == Spec => SubmissionIsFinal
<1> DEFINE Kept(r) ==
       /\ round[r].reason # None => round'[r].reason = round[r].reason
       /\ InScene(r, "prompt_entry") /\ round'[r].state = "abandoned" => now >= round[r].deadline
       /\ InScene(r, "prompt_entry") /\ round'[r].state = "generating"
            => (round'[r].reason = "timeout" <=> round'[r].updated >= round[r].deadline)
<1>1. Typing /\ ServiceInv /\ [Next]_vars => \A r \in Rounds : round[r] # None => Kept(r)
  <2> SUFFICES ASSUME Typing, ServiceInv, [Next]_vars, NEW r \in Rounds, round[r] # None
               PROVE  Kept(r)
    OBVIOUS
  <2> USE DEF Typing, TypeOK, StoreTypeOK, InScene
  <2>1. CASE UNCHANGED round \/ BegunStep
    BY <2>1 DEF BegunStep
  <2>2. CASE WrittenStep
    BY <2>2 DEF WrittenStep, WriteLawful, Writes
  <2>3. CASE CommittedStep
    <3>0. PICK t \in Tokens :
            /\ target[t] \in Rounds /\ snap[t] \in Records /\ round[target[t]] = snap[t]
            /\ \/ round' = [round EXCEPT ![target[t]] = SuccessRecord(t)]
               \/ round' = [round EXCEPT ![target[t]] = FailureRecord(t)]
      BY <2>3 DEF CommittedStep
    <3>1. PICK new \in {SuccessRecord(t), FailureRecord(t)} : round' = [round EXCEPT ![target[t]] = new]
      BY <3>0
    <3>2. new.reason = snap[t].reason /\ new.state \in {"generated_reveal", snap[t].state}
      BY <3>0, <3>1 DEF SuccessRecord, FailureRecord, Records
    <3>3. snap[t] # None => snap[t].state = "generating"
      BY DEF ServiceInv, SnapsLawful
    <3> QED
      BY <3>0, <3>1, <3>2, <3>3
  <2> QED
    BY <2>1, <2>2, <2>3, RoundStep
<1>2. Spec => [][\A r \in Rounds : round[r] # None => Kept(r)]_vars
  BY <1>1, Typed, ServiceInvariant, PTL DEF Spec, Typing
<1> QED
  BY <1>2 DEF SubmissionIsFinal

-----------------------------------------------------------------------------
(* How long a claim that was left behind stays *)

\* An acquisition takes the place of a claim that is not live, a renewal prolongs
\* the claim of a heartbeat that runs.
Taken(r, t) == Acquire(t) /\ target[t] = r /\ ~Live(r)
Prolonged(r, t) == Renew(t) /\ beat[t] = "on" /\ Matches(r, t)

ClaimRule(r) ==
  /\ now' \in Nat /\ now' >= now
  /\ \/ claim'[r] \in {claim[r], None}
     \/ \E t \in Tokens : /\ Taken(r, t) \/ Prolonged(r, t)
                         /\ claim'[r] = [token |-> t, expires |-> now + Lease]

\* No other step writes a claim, and the clock is never turned back.
LEMMA ClaimWritten ==
  ASSUME Typing, PictureInv, ServiceInv, [Next]_vars, NEW r \in Rounds
  PROVE  ClaimRule(r)
<1>1. ASSUME NEW t \in Tokens, Acquire(t) PROVE ClaimRule(r)
  BY <1>1 DEF ClaimRule, Typing, TypeOK, StoreTypeOK, Acquire, AcquireFresh, Claimable, Taken,
     storeVars
<1>2. ASSUME NEW t \in Tokens, Renew(t) PROVE ClaimRule(r)
  BY <1>2 DEF ClaimRule, Typing, TypeOK, StoreTypeOK, Renew, RenewFresh, LiveMatch, Matches,
     Prolonged, storeVars
<1>3. ASSUME NEW t \in Tokens, ReleaseLost(t) \/ Unclaim(t) \/ CommitSuccess(t) \/ CommitFailure(t)
      PROVE  ClaimRule(r)
  BY <1>3 DEF ClaimRule, Typing, TypeOK, StoreTypeOK, ReleaseLost, Unclaim, ReleaseMatching,
     CommitSuccess, CommitFailure, ReplaceAndRelease, storeVars
<1>4. ASSUME NEW t \in Tokens,
             \/ ReadRound(t) \/ CancelRead(t) \/ CancelAcquired(t) \/ StartProvider(t) \/ LoseHeartbeat(t)
             \/ JoinProvider(t) \/ FinishHeartbeat(t) \/ Rollback(t) \/ CancelRun(t) \/ Unwind(t)
      PROVE  ClaimRule(r)
  BY <1>4 DEF ClaimRule, Typing, TypeOK, StoreTypeOK, storeVars, ReadRound, CancelRead,
     CancelAcquired, StartProvider, LoseHeartbeat, JoinProvider, FinishHeartbeat, Rollback,
     CancelRun, Unwind
<1>5. ASSUME NEW t \in Tokens, (\E s \in Rounds : Admit(t, s)) \/ ProviderStep(t) PROVE ClaimRule(r)
  BY <1>5 DEF ClaimRule, Typing, TypeOK, StoreTypeOK, storeVars, Admit, ProviderStep,
     ProviderPublishes, ProviderSucceeds, ProviderFails, ProviderCancelled, ProviderEnds
<1>6. ASSUME NEW q \in Requests, Apply(q) PROVE ClaimRule(r)
  BY <1>6 DEF ClaimRule, Typing, TypeOK, StoreTypeOK, Apply, ReplaceIfCurrent, ReplaceAndClear,
     storeVars
<1>7. ASSUME NEW q \in Requests, NEW s \in Rounds, Request(q, s) PROVE ClaimRule(r)
  BY <1>7 DEF ClaimRule, Typing, TypeOK, StoreTypeOK, Request, ConfigureRound, ContinueChallenge,
     SubmitPrompt, AbandonGeneration, ShowResult, CompleteRound, Ask, storeVars
<1>8. ASSUME NEW s \in Rounds, CreateRound(s) PROVE ClaimRule(r)
  BY <1>8 DEF ClaimRule, Typing, TypeOK, StoreTypeOK, CreateRound, Create
<1>9. ASSUME ProcessStep \/ Tick \/ UNCHANGED vars PROVE ClaimRule(r)
  BY <1>9 DEF ClaimRule, Typing, TypeOK, StoreTypeOK, ProcessStep, Shutdown, Restart, Stop, Crash,
     Tick, vars, storeVars
<1>10. CASE Serve
  BY <1>6, <1>7, <1>8, <1>10 DEF Serve, RequestNext
<1>11. CASE Attempt
  BY <1>1, <1>2, <1>3, <1>4, <1>5, <1>11 DEF Attempt, AttemptNext, TaskStep
<1> QED
  BY <1>9, <1>10, <1>11 DEF Next

\* No claim is good for more than a lease.
ClaimsTimed == \A r \in Rounds : claim[r] # None => claim[r].expires <= now + Lease

\* ClaimsTimed holds in every state.
LEMMA ClaimsAreTimed == Spec => []ClaimsTimed
<1>1. Init => ClaimsTimed
  BY DEF Init, StoreInit, ClaimsTimed
<1>2. Typing /\ PictureInv /\ ServiceInv /\ ClaimsTimed /\ [Next]_vars => ClaimsTimed'
  <2> SUFFICES ASSUME Typing, PictureInv, ServiceInv, ClaimsTimed, [Next]_vars,
                      NEW r \in Rounds, claim'[r] # None
               PROVE  claim'[r].expires <= now' + Lease
    BY DEF ClaimsTimed
  <2>1. now \in Nat /\ now' \in Nat /\ now' >= now /\ Lease \in Nat
    BY ClaimWritten, TimeAssumption DEF ClaimRule, Typing, TypeOK, StoreTypeOK
  <2>2. CASE claim'[r] = claim[r]
    <3>1. claim[r].expires \in Nat /\ claim[r].expires <= now + Lease
      BY <2>2 DEF Typing, TypeOK, StoreTypeOK, Claims, ClaimsTimed
    <3> QED
      BY <2>1, <2>2, <3>1
  <2>3. CASE \E t \in Tokens : claim'[r] = [token |-> t, expires |-> now + Lease]
    BY <2>1, <2>3
  <2> QED
    BY <2>2, <2>3, ClaimWritten DEF ClaimRule
<1> QED
  BY <1>1, <1>2, Typed, PictureInvariant, ServiceInvariant, PTL DEF Spec, Typing

\* A claim left behind by an attempt that ended, by a crash or a refused commit,
\* protects its round for no more than a lease (LeftoverLapses): only a running
\* heartbeat prolongs a claim, and no ended attempt has one.
THEOREM LeftoversLapse == Spec => LeftoverLapses
<1> DEFINE Lapses(r) ==
       /\ claim[r].expires <= now + Lease
       /\ claim'[r] \in {claim[r], None} \/ ~Live(r)
<1>1. Typing /\ PictureInv /\ ServiceInv /\ ClaimsTimed /\ [Next]_vars =>
        \A r \in Rounds : claim[r] # None /\ pc[claim[r].token] \in Ended => Lapses(r)
  <2> SUFFICES ASSUME Typing, PictureInv, ServiceInv, ClaimsTimed, [Next]_vars,
                      NEW r \in Rounds, claim[r] # None, pc[claim[r].token] \in Ended
               PROVE  Lapses(r)
    OBVIOUS
  <2>1. ASSUME NEW t \in Tokens, Prolonged(r, t) PROVE FALSE
    BY <2>1 DEF Prolonged, Matches, PictureInv, Supervised, Ended
  <2>2. claim'[r] \in {claim[r], None} \/ ~Live(r)
    BY <2>1, ClaimWritten DEF ClaimRule, Taken
  <2> QED
    BY <2>2 DEF ClaimsTimed
<1>2. Spec => [][\A r \in Rounds : claim[r] # None /\ pc[claim[r].token] \in Ended => Lapses(r)]_vars
  BY <1>1, Typed, PictureInvariant, ServiceInvariant, ClaimsAreTimed, PTL DEF Spec, Typing
<1> QED
  BY <1>2 DEF LeftoverLapses

-----------------------------------------------------------------------------
(* RoundLifecycle *)

\* The images of the rounds in RoundLifecycle.
SceneOf == [r \in Rounds |-> IF round[r] = None THEN None ELSE round[r].state]
PictureOf == [r \in Rounds |-> IF round[r] = None THEN None ELSE round[r].artifact]

\* Writing one record moves one round.
LEMMA OneMoves ==
  ASSUME StoreTypeOK, NEW r \in Rounds, NEW rec \in Records, round' = [round EXCEPT ![r] = rec]
  PROVE  /\ SceneOf' = [SceneOf EXCEPT ![r] = rec.state]
         /\ PictureOf' = [PictureOf EXCEPT ![r] = rec.artifact]
BY NoneAssumption DEF StoreTypeOK, SceneOf, PictureOf

\* Every step of the service is a step of the lifecycle or leaves it alone.
LEMMA LifecycleStep ==
  ASSUME Typing, ServiceInv, [Next]_vars
  PROVE  [Lifecycle!Next]_<<SceneOf, PictureOf>>
<1> USE DEF Typing, TypeOK
<1>1. CASE UNCHANGED round
  BY <1>1 DEF SceneOf, PictureOf
<1>2. CASE BegunStep
  <2>1. PICK r \in Rounds : round[r] = None /\ round' = [round EXCEPT ![r] = Begun]
    BY <1>2 DEF BegunStep
  <2>2. Begun \in Records /\ Begun.state = "level_selection" /\ Begun.artifact = None
    BY DEF Begun, Records, Scenes, StoreTypeOK
  <2>3. /\ SceneOf' = [SceneOf EXCEPT ![r] = "level_selection"]
        /\ PictureOf' = [PictureOf EXCEPT ![r] = None]
        /\ SceneOf[r] = None /\ PictureOf[r] = None
    BY <2>1, <2>2, OneMoves DEF SceneOf, PictureOf
  <2>4. PictureOf' = PictureOf
    BY <2>3 DEF PictureOf
  <2>5. Lifecycle!Begin(r)
    BY <2>3, <2>4 DEF Lifecycle!Begin, SceneOf, PictureOf
  <2> QED
    BY <2>5 DEF Lifecycle!Next
<1>3. CASE WrittenStep
  <2>1. PICK w \in Writes : /\ WriteLawful(w, now) /\ round[w.round] = w.expected
                            /\ round' = [round EXCEPT ![w.round] = w.new]
    BY <1>3 DEF WrittenStep
  <2> DEFINE r == w.round
  <2>2. r \in Rounds /\ w.new \in Records /\ round[r] # None
    BY <2>1, NoneAssumption DEF Writes
  <2>3. /\ SceneOf' = [SceneOf EXCEPT ![r] = w.new.state]
        /\ PictureOf' = [PictureOf EXCEPT ![r] = w.new.artifact]
        /\ SceneOf[r] = w.expected.state /\ PictureOf[r] = w.expected.artifact
    BY <2>1, <2>2, OneMoves DEF SceneOf, PictureOf
  <2>4. PictureOf' = PictureOf
    BY <2>1, <2>3 DEF PictureOf, WriteLawful
  <2>5. \E edge \in Lifecycle!Edges : SceneOf[r] = edge[1] /\ SceneOf' = [SceneOf EXCEPT ![r] = edge[2]]
    <3>1. <<w.expected.state, w.new.state>> \in Lifecycle!Edges
      BY <2>1 DEF WriteLawful
    <3> QED
      BY <2>3, <3>1
  <2>6. Lifecycle!Advance(r)
    BY <2>4, <2>5 DEF Lifecycle!Advance, SceneOf, PictureOf
  <2> QED
    BY <2>2, <2>6 DEF Lifecycle!Next
<1>4. CASE CommittedStep
  <2>1. PICK t \in Tokens :
          /\ target[t] \in Rounds /\ snap[t] \in Records /\ round[target[t]] = snap[t]
          /\ \/ round' = [round EXCEPT ![target[t]] = SuccessRecord(t)]
             \/ round' = [round EXCEPT ![target[t]] = FailureRecord(t)]
    BY <1>4 DEF CommittedStep
  <2>0. PICK r \in Rounds : r = target[t]
    BY <2>1
  <2>2. snap[t] # None /\ snap[t].state = "generating" /\ snap[t].artifact = None
    BY <2>1, NoneAssumption DEF ServiceInv, SnapsLawful
  <2>3. /\ SuccessRecord(t) \in Records /\ FailureRecord(t) \in Records
        /\ SceneOf[r] = "generating" /\ PictureOf[r] = None
    BY <2>1, <2>2, <2>0, OutcomeType DEF SceneOf, PictureOf
  <2>4. CASE round' = [round EXCEPT ![r] = SuccessRecord(t)]
    <3>1. SuccessRecord(t).state = "generated_reveal" /\ SuccessRecord(t).artifact = t
      BY <2>1 DEF SuccessRecord, Records
    <3>2. /\ SceneOf' = [SceneOf EXCEPT ![r] = "generated_reveal"]
          /\ PictureOf' = [PictureOf EXCEPT ![r] = t]
      <4> DEFINE new == SuccessRecord(t)
      <4>1. new \in Records /\ new.state = "generated_reveal" /\ new.artifact = t /\ r \in Rounds
        BY <2>1, <2>3, <3>1
      <4>2. round' = [round EXCEPT ![r] = new]
        BY <2>4
      <4> HIDE DEF new
      <4> QED
        BY <4>1, <4>2, OneMoves
    <3>3. Lifecycle!Succeed(r)
      BY <2>3, <3>2 DEF Lifecycle!Succeed, SceneOf, PictureOf
    <3> QED
      BY <3>3 DEF Lifecycle!Next
  <2>5. CASE round' = [round EXCEPT ![r] = FailureRecord(t)]
    <3>1. FailureRecord(t).state = "generating" /\ FailureRecord(t).artifact = None
      BY <2>1, <2>2 DEF FailureRecord, Records
    <3>2. /\ SceneOf' = [SceneOf EXCEPT ![r] = "generating"]
          /\ PictureOf' = [PictureOf EXCEPT ![r] = None]
      <4> DEFINE new == FailureRecord(t)
      <4>1. new \in Records /\ new.state = "generating" /\ new.artifact = None /\ r \in Rounds
        BY <2>1, <2>3, <3>1
      <4>2. round' = [round EXCEPT ![r] = new]
        BY <2>5
      <4> HIDE DEF new
      <4> QED
        BY <4>1, <4>2, OneMoves
    <3>3. SceneOf' = SceneOf /\ PictureOf' = PictureOf
      BY <2>3, <3>2 DEF SceneOf, PictureOf
    <3> QED
      BY <3>3
  <2> QED
    BY <2>1, <2>0, <2>4, <2>5
<1> QED
  BY <1>1, <1>2, <1>3, <1>4, RoundStep

\* The service implements RoundLifecycle (RefinesLifecycle).
THEOREM ImplementsLifecycle == Spec => RefinesLifecycle
<1>1. Init => Lifecycle!Init
  BY DEF Init, StoreInit, Lifecycle!Init
<1>2. Typing /\ ServiceInv /\ [Next]_vars => [Lifecycle!Next]_(Lifecycle!lifecycleVars)
  BY LifecycleStep DEF Lifecycle!lifecycleVars, SceneOf, PictureOf
<1> QED
  BY <1>1, <1>2, Typed, ServiceInvariant, PTL DEF Spec, Typing, RefinesLifecycle, Lifecycle!Spec

-----------------------------------------------------------------------------
(* AttemptFence *)

\* The images of claims and rounds in AttemptFence; its winner is PictureOf.
HolderOf == [r \in Rounds |-> IF claim[r] = None THEN None ELSE claim[r].token]
SpentTokens == issued \ Holders
ClosedRounds == {r \in Rounds : InScene(r, "abandoned")}

fenceImage == <<HolderOf, SpentTokens, PictureOf, ClosedRounds>>

\* A token holds at most one round, and it was issued.
LEMMA HoldersDiffer ==
  ASSUME StoreTypeOK, ClaimsPlaced
  PROVE  /\ Holders \subseteq issued
         /\ \A r, s \in Rounds :
              claim[r] # None /\ claim[s] # None /\ claim[r].token = claim[s].token => r = s
         /\ \A t : t \in Holders <=> \E r \in Rounds : claim[r] # None /\ claim[r].token = t
         /\ \A r \in Rounds : HolderOf[r] # None <=> claim[r] # None
BY NoneAssumption DEF StoreTypeOK, Claims, ClaimsPlaced, Holders, HolderOf

\* Taking a claim away spends its token.
LEMMA DroppedClaim ==
  ASSUME StoreTypeOK, ClaimsPlaced, NEW r \in Rounds,
         claim' = [claim EXCEPT ![r] = None], UNCHANGED issued
  PROVE  /\ HolderOf' = [HolderOf EXCEPT ![r] = None]
         /\ SpentTokens' = SpentTokens \cup ({HolderOf[r]} \ {None})
<1>1. HolderOf' = [HolderOf EXCEPT ![r] = None]
  BY DEF HolderOf, StoreTypeOK
<1>2. \A t : t \in Holders' <=> t \in Holders /\ t # HolderOf[r]
  BY NoneAssumption DEF StoreTypeOK, Claims, ClaimsPlaced, Holders, HolderOf
<1>3. HolderOf[r] # None => HolderOf[r] \in Holders
  BY DEF Holders, HolderOf
<1>4. \A t : t \in SpentTokens' <=> t \in SpentTokens \/ (t = HolderOf[r] /\ t # None)
  BY <1>2, <1>3, HoldersDiffer, NoneAssumption DEF SpentTokens, StoreTypeOK
<1>5. SpentTokens' = SpentTokens \cup ({HolderOf[r]} \ {None})
  BY <1>4
<1> QED
  BY <1>1, <1>5

\* A fresh token takes a round and spends the one it ousts.
LEMMA GrantedClaim ==
  ASSUME StoreTypeOK, ClaimsPlaced, NEW r \in Rounds, NEW t \in Tokens, t \notin issued,
         NEW c \in Claims, c.token = t,
         claim' = [claim EXCEPT ![r] = c], issued' = issued \cup {t}
  PROVE  /\ HolderOf' = [HolderOf EXCEPT ![r] = t]
         /\ SpentTokens' = SpentTokens \cup ({HolderOf[r]} \ {None})
         /\ t \notin SpentTokens /\ \A s \in Rounds : HolderOf[s] # t
<1>1. HolderOf' = [HolderOf EXCEPT ![r] = t]
  BY NoneAssumption DEF HolderOf, StoreTypeOK
<1>2. \A u : u \in Holders' <=> u = t \/ (u \in Holders /\ u # HolderOf[r])
  BY NoneAssumption DEF StoreTypeOK, Claims, ClaimsPlaced, Holders, HolderOf
<1>3. HolderOf[r] # None => HolderOf[r] \in Holders
  BY DEF Holders, HolderOf
<1>4. \A s \in Rounds : HolderOf[s] # t
  BY NoneAssumption DEF ClaimsPlaced, HolderOf
<1>5. t \notin SpentTokens
  BY DEF SpentTokens
<1>6. \A u : u \in SpentTokens' <=> u \in SpentTokens \/ (u = HolderOf[r] /\ u # None)
  BY <1>2, <1>3, HoldersDiffer, NoneAssumption DEF SpentTokens, StoreTypeOK
<1>7. SpentTokens' = SpentTokens \cup ({HolderOf[r]} \ {None})
  BY <1>6 DEF SpentTokens
<1> QED
  BY <1>1, <1>4, <1>5, <1>7

\* A step that keeps the rounds keeps winners and closed rounds.
LEMMA SameRounds ==
  ASSUME UNCHANGED round
  PROVE  PictureOf' = PictureOf /\ ClosedRounds' = ClosedRounds
BY DEF PictureOf, ClosedRounds, InScene

\* Dropping the claim of a round whose picture and scene stay is a yield or nothing.
LEMMA Yielded ==
  ASSUME StoreTypeOK, ClaimsPlaced, NEW r \in Rounds,
         claim' = [claim EXCEPT ![r] = None], UNCHANGED issued,
         PictureOf' = PictureOf, ClosedRounds' = ClosedRounds
  PROVE  [Fence!Next]_fenceImage
<1>1. CASE HolderOf[r] = None
  <2>1. claim' = claim
    BY <1>1, HoldersDiffer DEF StoreTypeOK
  <2> QED
    BY <2>1 DEF fenceImage, HolderOf, SpentTokens, Holders
<1>2. CASE HolderOf[r] # None
  <2>1. Fence!Yield(r)
    BY <1>2, DroppedClaim DEF Fence!Yield, Fence!Lost, HolderOf, SpentTokens, PictureOf, ClosedRounds
  <2> QED
    BY <2>1 DEF Fence!Next
<1> QED
  BY <1>1, <1>2

\* A step that leaves the rounds alone grants a claim, renews it, or drops it.
LEMMA ClaimStep ==
  ASSUME Typing, PictureInv, ServiceInv, [Next]_vars, UNCHANGED round
  PROVE  [Fence!Next]_fenceImage
<1> USE DEF Typing, TypeOK
<1>1. PictureOf' = PictureOf /\ ClosedRounds' = ClosedRounds /\ ClaimsPlaced
  BY SameRounds DEF ServiceInv
<1>2. ASSUME UNCHANGED <<claim, issued>> PROVE UNCHANGED fenceImage
  BY <1>1, <1>2 DEF fenceImage, HolderOf, SpentTokens, Holders
<1>3. ASSUME NEW t \in Tokens, Acquire(t) PROVE [Fence!Next]_fenceImage
  <2>0. PICK r \in Rounds : r = target[t]
    BY <1>3 DEF Acquire, Placed, Ended
  <2>1. CASE UNCHANGED storeVars
    BY <1>2, <2>1 DEF storeVars
  <2>2. CASE AcquireFresh(r, t) /\ Claimable(r, stamp[t])
    <3>0. PICK c : c = [token |-> t, expires |-> now + Lease]
      OBVIOUS
    <3>6. c \in Claims /\ c.token = t
      BY <3>0, TimeAssumption DEF Claims, StoreTypeOK
    <3>1. claim' = [claim EXCEPT ![r] = c] /\ issued' = issued \cup {t}
      BY <2>2, <3>0 DEF AcquireFresh
    <3>2. t \notin issued
      BY <1>3 DEF Acquire, ServiceInv, TokensFresh
    <3>3. InScene(r, "generating") /\ round[r].artifact = None
      BY <2>2 DEF Claimable, ServiceInv, RoundsLawful, RecordLawful, InScene
    <3>4. r \notin ClosedRounds /\ PictureOf[r] = None
      BY <3>3 DEF ClosedRounds, PictureOf, InScene
    <3>5. Fence!Grant(r, t)
      BY <1>1, <3>6, <3>1, <3>2, <3>4, GrantedClaim
      DEF Fence!Grant, Fence!Open, Fence!Lost, HolderOf, SpentTokens, PictureOf, ClosedRounds
    <3> QED
      BY <3>5 DEF Fence!Next
  <2> QED
    BY <1>3, <2>0, <2>1, <2>2 DEF Acquire
<1>4. ASSUME NEW t \in Tokens, NEW r \in Rounds, ReleaseMatching(r, t) PROVE [Fence!Next]_fenceImage
  <2>1. CASE claim' = [claim EXCEPT ![r] = None]
    BY <1>1, <1>4, <2>1, Yielded DEF ReleaseMatching
  <2> QED
    BY <1>2, <1>4, <2>1 DEF ReleaseMatching
<1>5. ASSUME NEW t \in Tokens, ReleaseLost(t) \/ Unclaim(t) PROVE [Fence!Next]_fenceImage
  <2>1. PICK r \in Rounds : r = target[t]
    BY <1>5 DEF ReleaseLost, Unclaim, Placed, Supervised, PictureInv, Ended
  <2>2. ReleaseMatching(r, t)
    BY <1>5, <2>1 DEF ReleaseLost, Unclaim, ReleaseMatching, Matches
  <2> QED
    BY <1>4, <2>2
<1>6. ASSUME NEW t \in Tokens, NEW r \in Rounds, RenewFresh(r, t) PROVE UNCHANGED fenceImage
  <2>0. PICK c : c = [token |-> t, expires |-> now + Lease]
    OBVIOUS
  <2>5. c \in Claims /\ c.token = t
    BY <2>0, TimeAssumption DEF Claims, StoreTypeOK
  <2>1. claim' = [claim EXCEPT ![r] = c] /\ claim[r] # None /\ claim[r].token = t
        /\ issued' = issued
    BY <1>6, <2>0 DEF RenewFresh, LiveMatch, Matches
  <2>2. \A s \in Rounds : /\ claim'[s] # None <=> claim[s] # None
                          /\ claim[s] # None => claim'[s].token = claim[s].token
    BY <2>1, <2>5, NoneAssumption DEF StoreTypeOK
  <2>3. HolderOf' = HolderOf /\ Holders' = Holders
    BY <2>2 DEF HolderOf, Holders
  <2> QED
    BY <1>1, <2>1, <2>3 DEF fenceImage, SpentTokens
<1>7. ASSUME NEW t \in Tokens, Renew(t) PROVE UNCHANGED fenceImage
  <2>1. CASE UNCHANGED storeVars
    BY <1>2, <2>1 DEF storeVars
  <2>2. CASE RenewFresh(target[t], t)
    <3>1. PICK r \in Rounds : r = target[t]
      BY <1>7 DEF Renew, Placed, Supervised, PictureInv
    <3>2. RenewFresh(r, t)
      BY <2>2, <3>1 DEF RenewFresh, LiveMatch, Matches, Live
    <3> QED
      BY <1>6, <3>2
  <2> QED
    BY <1>7, <2>1, <2>2 DEF Renew
<1>8. ASSUME NEW t \in Tokens, CommitSuccess(t) \/ CommitFailure(t) PROVE [Fence!Next]_fenceImage
  <2>1. PICK r \in Rounds : r = target[t]
    BY <1>8 DEF CommitSuccess, CommitFailure, Placed, Ended
  <2>2. CASE UNCHANGED storeVars
    BY <1>2, <2>2 DEF storeVars
  <2>3. CASE claim' = [claim EXCEPT ![r] = None] /\ issued' = issued
    BY <1>1, <2>3, Yielded
  <2> QED
    BY <1>8, <2>1, <2>2, <2>3 DEF CommitSuccess, CommitFailure, ReplaceAndRelease
<1>9. ASSUME NEW q \in Requests, Apply(q) PROVE [Fence!Next]_fenceImage
  <2>1. PICK r \in Rounds : r = pending[q].round
    BY <1>9 DEF Apply, RequestTypeOK, Writes
  <2>2. CASE UNCHANGED <<claim, issued>>
    BY <1>2, <2>2
  <2>3. CASE claim' = [claim EXCEPT ![r] = None] /\ issued' = issued
    BY <1>1, <2>3, Yielded
  <2> QED
    BY <1>9, <2>1, <2>2, <2>3 DEF Apply, ReplaceIfCurrent, ReplaceAndClear, storeVars
<1>10. CASE Serve
  <2>1. ASSUME NEW r \in Rounds, CreateRound(r) PROVE UNCHANGED fenceImage
    BY <1>2, <2>1 DEF CreateRound, Create
  <2>2. ASSUME NEW q \in Requests, NEW r \in Rounds, Request(q, r) PROVE UNCHANGED fenceImage
    <3>1. UNCHANGED storeVars
      BY <2>2 DEF Request, ConfigureRound, ContinueChallenge, SubmitPrompt, AbandonGeneration,
         ShowResult, CompleteRound, Ask
    <3> QED
      BY <1>2, <3>1 DEF storeVars
  <2> QED
    BY <1>9, <1>10, <2>1, <2>2 DEF Serve, RequestNext
<1>11. CASE Attempt
  <2>1. PICK t \in Tokens : (\E r \in Rounds : Admit(t, r)) \/ TaskStep(t) \/ ProviderStep(t) \/ Renew(t)
    BY <1>11 DEF Attempt, AttemptNext
  <2>2. CASE (\E r \in Rounds : Admit(t, r)) \/ ProviderStep(t)
    BY <1>2, <2>2 DEF storeVars, Admit, ProviderStep, ProviderPublishes, ProviderSucceeds, ProviderFails,
       ProviderCancelled, ProviderEnds
  <2>3. CASE \/ ReadRound(t) \/ CancelRead(t) \/ CancelAcquired(t) \/ StartProvider(t) \/ LoseHeartbeat(t)
             \/ JoinProvider(t) \/ FinishHeartbeat(t) \/ Rollback(t) \/ CancelRun(t) \/ Unwind(t)
    <3>1. UNCHANGED storeVars
      BY <2>3 DEF storeVars, ReadRound, CancelRead, CancelAcquired, StartProvider, LoseHeartbeat,
         JoinProvider, FinishHeartbeat, Rollback, CancelRun, Unwind
    <3> QED
      BY <1>2, <3>1 DEF storeVars
  <2> QED
    BY <1>3, <1>5, <1>7, <1>8, <2>1, <2>2, <2>3 DEF TaskStep
<1>12. CASE ProcessStep \/ Tick \/ UNCHANGED vars
  BY <1>2, <1>12 DEF ProcessStep, Shutdown, Restart, Stop, Crash, Tick, vars, storeVars
<1> QED
  BY <1>10, <1>11, <1>12 DEF Next

\* Every step of the service is a step of the fence or leaves it alone.
LEMMA FenceStep ==
  ASSUME Typing, PictureInv, ServiceInv, [Next]_vars
  PROVE  [Fence!Next]_fenceImage
<1> USE DEF Typing, TypeOK
<1>1. CASE UNCHANGED round
  BY <1>1, ClaimStep
<1>2. CASE BegunStep
  <2>1. PICK r \in Rounds : /\ round[r] = None /\ round' = [round EXCEPT ![r] = Begun]
                            /\ UNCHANGED <<claim, issued>>
    BY <1>2 DEF BegunStep
  <2>2. Begun \in Records /\ Begun.state = "level_selection" /\ Begun.artifact = None
    BY DEF Begun, Records, Scenes, StoreTypeOK
  <2>5. Begun # None
    BY <2>2, NoneAssumption
  <2>3. PictureOf' = PictureOf
    BY <2>1, <2>2, OneMoves DEF PictureOf
  <2>4. ClosedRounds' = ClosedRounds
    BY <2>1, <2>2, <2>5 DEF ClosedRounds, InScene, StoreTypeOK
  <2> QED
    BY <2>1, <2>3, <2>4 DEF fenceImage, HolderOf, SpentTokens, Holders
<1>3. CASE WrittenStep
  <2>1. PICK w \in Writes :
          /\ WriteLawful(w, now) /\ round[w.round] = w.expected
          /\ round' = [round EXCEPT ![w.round] = w.new]
          /\ claim' = IF w.clears THEN [claim EXCEPT ![w.round] = None] ELSE claim
          /\ UNCHANGED issued
    BY <1>3 DEF WrittenStep
  <2>0. PICK r \in Rounds : r = w.round
    BY DEF Writes
  <2>2. round[r] # None /\ w.new \in Records /\ w.new # None
    BY <2>0, <2>1, NoneAssumption DEF Writes
  <2>3. PictureOf' = PictureOf
    <3>1. PictureOf[r] = w.new.artifact
      BY <2>0, <2>1, <2>2 DEF PictureOf, WriteLawful
    <3>2. PictureOf' = [PictureOf EXCEPT ![r] = w.new.artifact]
      BY <2>0, <2>1, <2>2, OneMoves
    <3> QED
      BY <3>1, <3>2 DEF PictureOf
  <2>4. claim' = [claim EXCEPT ![r] = None] \/ UNCHANGED claim
    BY <2>0, <2>1
  <2>5. CASE w.new.state # "abandoned"
    <3>1. w.expected.state # "abandoned"
      BY <2>1 DEF WriteLawful, Lifecycle!Edges
    <3>2. ClosedRounds' = ClosedRounds
      BY <2>0, <2>1, <2>2, <2>5, <3>1 DEF ClosedRounds, InScene, StoreTypeOK
    <3>3. CASE UNCHANGED claim
      BY <2>1, <2>3, <3>2, <3>3 DEF fenceImage, HolderOf, SpentTokens, Holders
    <3> QED
      BY <2>1, <2>3, <2>4, <3>2, <3>3, Yielded DEF ServiceInv
  <2>6. CASE w.new.state = "abandoned"
    <3>1. w.expected.state \in {"prompt_entry", "generating"}
      BY <2>1, <2>6 DEF WriteLawful, Lifecycle!Edges
    <3>2. ClosedRounds' = ClosedRounds \cup {r} /\ r \notin ClosedRounds
      BY <2>0, <2>1, <2>2, <2>6, <3>1 DEF ClosedRounds, InScene, StoreTypeOK
    <3>3. PictureOf[r] = None
      BY <2>0, <2>1, <2>2, <3>1 DEF PictureOf, WriteLawful, RecordLawful, Early
    <3>4. claim' = [claim EXCEPT ![r] = None]
      <4>1. CASE claim[r] = None
        BY <2>4, <4>1 DEF StoreTypeOK
      <4>2. CASE claim[r] # None
        <5>1. w.expected.state = "generating"
          BY <2>0, <2>1, <4>2 DEF ServiceInv, ClaimsPlaced, InScene
        <5> QED
          BY <2>0, <2>1, <5>1 DEF WriteLawful
      <4> QED
        BY <4>1, <4>2
    <3>5. Fence!Close(r)
      BY <2>1, <2>3, <3>2, <3>3, <3>4, DroppedClaim
      DEF Fence!Close, Fence!Open, Fence!Lost, HolderOf, SpentTokens, PictureOf, ClosedRounds, ServiceInv
    <3> QED
      BY <3>5 DEF Fence!Next
  <2> QED
    BY <2>5, <2>6
<1>4. CASE CommittedStep
  <2>1. PICK t \in Tokens :
          /\ target[t] \in Rounds /\ snap[t] \in Records
          /\ round[target[t]] = snap[t] /\ LiveMatch(target[t], t)
          /\ \/ round' = [round EXCEPT ![target[t]] = SuccessRecord(t)]
             \/ round' = [round EXCEPT ![target[t]] = FailureRecord(t)]
          /\ claim' = [claim EXCEPT ![target[t]] = None]
          /\ UNCHANGED issued
    BY <1>4 DEF CommittedStep
  <2>0. PICK r \in Rounds : r = target[t]
    BY <2>1
  <2>2. snap[t] # None /\ snap[t].state = "generating" /\ snap[t].artifact = None
    BY <2>1, NoneAssumption DEF ServiceInv, SnapsLawful
  <2>3. /\ SuccessRecord(t) \in Records /\ SuccessRecord(t) # None
        /\ SuccessRecord(t).state = "generated_reveal" /\ SuccessRecord(t).artifact = t
        /\ FailureRecord(t) \in Records /\ FailureRecord(t) # None
        /\ FailureRecord(t).state = "generating" /\ FailureRecord(t).artifact = None
    <3>1. SuccessRecord(t) \in Records /\ FailureRecord(t) \in Records
      BY <2>2, OutcomeType
    <3>2. /\ SuccessRecord(t).state = "generated_reveal" /\ SuccessRecord(t).artifact = t
          /\ FailureRecord(t).state = "generating" /\ FailureRecord(t).artifact = None
      BY <2>1, <2>2 DEF SuccessRecord, FailureRecord, Records
    <3> QED
      BY <3>1, <3>2, NoneAssumption
  <2>4. /\ PictureOf[r] = None /\ HolderOf[r] = t /\ t # None /\ r \notin ClosedRounds
    BY <2>0, <2>1, <2>2, NoneAssumption DEF PictureOf, HolderOf, LiveMatch, Matches, ClosedRounds, InScene
  <2>5. ClosedRounds' = ClosedRounds
    <3>1. ASSUME NEW new \in Records, new # None, new.state # "abandoned", round' = [round EXCEPT ![r] = new]
          PROVE  ClosedRounds' = ClosedRounds
      BY <2>4, <3>1 DEF ClosedRounds, InScene, StoreTypeOK
    <3> QED
      BY <2>0, <2>1, <2>3, <3>1
  <2>6. CASE round' = [round EXCEPT ![r] = SuccessRecord(t)]
    <3>1. PictureOf' = [PictureOf EXCEPT ![r] = HolderOf[r]]
      <4> DEFINE new == SuccessRecord(t)
      <4>1. new \in Records /\ new.artifact = t /\ round' = [round EXCEPT ![r] = new]
        BY <2>3, <2>6
      <4> HIDE DEF new
      <4>2. PictureOf' = [PictureOf EXCEPT ![r] = new.artifact]
        BY <4>1, OneMoves
      <4> QED
        BY <2>4, <4>1, <4>2
    <3>2. Fence!Win(r)
      BY <2>0, <2>1, <2>4, <2>5, <3>1, DroppedClaim
      DEF Fence!Win, Fence!Open, Fence!Lost, HolderOf, SpentTokens, PictureOf, ClosedRounds, ServiceInv
    <3> QED
      BY <3>2 DEF Fence!Next
  <2>7. CASE round' = [round EXCEPT ![r] = FailureRecord(t)]
    <3>1. PictureOf' = PictureOf
      <4> DEFINE new == FailureRecord(t)
      <4>1. new \in Records /\ new.artifact = PictureOf[r] /\ round' = [round EXCEPT ![r] = new]
        BY <2>3, <2>4, <2>7
      <4> HIDE DEF new
      <4>2. PictureOf' = [PictureOf EXCEPT ![r] = PictureOf[r]]
        BY <4>1, OneMoves
      <4> QED
        BY <4>2 DEF PictureOf
    <3> QED
      BY <2>0, <2>1, <2>5, <3>1, Yielded DEF ServiceInv
  <2> QED
    BY <2>0, <2>1, <2>6, <2>7
<1> QED
  BY <1>1, <1>2, <1>3, <1>4, RoundStep

\* The service implements AttemptFence (RefinesFence).
THEOREM ImplementsFence == Spec => RefinesFence
<1>1. Init => Fence!Init
  BY DEF Init, StoreInit, Fence!Init, Holders, InScene
<1>2. Typing /\ PictureInv /\ ServiceInv /\ [Next]_vars => [Fence!Next]_(Fence!fenceVars)
  BY FenceStep DEF Fence!fenceVars, fenceImage, HolderOf, SpentTokens, PictureOf, ClosedRounds
<1> QED
  BY <1>1, <1>2, Typed, PictureInvariant, ServiceInvariant, PTL
  DEF Spec, Typing, RefinesFence, Fence!Spec

=============================================================================
