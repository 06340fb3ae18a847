--------------------------- MODULE RoundRequests ----------------------------
(***************************************************************************)
(* The player's and the staff's requests on a round (GameRoundService      *)
(* except generate_round).  A request reads the record in one transaction, *)
(* decides in the event loop what the record becomes, and writes it in a   *)
(* second transaction that succeeds only if the record is still the one it *)
(* read.  Between the two anything may happen.  A request the code refuses *)
(* (wrong scene, deadline not elapsed, blank prompt) changes nothing and   *)
(* has no step.                                                            *)
(***************************************************************************)
EXTENDS RoundStore

CONSTANTS
  Requests,    \* handlers that may be in flight at once
  PromptTime,  \* _PROMPT_DEADLINE, in clock ticks
  BoardTime    \* _LEADERBOARD_DURATION, in clock ticks

ASSUME RequestTimeAssumption == PromptTime \in Nat /\ BoardTime \in Nat

VARIABLE pending   \* what each request in flight is about to write

Writes == [round: Rounds, expected: Records, new: Records, clears: BOOLEAN]
ASSUME NoWriteAssumption == None \notin Writes

RequestTypeOK == pending \in [Requests -> Writes \cup {None}]

NoRequests == [q \in Requests |-> None]

RequestInit == pending = NoRequests

-----------------------------------------------------------------------------
\* _replacement: the record moved to a scene, with its deadline.
Moved(r, scene, deadline) ==
  [round[r] EXCEPT !.state = scene, !.updated = now, !.deadline = deadline]

Ask(q, r, new, clears) ==
  /\ pending[q] = None
  /\ pending' = [pending EXCEPT ![q] =
       [round |-> r, expected |-> round[r], new |-> new, clears |-> clears]]
  /\ UNCHANGED storeVars

CreateRound(r) == Create(r) /\ UNCHANGED pending

\* Variant for mutation: a scene that is none.
ConfigureRoundBadly(q, r) ==
  /\ InScene(r, "level_selection")
  /\ Ask(q, r, Moved(r, "challenge", 0), FALSE)

ConfigureRound(q, r) ==
  /\ InScene(r, "level_selection")
  /\ Ask(q, r, Moved(r, "challenge_reveal", 0), FALSE)

ContinueChallenge(q, r) ==
  /\ InScene(r, "challenge_reveal")
  /\ Ask(q, r, Moved(r, "prompt_entry", now + PromptTime), FALSE)

\* Variant for mutation: a blank prompt abandons the round at any time.
SubmitPromptBlank(q, r, reason, blank) ==
  /\ InScene(r, "prompt_entry")
  /\ LET elapsed == now >= round[r].deadline
         stored == IF elapsed THEN "timeout" ELSE "manual"
     IN  \/ blank /\ Ask(q, r, Moved(r, "abandoned", 0), FALSE)
         \/ ~blank /\ (~elapsed => reason = "manual")
              /\ Ask(q, r, [Moved(r, "generating", 0) EXCEPT !.reason = stored], FALSE)

\* The persisted deadline decides: before it only a nonblank manual prompt is
\* accepted; from it on a nonblank prompt is a timeout submission and a blank
\* one abandons the round, whatever reason the client gave.
SubmitPrompt(q, r, reason, blank) ==
  /\ InScene(r, "prompt_entry")
  /\ LET elapsed == now >= round[r].deadline
         stored == IF elapsed THEN "timeout" ELSE "manual"
     IN  /\ ~elapsed => reason = "manual" /\ ~blank
         /\ \/ blank /\ Ask(q, r, Moved(r, "abandoned", 0), FALSE)
            \/ ~blank /\ Ask(q, r, [Moved(r, "generating", 0) EXCEPT !.reason = stored], FALSE)

\* Variant for mutation: the claim survives the abandonment.
AbandonKeepingClaim(q, r) ==
  /\ InScene(r, "generating")
  /\ Ask(q, r, [Moved(r, "abandoned", 0) EXCEPT !.artifact = None, !.failure = FALSE], FALSE)

AbandonGeneration(q, r) ==
  /\ InScene(r, "generating")
  /\ Ask(q, r, [Moved(r, "abandoned", 0) EXCEPT !.artifact = None, !.failure = FALSE], TRUE)

ShowResult(q, r) ==
  /\ InScene(r, "generated_reveal")
  /\ round[r].artifact # None /\ ~round[r].failure
  /\ now >= round[r].deadline
  /\ Ask(q, r, Moved(r, "result", round[r].deadline), FALSE)

CompleteRound(q, r) ==
  /\ InScene(r, "result")
  /\ round[r].artifact # None /\ ~round[r].failure
  /\ Ask(q, r, Moved(r, "leaderboard", now + BoardTime), FALSE)

\* The second transaction.  A snapshot conflict is reported and writes nothing.
Apply(q) ==
  /\ pending[q] # None
  /\ LET w == pending[q] IN
     \/ ~w.clears /\ ReplaceIfCurrent(w.round, w.expected, w.new)
     \/ w.clears /\ ReplaceAndClear(w.round, w.expected, w.new)
     \/ round[w.round] # w.expected /\ UNCHANGED storeVars
  /\ pending' = [pending EXCEPT ![q] = None]

Request(q, r) ==
  \/ ConfigureRound(q, r) \/ ContinueChallenge(q, r)
  \/ \E reason \in Reasons, blank \in BOOLEAN : SubmitPrompt(q, r, reason, blank)
  \/ AbandonGeneration(q, r) \/ ShowResult(q, r) \/ CompleteRound(q, r)

RequestNext ==
  \/ \E r \in Rounds : CreateRound(r)
  \/ \E q \in Requests, r \in Rounds : Request(q, r)
  \/ \E q \in Requests : Apply(q)

=============================================================================
