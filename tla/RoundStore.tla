----------------------------- MODULE RoundStore -----------------------------
(***************************************************************************)
(* The durable store of the kiosk: the "rounds" and "attempt_claims"       *)
(* shelves of ShelfDB and the transactions that persistence/rounds.py and  *)
(* persistence/claims.py run on them.  Every operator of the second part   *)
(* is one write transaction: the process-wide write lock is taken, the     *)
(* trusted clock is read inside it, everything is checked, then written.   *)
(* The module has no process of its own; GenerationAttempts and            *)
(* RoundRequests call the transactions.                                    *)
(***************************************************************************)
EXTENDS Integers

CONSTANTS
  Rounds,   \* identifiers of rounds (uuid4 strings)
  Tokens,   \* attempt tokens (uuid4 strings), each used by one attempt
  None,     \* an absent record, claim, artifact or round
  Lease,    \* claim_lease_duration, in clock ticks
  MaxTime   \* bound of the model's clock

Scenes == {"level_selection", "challenge_reveal", "prompt_entry", "generating",
           "generated_reveal", "result", "abandoned", "leaderboard"}

(***************************************************************************)
(* A round record keeps what the transitions test: the scene, updated_at,  *)
(* the deadline of the current scene, why its prompt was submitted, the    *)
(* token naming the generated artifact (evaluations, score and feedback    *)
(* are written with it) and whether a pipeline failure is recorded.        *)
(* terminal_disposition is determined by the scene.                        *)
(***************************************************************************)
Reasons == {"manual", "timeout"}

Records == [state: Scenes, updated: Nat, deadline: Nat, reason: Reasons \cup {None},
            artifact: Tokens \cup {None}, failure: BOOLEAN]

Claims == [token: Tokens, expires: Nat]

ASSUME TimeAssumption == Lease \in Nat \ {0} /\ MaxTime \in Nat
ASSUME NoneAssumption ==
  None \notin Rounds \cup Tokens \cup Reasons /\ None \notin Records /\ None \notin Claims

VARIABLES
  round,    \* shelf "rounds"
  claim,    \* shelf "attempt_claims"
  now,      \* the UTC clock
  issued    \* history: tokens that were ever written to a claim

storeVars == <<round, claim, now, issued>>

StoreTypeOK ==
  /\ round \in [Rounds -> Records \cup {None}]
  /\ claim \in [Rounds -> Claims \cup {None}]
  /\ now \in Nat
  /\ issued \in SUBSET Tokens

StoreInit ==
  /\ round = [r \in Rounds |-> None]
  /\ claim = [r \in Rounds |-> None]
  /\ now = 0
  /\ issued = {}

Tick == now < MaxTime /\ now' = now + 1 /\ UNCHANGED <<round, claim, issued>>

-----------------------------------------------------------------------------
InScene(r, s) == round[r] # None /\ round[r].state = s

\* A claim protects its round while its expiry is strictly in the future.
Live(r) == claim[r] # None /\ claim[r].expires > now

Matches(r, t) == claim[r] # None /\ claim[r].token = t

LiveMatch(r, t) == Matches(r, t) /\ Live(r)

\* acquire_fresh rejects a request older than a full lease, a round that is
\* not generating, and a round with a live claim.
Claimable(r, requestedAt) ==
  /\ requestedAt + Lease > now
  /\ InScene(r, "generating")
  /\ ~Live(r)

-----------------------------------------------------------------------------
\* rounds.create
Create(r) ==
  /\ round[r] = None
  /\ round' = [round EXCEPT ![r] =
       [state |-> "level_selection", updated |-> now, deadline |-> 0,
        reason |-> None, artifact |-> None, failure |-> FALSE]]
  /\ UNCHANGED <<claim, now, issued>>

\* Variant for mutation: the stored record is not compared.
ReplaceBlindly(r, expected, new) ==
  /\ round' = [round EXCEPT ![r] = new]
  /\ UNCHANGED <<claim, now, issued>>

\* rounds.replace_if_current: the whole stored record is compared.
ReplaceIfCurrent(r, expected, new) ==
  /\ round[r] = expected
  /\ round' = [round EXCEPT ![r] = new]
  /\ UNCHANGED <<claim, now, issued>>

\* claims.replace_round_and_clear_claim: whoever holds the claim loses it.
ReplaceAndClear(r, expected, new) ==
  /\ round[r] = expected
  /\ round' = [round EXCEPT ![r] = new]
  /\ claim' = [claim EXCEPT ![r] = None]
  /\ UNCHANGED <<now, issued>>

\* claims.acquire_fresh: an expired claim is replaced, the lease starts now.
AcquireFresh(r, t) ==
  /\ claim' = [claim EXCEPT ![r] = [token |-> t, expires |-> now + Lease]]
  /\ issued' = issued \cup {t}
  /\ UNCHANGED <<round, now>>

\* Variant for mutation: the renewal does not look at the stored claim.
RenewBlindly(r, t) ==
  /\ claim' = [claim EXCEPT ![r] = [token |-> t, expires |-> now + Lease]]
  /\ UNCHANGED <<round, now, issued>>

\* claims.renew_fresh
RenewFresh(r, t) ==
  /\ LiveMatch(r, t)
  /\ claim' = [claim EXCEPT ![r] = [token |-> t, expires |-> now + Lease]]
  /\ UNCHANGED <<round, now, issued>>

\* claims.release_matching: works on an expired claim, never on another token's.
\* Its StaleAttemptTokenError is swallowed by every caller.
ReleaseMatching(r, t) ==
  /\ claim' = IF Matches(r, t) THEN [claim EXCEPT ![r] = None] ELSE claim
  /\ UNCHANGED <<round, now, issued>>

\* Variant for mutation: an expired claim may still finalize.
FinalizableExpired(r, t, expected) == round[r] = expected /\ Matches(r, t)

\* What claims.replace_round_and_release_fresh requires before it writes.
Finalizable(r, t, expected) == round[r] = expected /\ LiveMatch(r, t)

\* claims.replace_round_and_release_fresh: record and claim change together.
ReplaceAndRelease(r, t, expected, new) ==
  /\ Finalizable(r, t, expected)
  /\ round' = [round EXCEPT ![r] = new]
  /\ claim' = [claim EXCEPT ![r] = None]
  /\ UNCHANGED <<now, issued>>

=============================================================================
