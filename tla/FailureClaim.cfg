\* A failed attempt whose snapshot was stale keeps its claim.
SPECIFICATION Spec
CONSTANTS
  None = None
  Rounds = {r1}
  Tokens = {t1, t2}
  Requests = {q1}
  Lease = 2
  MaxTime = 1
  PromptTime = 0
  RevealTime = 1
  BoardTime = 0
INVARIANTS
  FailureReleasesClaim
