\* close() and abandonment stop providers that would otherwise never end, and
\* attempts end.
SPECIFICATION FairSpec
CONSTANTS
  None = None
  Rounds = {r1}
  Tokens = {t1, t2}
  Requests = {q1}
  Lease = 1
  MaxTime = 1
  PromptTime = 1
  RevealTime = 1
  BoardTime = 1
PROPERTIES
  ShutdownCompletes
  AbandonStopsProvider
  AttemptsEnd
