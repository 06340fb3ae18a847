\* Two attempts race for one round, with two request handlers (a double click, an
\* abandonment) beside them; a lease can be renewed, run out and be taken over.
SPECIFICATION Spec
CONSTANTS
  None = None
  Rounds = {r1}
  Tokens = {t1, t2}
  Requests = {q1, q2}
  Lease = 2
  MaxTime = 2
  PromptTime = 1
  RevealTime = 1
  BoardTime = 1
SYMMETRY Symmetry
INVARIANTS
  TypeOK
  PictureOnDisk
  OrphansAreExplained
  LiveLeftoverIsStaleSnapshot
  EndedMeansSettled
PROPERTIES
  ResultIsFenced
  RefinesFence
  RefinesLifecycle
  SubmissionIsFinal
  LeftoverLapses
