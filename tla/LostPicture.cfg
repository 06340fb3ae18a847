\* Two attempts of one round, and the process dies and starts again twice.
SPECIFICATION Spec
CONSTANTS
  a1 = a1
  a2 = a2
  r1 = r1
  Attempts <- MCAttempts
  RoundOf <- MCRoundOf
  Drafts <- MCDrafts
  MaxEntries = 9
  MaxStarts = 3
\* Every attempt ends and the process may stay down.
CHECK_DEADLOCK FALSE
INVARIANTS
  ReferencedServed
