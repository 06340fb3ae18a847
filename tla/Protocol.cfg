\* Both requests of the pipeline against a child that sends up to seven events.
SPECIFICATION Spec
CONSTANTS
  Calls = {c1, c2}
  MaxEvidence = 6
  MaxEvents = 7
\* The exchange ends.
CHECK_DEADLOCK FALSE
INVARIANTS
  TypeOK
  SettledIsLawful
  RefusalIsDeserved
  EvidenceSuffices
  VerdictIsRight
