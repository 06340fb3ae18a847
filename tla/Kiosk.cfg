\* One tab, one round, up to two mishaps, up to five other players.
SPECIFICATION FairSpec
CONSTANTS
  MaxRows = 4
  Scores = {1, 2}
  MaxOthers = 5
  MaxMishaps = 2
\* The player may stop anywhere, and a round ends.
CHECK_DEADLOCK FALSE
INVARIANTS
  TypeOK
  Awake
  BoardIsRight
PROPERTIES
  RefusedOnlyEarly
  GenerationSettles
  RevealLeads
