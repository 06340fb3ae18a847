\* Three runs compete for two slots.
SPECIFICATION FairSpec
CONSTANTS
  Attempts = {a1, a2, a3}
  Capacity = 2
\* Every run ends and no new attempt is started by the model.
CHECK_DEADLOCK FALSE
INVARIANTS
  TypeOK
  SlotsCounted
  EndedClean
PROPERTIES
  SlotsReturn
