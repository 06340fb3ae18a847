\* No mishap at all: only the order of requests and of the reads of the scene.
SPECIFICATION FairSpec
CONSTANTS
  MaxRows = 4
  Scores = {1, 2}
  MaxOthers = 0
  MaxMishaps = 0
CHECK_DEADLOCK FALSE
PROPERTIES
  PictureRevealed
