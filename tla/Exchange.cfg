\* The exchange with a child that writes up to three lines, through a queue of two.
SPECIFICATION FairSpec
CONSTANTS
  Capacity = 2
  MaxLines = 3
\* The call returns and nothing follows; or it hangs, which the run
\* ReaderStuck is about.
CHECK_DEADLOCK FALSE
INVARIANTS
  TypeOK
  NoLineLost
  SuccessIsWhole
  NothingLeft
PROPERTIES
  ExchangeEnds
  ReturnsUnlessStuck
