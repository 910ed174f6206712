CONSTANTS
  Publishers = {p1, p2}
  Calls = {c1, c2}
  Cleaners = {k1}
  Capacity = 1
  MaxRelays = 1
SPECIFICATION FairSpec
INVARIANTS TypeOK FoundOrClosed
PROPERTIES PublishReturns CleanupEnds
CHECK_DEADLOCK FALSE
