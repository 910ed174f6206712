CONSTANTS
  Rids = {low, high}
  First = low
  MaxLoops = 2
SPECIFICATION FairSpec
INVARIANTS TypeOK LatestLayer
PROPERTIES SwitchHappens CloseEndsLoops PublisherEndsSubscriber
CHECK_DEADLOCK FALSE
