CONSTANTS
  s1 = s1
  s2 = s2
  d1 = d1
  d2 = d2
  d3 = d3
  Servers = {s1, s2}
  DataPublishers = {d1, d2, d3}
  Subscribers = {q1}
  Home <- Homes
  IdOf <- Ids
  Payloads <- Voices
  Wants <- OfTheFirst
  Passing = {d1}
  Frail = {s2}
  MaxCalls = 2
  MaxFaults = 1
  Buffer = 5
SPECIFICATION FewSpec
INVARIANTS TypeOK SenderHasReceiver EstablishedIsFound HeardIsSaid
CHECK_DEADLOCK FALSE
PROPERTIES CallsReturn SubscribersEnd
