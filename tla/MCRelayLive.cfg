CONSTANTS
  Publishers = {p1}
  Routers = {r1}
  Ssrcs = {1, 2}
  MaxCalls = 1
SPECIFICATION FairSpec
INVARIANT TypeOK
PROPERTIES AnswersCome RemovedIsEmptied
CHECK_DEADLOCK FALSE
