CONSTANTS
  Publishers = {p1, p2}
  Routers = {r1}
  Ssrcs = {1}
  MaxCalls = 2
SPECIFICATION FairSpec
PROPERTY AnswersCome
CHECK_DEADLOCK FALSE
