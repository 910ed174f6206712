CONSTANTS
  r1 = r1
  p1 = p1
  d1 = d1
  q1 = q1
  id1 = id1
  id2 = id2
  Routers = {r1}
  Publishers = {p1}
  DataPublishers = {}
  Lookups = {}
  Ssrcs = {1}
  Ids = {id1, id2}
  IdOf <- JustOne
  RouterOf <- OneRouter
SPECIFICATION FairSpec
PROPERTIES CloseStopsRouters
CHECK_DEADLOCK FALSE
