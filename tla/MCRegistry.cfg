CONSTANTS
  r1 = r1
  p1 = p1
  d1 = d1
  q1 = q1
  id1 = id1
  id2 = id2
  Routers = {r1}
  Publishers = {p1}
  DataPublishers = {d1}
  Lookups = {q1}
  Ssrcs = {1, 2}
  Ids = {id1}
  IdOf <- JustOne
  RouterOf <- OneRouter
SPECIFICATION FewSpec
INVARIANTS TypeOK NoGhosts ListedHasTrack

CHECK_DEADLOCK FALSE
PROPERTIES LookupsEnd KeepsDirectory
