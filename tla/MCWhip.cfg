CONSTANTS
  Requests = {r1, r2, r3, r4}
  MaxActive = 2
  MaxTransports = 2
SPECIFICATION Spec
INVARIANTS TypeOK CandidateIsMeant DeletedHasNoETag NoneIsForgotten
SYMMETRY AnyOrder
CHECK_DEADLOCK FALSE
