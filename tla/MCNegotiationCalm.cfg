CONSTANTS
  MaxAttempts = 2
  MaxRounds = 5
  MaxTracks = 3
  MaxDirect = 1
SPECIFICATION CalmSpec
PROPERTY AllNegotiated
CHECK_DEADLOCK FALSE
