CONSTANTS
  MaxAttempts = 2
  MaxRounds = 4
  MaxTracks = 2
  MaxDirect = 0
SPECIFICATION FairSpec
INVARIANTS TypeOK RoundHasOwner NoDeferralWhileCreating NeedIsTracked
PROPERTIES GivenUpInFull RoundEnds
CHECK_DEADLOCK FALSE
