CONSTANTS
  Top = 1
  Numbers = 3
  Clock = 4
SPECIFICATION Spec
INVARIANT TypeOK
PROPERTIES Forwards TimestampsFollow
CHECK_DEADLOCK FALSE
