SPECIFICATION Spec
CONSTANTS
  Paths = {1, 2, 3, 4}
  Mapped = {1, 2, 3}
  PersonActs = 0
  OtherActs = 1
  Kills = 0
CHECK_DEADLOCK FALSE
INVARIANTS
  SkippedIsTheEntry
