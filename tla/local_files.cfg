SPECIFICATION Spec
CONSTANTS
  Paths = {1, 2, 3, 4}
  Mapped = {1, 2, 3}
  PersonActs = 1
  OtherActs = 2
  Kills = 1
CHECK_DEADLOCK FALSE
INVARIANTS
  TypeOK
  WaitsOnlyWhenRefused
  CarriesOnlyPersonsActs
PROPERTIES
  PersonsWorkStays
