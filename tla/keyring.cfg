CONSTANTS
  a = a
  b = b
  c = c
  phone = phone
  laptop = laptop
  desk = desk
  Procs = {a, b, c}
  Devices = {phone, laptop, desk}
  Genesis = Genesis
  Count = 2
  Attempts = 2
  Setups <- AllCasts
  MaxHeads = 4
  MaxFaults = 1
  MaxDrops = 1
SPECIFICATION FairSpec
CHECK_DEADLOCK FALSE
INVARIANTS
  KeyringTypeOK
  LossReal
  GateHolds
  SelectedSafe
  FindingsTrue
PROPERTIES
  RunsComplete
