CONSTANTS
  a = a
  b = b
  c = c
  phone = phone
  laptop = laptop
  Procs = {a, b, c}
  Devices = {phone, laptop}
  DeviceOf <- TogetherAndApart
  Committers = {a, b}
  Pruners = {}
  Readers = {c}
  Failing = {}
  Batches = {x, y}
  Removing = {}
  Deletes = {}
  Genesis = Genesis
  NoBatch = NoBatch
  Minting = TRUE
  Unreliable = FALSE
  MaxHeld = 0
  Attempts = 2
  Threshold = 0
SPECIFICATION FairSpec
CHECK_DEADLOCK FALSE
INVARIANTS
  IndexFollowsChain
PROPERTIES
  IndexAdvances
  RunsEnd
  LostOnlyToRivals
