CONSTANTS
  a = a
  b = b
  c = c
  phone = phone
  laptop = laptop
  Procs = {a, b}
  Devices = {phone, laptop}
  DeviceOf <- Apart
  Committers = {a, b}
  Pruners = {a, b}
  Readers = {}
  Failing = {a, b}
  Batches = {x, y}
  Removing = {}
  Deletes = {}
  Genesis = Genesis
  NoBatch = NoBatch
  Minting = TRUE
  Unreliable = TRUE
  MaxHeld = 1
  Attempts = 2
  Threshold = 1
SPECIFICATION Spec
CHECK_DEADLOCK FALSE
INVARIANTS
  OneSuccessor
  SnapshotsAtTheirHead
  Recoverable
