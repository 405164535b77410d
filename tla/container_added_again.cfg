CONSTANTS
  a = a
  b = b
  c = c
  phone = phone
  laptop = laptop
  Procs = {a, b}
  Devices = {phone, laptop}
  DeviceOf <- Apart
  Committers = {a, b}
  Pruners = {}
  Readers = {}
  Failing = {}
  Batches = {x, y, z}
  Removing = {y}
  Deletes = {}
  Genesis = Genesis
  NoBatch = NoBatch
  Minting = TRUE
  Unreliable = TRUE
  MaxHeld = 1
  Attempts = 3
  Threshold = 1
SPECIFICATION Spec
CHECK_DEADLOCK FALSE
INVARIANTS
  BatchCommittedOnce
