CONSTANTS
  a = a
  b = b
  c = c
  phone = phone
  laptop = laptop
  Procs = {a, b}
  Devices = {phone, laptop}
  DeviceOf <- Apart
  Committers = {a, b}
  Pruners = {b}
  Readers = {}
  Failing = {}
  Batches = {x, y, z}
  Removing = {}
  Deletes = {}
  Genesis = Genesis
  NoBatch = NoBatch
  Minting = FALSE
  Unreliable = FALSE
  MaxHeld = 1
  Attempts = 2
  Threshold = 1
SPECIFICATION Spec
CHECK_DEADLOCK FALSE
INVARIANTS
  OneSuccessor
