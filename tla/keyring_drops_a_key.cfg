CONSTANTS
  a = a
  b = b
  c = c
  phone = phone
  laptop = laptop
  Procs = {a, b, c}
  Devices = {phone, laptop}
  DeviceOf <- TogetherAndApart
  Committers = {a, c}
  Pruners = {}
  Readers = {b}
  Failing = {}
  Batches = {x, y, z}
  Removing = {}
  Deletes = {}
  Genesis = Genesis
  NoBatch = NoBatch
  Minting = TRUE
  Unreliable = FALSE
  MaxHeld = 0
  Attempts = 1
  Threshold = 0
SPECIFICATION Spec
CHECK_DEADLOCK FALSE
INVARIANTS
  KeyringExact
