CONSTANTS
  a = a
  b = b
  c = c
  phone = phone
  laptop = laptop
  Procs = {a, b}
  Devices = {phone, laptop}
  DeviceOf <- Apart
  Committers = {a, b}
  Pruners = {}
  Readers = {}
  Failing = {b}
  Batches = {w, x, y, z}
  Removing = {y, z}
  Deletes = {}
  Genesis = Genesis
  NoBatch = NoBatch
  Minting = TRUE
  Unreliable = FALSE
  MaxHeld = 0
  Attempts = 2
  Threshold = 2
SPECIFICATION Spec
CHECK_DEADLOCK FALSE
INVARIANTS
  TypeOK
  KeyringExact
  BatchCommittedOnce
  ReportedCommitStands
  RefusedNotCommitted
  TrashedNotCurrent
PROPERTIES
  ImplementsLog
