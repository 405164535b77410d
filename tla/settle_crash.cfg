CONSTANTS
  a = a
  b = b
  i = i
  j = j
  k = k
  first = first
  second = second
  Procs = {a, b}
  NoProc = NoProc
  Containers = {i, j, k}
  NoContainer = NoContainer
  Batches = {first, second}
  NoBatch = NoBatch
  BatchOf <- TwoThenOne
  Rivals = 1
  Attempts = 2
  Setups <- Settings
SPECIFICATION FairSpec
CHECK_DEADLOCK FALSE
INVARIANTS
  TypeOK
  CommittedKept
  UncertainKept
  MarkedWithSlots
  SpoolsNamed
  ReclaimedGone
PROPERTIES
  ImplementsFate
  RowsSettleMinted
