\* Every driver, two keys, a blocking and a non-blocking process; a driver may crash.
CONSTANTS
  b1 = b1
  b2 = b2
  p1 = p1
  p2 = p2
  NULL = NULL
  pins_desc  <- TwoButtons
  Procs      <- TwoProcs
  NonBlock   <- OneNonBlock
SPECIFICATION Spec
INVARIANTS
  TypeOK
  OneHolder
  HolderHasIrqs
  NoLostWakeup
  ReadIsFresh
  SettledLevel
CHECK_DEADLOCK FALSE
