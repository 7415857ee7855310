\* A key event between the copy and the clear of a read.
CONSTANTS
  b1 = b1
  b2 = b2
  p1 = p1
  p2 = p2
  NULL = NULL
  pins_desc  <- OneButton
  Procs      <- OneProc
  NonBlock   = {}
SPECIFICATION Spec
INVARIANT
  FlagMeansUnread
CHECK_DEADLOCK FALSE
