CONSTANTS
  Revision1A = FALSE
  MaxRx = 1
  CONT_RX_PKT_CNT = 2
  Again = FALSE
SPECIFICATION Spec
INVARIANTS
  TypeOK
  NoLostInterrupt
  NoForgottenPacket
  MaskIsTimed
  CountCovers
  StoppedHasReason
  IndexKept
PROPERTY
  QueueWakes
