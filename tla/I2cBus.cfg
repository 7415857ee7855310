\* Every request of one or two messages; the bus may answer after a call has
\* timed out.
CONSTANTS
  Requests   <- LongRequests
  Strays     <- FewStrays
  MaxIndex   = 3
SPECIFICATION FairSpec
INVARIANTS
  TypeOK
  CleanResult
  CursorOnWire
  NoStrayAccess
PROPERTIES
  ImplementsTransfer
  LastReadNotAcked
  XferReturns
