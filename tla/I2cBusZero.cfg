\* The bus may answer after a call has timed out: the next call's result.
CONSTANTS
  Requests   <- FewRequests
  Strays     <- FewStrays
  MaxIndex   = 3
SPECIFICATION Spec
INVARIANT
  ZeroMeansAllMoved
