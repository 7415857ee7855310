\* A pause while the interrupt is due, which the IIS refuses and the core undoes.
CONSTANTS
  PeriodCounts <- SmallBuffers
  Idle = Idle
  MaxWrites = 7
SPECIFICATION Spec
INVARIANT
  TransfersAtOfs
