\* One stream, opened, configured, prepared, written, paused, suspended, closed.
CONSTANTS
  PeriodCounts <- SmallBuffers
  Idle = Idle
  MaxWrites = 7
SPECIFICATION Spec
INVARIANTS
  TypeOK
  PlaysWhatIsDue
  RunningIsOn
PROPERTY
  WrittenIsPlayed
