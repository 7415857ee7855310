\* The device-tree driver, its pen moving at any time.
CONSTANTS
  Points <- NearAndFar
  ReportsRelease = TRUE
SPECIFICATION FairSpec
INVARIANTS
  TypeOK
  ChainIsAlive
  TouchIsWatched
  FaultOnlyInExit
  OneStroke
PROPERTY
  ReleaseReported
