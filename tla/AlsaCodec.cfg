CONSTANTS
  Codecs    <- BothCodecs
  Callers   = {c1, c2}
  Volumes   <- SomeVolumes
  ExtWrites <- TwoExt
  Rates     <- DaiRates
  PCLK      = 50000000
SYMMETRY CallerSymmetry
SPECIFICATION Spec
INVARIANTS
  TypeOK
  ChipFollowsCache
  VolumeArrives
  NearestRate
