\* The older driver: a long press that ends during a conversion.
CONSTANTS
  Points <- NearAndFar
  ReportsRelease = FALSE
SPECIFICATION Spec
INVARIANT
  LongPressEnds
