SPECIFICATION Spec
CONSTANTS
  ENCODER_CNT_MAX = 2
  WordSize = 8
  MaxBack = 2
  MaxPosition = 5
  ShortSize = 8
  Debounce = 1
  TargetValue = 1
  NoTarget = NoTarget
INVARIANTS
  TypeOK
  WrapsCounted
  ReadsBelt
PROPERTIES
  PulseJudgedByDistance
  ActsPastTarget
