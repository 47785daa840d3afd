SPECIFICATION FairSpec
CONSTANTS
  MaxOverflows = 63
INVARIANTS
  TypeOK
  CaptureInStep
PROPERTIES
  ReportsHavePulses
  
