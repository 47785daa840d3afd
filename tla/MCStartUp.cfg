CONSTANTS
  maxTrackingModule = 2
  maxActionSingleModule = 2
  ActionNames = {"propActionRequestMachineData", "ActionSetOutput", "ActionPushOut"}
  RequestMachineData = "propActionRequestMachineData"
  Files <- MCFiles
  InternalAttempts = 5
  DtcmAttempts = 6
SPECIFICATION FairSpec
INVARIANTS
  TypeOK
  DetectionReadsFile
PROPERTIES
  CableBringsUp
  
