SPECIFICATION Spec
CONSTANTS
  e1 = e1
  l1 = l1
  l2 = l2
  NoLight = NoLight
  NoAction = NoAction
  Encoders = {e1}
  Lights = {l1, l2}
  Module_Count = 2
  ModuleConfig <- TwoSensors
  maxTrackingObjects = 2
  moduleQueueDepth = 1
  MaxEncoder = 3
  MaxCaptures = 3
  MaxResults = 0
INVARIANTS
  ObjectIDsUnique
  AliveIsCarriedOrDropped
  CarriedHasSlot
PROPERTIES
  ImplementsLine
