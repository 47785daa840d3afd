SPECIFICATION FairSpec
CONSTANTS
  e1 = e1
  l1 = l1
  l2 = l2
  NoLight = NoLight
  NoAction = NoAction
  Encoders = {e1}
  Lights = {l1}
  Module_Count = 2
  ModuleConfig <- DataThenPusher
  maxTrackingObjects = 2
  moduleQueueDepth = 1
  MaxEncoder = 3
  MaxCaptures = 2
  MaxResults = 0
PROPERTIES
  EveryObjectLeaves
