------------------------- MODULE ObjectTrackingProofs -------------------------
(***************************************************************************)
(* The theorems about ObjectTracking, for every line, buffer size and      *)
(* bound, in three parts.                                                  *)
(*                                                                         *)
(* Types and numbers: type correctness, and that no two live slots, entries*)
(* or deliveries are confused, since object identifiers are unique.        *)
(*                                                                         *)
(* The history of an object: the modules act on it only after it was       *)
(* created in them or handed to them, and on a line that runs one way none *)
(* of its actions is carried out twice.                                    *)
(*                                                                         *)
(* Where an object is: a slot of ObjectBuffer, and what carries it on, a   *)
(* pending take-over or push-out, a delivery, or its creation under way.   *)
(* On a line that runs one way, a live slot has a carrier unless the object*)
(* was dropped; when every section has one action that carries objects on, *)
(* an object has at most one carrier, and keeps its slot while it is       *)
(* carried.  Its push-out then finds that slot, and goes by the result the *)
(* PC gave for it, and the object is where an object of ConveyorLine may   *)
(* be.                                                                     *)
(***************************************************************************)
EXTENDS TrackedLine, FiniteSetTheorems, TLAPS

-----------------------------------------------------------------------------
(* Part one: types and numbers.                                            *)

-----------------------------------------------------------------------------
(* What the helpers return.                                                *)

LEMMA ModuleFacts ==
  /\ 0 \in Modules
  /\ 0 \in Slots
  /\ Modules \subseteq Nat
  /\ Slots \subseteq Nat
BY ConfigAssumption DEF Modules, Slots

LEMMA ConfigType ==
  ASSUME NEW m \in Modules
  PROVE  /\ ModuleConfig[m] \in ModuleConfiguration
         /\ ModuleConfig[m].Encoder \in Encoders
         /\ Light(m) # NoLight => Light(m) \in Lights
         /\ NumberOfActions(m) \in Nat
<1>1. ModuleConfig[m] \in ModuleConfiguration
  BY ConfigAssumption
<1>2. ModuleConfig[m].Actions \in Seq(ActionInstance)
  BY <1>1 DEF ModuleConfiguration
<1>. QED
  BY <1>1, <1>2 DEF ModuleConfiguration, Light, NumberOfActions

LEMMA ActionAtType ==
  ASSUME NEW m \in Modules, NEW k \in Nat
  PROVE  ActionAt(m, k) \in ActionInstance
<1>1. ModuleConfig[m].Actions \in Seq(ActionInstance)
  BY ConfigType DEF ModuleConfiguration
<1>2. CASE k \in 1 .. NumberOfActions(m)
  BY <1>1, <1>2 DEF ActionAt, NumberOfActions
<1>3. CASE k \notin 1 .. NumberOfActions(m)
  BY <1>3, ModuleFacts DEF ActionAt, ActionInstance, ActionTypes
<1>. QED
  BY <1>2, <1>3

LEMMA ListItemType ==
  ASSUME NEW m \in Modules, NEW id \in Nat, NEW now \in Nat, NEW k \in Nat
  PROVE  /\ ListItem(m, id, now, k) \in ActionListItem
         /\ ListItem(m, id, now, k).ObjectID = id
         /\ ListItem(m, id, now, k) # NoAction
<1>1. ActionAt(m, k) \in ActionInstance
  BY ActionAtType
<1>2. ActionAt(m, k).TargetValue \in Nat
  BY <1>1 DEF ActionInstance
<1>3. now + ActionAt(m, k).TargetValue \in Nat
  BY <1>2
<1>4. ListItem(m, id, now, k) \in ActionListItem
  BY <1>3 DEF ListItem, ActionListItem
<1>. QED
  BY <1>4, ConfigAssumption DEF ListItem

LEMMA FreeRankType ==
  ASSUME NEW list, NEW s
  PROVE  FreeRank(list, s) \in Nat
<1>1. IsFiniteSet(Slots)
  BY FS_Interval, ConfigAssumption DEF Slots
<1>2. IsFiniteSet({t \in Slots : t <= s /\ list[t] = NoAction})
  BY <1>1, FS_Subset
<1>. QED
  BY <1>2, FS_CardinalityType DEF FreeRank

\* An action list after AddActionToList: still a list, whose entries are old
\* ones, or new ones of the object added in free slots.
LEMMA AddAllActionsType ==
  ASSUME NEW list \in [Slots -> ActionListItem \cup {NoAction}],
         NEW m \in Modules, NEW id \in Nat, NEW now \in Nat
  PROVE  LET new == AddAllActions(list, m, id, now)
         IN /\ new \in [Slots -> ActionListItem \cup {NoAction}]
            /\ \A s \in Slots :
                 \/ new[s] = list[s]
                 \/ list[s] = NoAction /\ new[s] # NoAction /\ new[s].ObjectID = id
<1>. DEFINE new == AddAllActions(list, m, id, now)
<1>1. ASSUME NEW s \in Slots
      PROVE  /\ new[s] \in ActionListItem \cup {NoAction}
             /\ \/ new[s] = list[s]
                \/ list[s] = NoAction /\ new[s] # NoAction /\ new[s].ObjectID = id
  <2>1. CASE list[s] = NoAction /\ FreeRank(list, s) \in 1 .. NumberOfActions(m)
    <3>1. new[s] = ListItem(m, id, now, FreeRank(list, s))
      BY <2>1 DEF AddAllActions
    <3>2. FreeRank(list, s) \in Nat
      BY FreeRankType
    <3>3. /\ new[s] \in ActionListItem
          /\ new[s].ObjectID = id
          /\ new[s] # NoAction
      BY <3>1, <3>2, ListItemType
    <3>. HIDE DEF new
    <3>. QED
      BY <2>1, <3>3
  <2>2. CASE ~(list[s] = NoAction /\ FreeRank(list, s) \in 1 .. NumberOfActions(m))
    <3>1. new[s] = list[s]
      BY <2>2 DEF AddAllActions
    <3>. QED
      BY <3>1
  <2>. QED
    BY <2>1, <2>2
<1>2. new = [s \in Slots |-> new[s]]
  BY DEF AddAllActions
<1>. QED
  BY <1>1, <1>2

LEMMA AddOneActionType ==
  ASSUME NEW list \in [Slots -> ActionListItem \cup {NoAction}],
         NEW m \in Modules, NEW id \in Nat, NEW now \in Nat, NEW k \in Nat
  PROVE  LET new == AddOneAction(list, m, id, now, k)
         IN /\ new \in [Slots -> ActionListItem \cup {NoAction}]
            /\ \A s \in Slots :
                 \/ new[s] = list[s]
                 \/ list[s] = NoAction /\ new[s] # NoAction /\ new[s].ObjectID = id
<1>. DEFINE new == AddOneAction(list, m, id, now, k)
<1>1. ASSUME NEW s \in Slots
      PROVE  /\ new[s] \in ActionListItem \cup {NoAction}
             /\ \/ new[s] = list[s]
                \/ list[s] = NoAction /\ new[s] # NoAction /\ new[s].ObjectID = id
  <2>1. CASE list[s] = NoAction /\ FreeRank(list, s) = 1
    <3>1. new[s] = ListItem(m, id, now, k)
      BY <2>1 DEF AddOneAction
    <3>2. /\ new[s] \in ActionListItem
          /\ new[s].ObjectID = id
          /\ new[s] # NoAction
      BY <3>1, ListItemType
    <3>. HIDE DEF new
    <3>. QED
      BY <2>1, <3>2
  <2>2. CASE ~(list[s] = NoAction /\ FreeRank(list, s) = 1)
    <3>1. new[s] = list[s]
      BY <2>2 DEF AddOneAction
    <3>. QED
      BY <3>1
  <2>. QED
    BY <2>1, <2>2
<1>2. new = [s \in Slots |-> new[s]]
  BY DEF AddOneAction
<1>. QED
  BY <1>1, <1>2

-----------------------------------------------------------------------------
(* What stays as it was keeps its type.                                    *)

LEMMA Frames ==
  ASSUME TypeOK
  PROVE  /\ UNCHANGED sharedVars => SharedTypeOK'
         /\ UNCHANGED worldVars => WorldTypeOK'
         /\ UNCHANGED odVars => OdTypeOK'
         /\ UNCHANGED <<trVars, ObjectInModuleList>> => TrTypeOK'
         /\ UNCHANGED history => HistoryTypeOK'
         /\ UNCHANGED executeVars => ExecuteTypeOK'
<1>1. UNCHANGED sharedVars => SharedTypeOK'
  BY DEF TypeOK, SharedTypeOK, sharedVars
<1>2. UNCHANGED worldVars => WorldTypeOK'
  BY DEF TypeOK, WorldTypeOK, worldVars
<1>3. UNCHANGED odVars => OdTypeOK'
  BY DEF TypeOK, OdTypeOK, odVars, triggerVars
<1>4. UNCHANGED <<trVars, ObjectInModuleList>> => TrTypeOK'
  BY DEF TypeOK, TrTypeOK, trVars, Item
<1>5. UNCHANGED history => HistoryTypeOK'
  BY DEF TypeOK, HistoryTypeOK, history
<1>6. UNCHANGED executeVars => ExecuteTypeOK'
  BY DEF TypeOK, ExecuteTypeOK, executeVars
<1>. QED
  BY <1>1, <1>2, <1>3, <1>4, <1>5, <1>6

LEMMA NotifyType ==
  ASSUME ExecuteTypeOK, NEW v \in Messages, Notify(v)
  PROVE  ExecuteTypeOK'
BY DEF ExecuteTypeOK, Notify, Messages, NoMessage, Message_TrrigerCamera,
       Message_TrrigerSensor, Message_TrrigerOutput, Message_TrrigerPush

LEMMA InitType == Init => TypeOK
<1>. SUFFICES ASSUME Init PROVE TypeOK
  OBVIOUS
<1>1. SharedTypeOK
  BY ModuleFacts DEF Init, SharedTypeOK, ObjectInfo
<1>2. WorldTypeOK
  BY DEF Init, WorldTypeOK
<1>3. OdTypeOK
  BY ModuleFacts, ConfigAssumption DEF Init, OdTypeOK
<1>4. TrTypeOK
  BY ModuleFacts, ConfigAssumption DEF Init, TrTypeOK
<1>5. HistoryTypeOK
  <2>1. born = <<>> /\ requested = {} /\ pushed = {} /\ outOfBounds = FALSE
    BY DEF Init
  <2>2. born \in Seq(Modules)
    BY <2>1
  <2>. QED
    BY <2>1, <2>2 DEF HistoryTypeOK
<1>6. ExecuteTypeOK
  BY DEF Init, ExecuteInit, ExecuteTypeOK, NoMessage, Messages
<1>. QED
  BY <1>1, <1>2, <1>3, <1>4, <1>5, <1>6 DEF TypeOK

LEMMA WorldType == TypeOK /\ World => TypeOK'
<1>. SUFFICES ASSUME TypeOK, World PROVE TypeOK'
  OBVIOUS
<1>1. WorldTypeOK'
  <2>1. ASSUME NEW e \in Encoders, Move(e) PROVE WorldTypeOK'
    BY <2>1 DEF Move, TypeOK, WorldTypeOK
  <2>2. ASSUME NEW l \in Lights, Capture(l) PROVE WorldTypeOK'
    BY <2>2 DEF Capture, TypeOK, WorldTypeOK
  <2>3. CASE ClientsChange
    BY <2>3 DEF ClientsChange, TypeOK, WorldTypeOK
  <2>. QED
    BY <2>1, <2>2, <2>3 DEF World
<1>2. UNCHANGED <<sharedVars, odVars, trVars, history, executeVars>>
  BY DEF World, Move, Capture, ClientsChange
<1>. QED
  BY <1>1, <1>2, Frames DEF TypeOK, sharedVars

-----------------------------------------------------------------------------
(* The steps of ObjectDetection.                                           *)

LEMMA NowType ==
  ASSUME TypeOK, NEW m \in Modules
  PROVE  Now(m) \in Nat
BY ConfigType DEF TypeOK, OdTypeOK, Now

LEMMA DeliveredType ==
  ASSUME TypeOK, NEW m \in Modules, Delivered(m)
  PROVE  /\ DeliveredID(m) \in Nat
         /\ Received(m) \in [Modules -> Seq(ModuleQueueItem)]
<1>1. ModuleQueue \in [Modules -> Seq(ModuleQueueItem)]
  BY DEF TypeOK, SharedTypeOK
<1>2. /\ Head(ModuleQueue[m]) \in ModuleQueueItem
      /\ Tail(ModuleQueue[m]) \in Seq(ModuleQueueItem)
  BY <1>1 DEF Delivered
<1>3. DeliveredID(m) \in Nat
  BY <1>2 DEF DeliveredID, ModuleQueueItem
<1>4. Received(m) \in [Modules -> Seq(ModuleQueueItem)]
  BY <1>1, <1>2 DEF Received
<1>. QED
  BY <1>3, <1>4

LEMMA TakeLightType ==
  ASSUME TypeOK, NEW m \in Modules, TakeLight(m)
  PROVE  /\ captured' \in [Lights -> BOOLEAN]
         /\ LS_EncoderNumTem' \in [Lights -> Nat]
         /\ triggerInterval' \in Int
<1>1. Now(m) \in Nat
  BY NowType
<1>2. Light(m) # NoLight => Light(m) \in Lights
  BY ConfigType
<1>3. /\ captured \in [Lights -> BOOLEAN]
      /\ LS_EncoderNumTem \in [Lights -> Nat]
      /\ triggerInterval \in Int
  BY DEF TypeOK, WorldTypeOK, OdTypeOK
<1>4. Interval(m) \in Int
  BY <1>1, <1>2, <1>3 DEF Interval, LightTaken
<1>. QED
  BY <1>1, <1>2, <1>3, <1>4 DEF TakeLight, LightTaken

LEMMA NextModuleType ==
  ASSUME TypeOK, NextModule
  PROVE  odPc' \in {"delay", "scan"} /\ odModule' \in Modules
<1>1. odModule \in 0 .. Module_Count - 1
  BY DEF TypeOK, OdTypeOK, Modules
<1>2. Module_Count \in Nat \ {0}
  BY ConfigAssumption
<1>. QED
  BY <1>1, <1>2 DEF NextModule, Modules

\* What Tracking found due stays in the list ObjectDetection adds to.
LEMMA KeepsItem ==
  ASSUME TypeOK, NEW m \in Modules,
         NEW list \in [Slots -> ActionListItem \cup {NoAction}],
         \A s \in Slots : \/ list[s] = ObjectInModuleList[m][s]
                          \/ ObjectInModuleList[m][s] = NoAction,
         ObjectInModuleList' = [ObjectInModuleList EXCEPT ![m] = list],
         UNCHANGED trVars
  PROVE  TrTypeOK'
<1>1. /\ ObjectInModuleList \in [Modules -> [Slots -> ActionListItem \cup {NoAction}]]
      /\ trModule \in Modules
      /\ trAction \in Slots
  BY DEF TypeOK, SharedTypeOK, TrTypeOK
<1>2. ASSUME Item \in ActionListItem PROVE Item' = Item
  <2>1. Item # NoAction
    BY <1>2, ConfigAssumption
  <2>2. Item' = ObjectInModuleList'[trModule][trAction]
    BY DEF Item, trVars
  <2>. QED
    BY <1>1, <2>1, <2>2 DEF Item
<1>. QED
  BY <1>2 DEF TypeOK, TrTypeOK, trVars

LEMMA CreateObjectType ==
  ASSUME TypeOK, NEW m \in Modules, NEW dropped, CreateObject(m, dropped)
  PROVE  /\ ObjectBuffer' \in [Slots -> ObjectInfo]
         /\ GlobalObjectID' \in Nat
         /\ GlobalObjectCount' \in Slots
         /\ born' \in Seq(Modules)
<1>1. PICK s \in Slots :
        /\ ObjectBuffer' = [ObjectBuffer EXCEPT ![s] = NewObject(GlobalObjectID)]
        /\ GlobalObjectID' = NextID
        /\ GlobalObjectCount' = s
        /\ born' = Append(born, m)
  BY DEF CreateObject
<1>2. NewObject(GlobalObjectID) \in ObjectInfo
  BY DEF TypeOK, SharedTypeOK, NewObject, ObjectInfo
<1>3. /\ ObjectBuffer' \in [Slots -> ObjectInfo]
      /\ GlobalObjectID' \in Nat
  BY <1>1, <1>2 DEF TypeOK, SharedTypeOK, NextID
<1>4. born' \in Seq(Modules)
  BY <1>1 DEF TypeOK, HistoryTypeOK
<1>. QED
  BY <1>1, <1>3, <1>4

LEMMA OdStartType == TypeOK /\ OdStart => TypeOK'
<1>. SUFFICES ASSUME TypeOK, OdStart PROVE TypeOK'
  OBVIOUS
<1>1. OdTypeOK'
  BY DEF OdStart, TypeOK, OdTypeOK, WorldTypeOK, triggerVars
<1>2. UNCHANGED <<sharedVars, worldVars, trVars, history, executeVars>>
  BY DEF OdStart
<1>. QED
  BY <1>1, <1>2, Frames DEF TypeOK, sharedVars

LEMMA OdAcceptType == TypeOK /\ OdAccept => TypeOK'
<1>. SUFFICES ASSUME TypeOK, OdAccept PROVE TypeOK'
  OBVIOUS
<1>. DEFINE m == odModule
            id == DeliveredID(m)
            list == AddAllActions(ObjectInModuleList[m], m, id, Now(m))
<1>1. m \in Modules /\ Delivered(m) /\ TakeLight(m) /\ NextModule
  BY DEF OdAccept, TypeOK, OdTypeOK
<1>2. id \in Nat /\ Received(m) \in [Modules -> Seq(ModuleQueueItem)]
  BY <1>1, DeliveredType
<1>3. ObjectInModuleList[m] \in [Slots -> ActionListItem \cup {NoAction}]
  BY <1>1 DEF TypeOK, SharedTypeOK
<1>4. Now(m) \in Nat
  BY <1>1, NowType
<1>5. /\ list \in [Slots -> ActionListItem \cup {NoAction}]
      /\ \A s \in Slots : \/ list[s] = ObjectInModuleList[m][s]
                          \/ ObjectInModuleList[m][s] = NoAction
  BY <1>1, <1>2, <1>3, <1>4, AddAllActionsType
<1>6. ObjectInModuleList' = [ObjectInModuleList EXCEPT ![m] = list]
  BY DEF OdAccept
<1>7. SharedTypeOK'
  BY <1>1, <1>2, <1>5, <1>6 DEF OdAccept, TypeOK, SharedTypeOK
<1>8. WorldTypeOK'
  BY <1>1, TakeLightType DEF OdAccept, TypeOK, WorldTypeOK
<1>9. OdTypeOK'
  BY <1>1, TakeLightType, NextModuleType, ConfigType
  DEF OdAccept, TypeOK, OdTypeOK
<1>10. TrTypeOK'
  <2>1. UNCHANGED trVars
    BY DEF OdAccept
  <2>. QED
    BY <1>1, <1>5, <1>6, <2>1, KeepsItem
<1>11. HistoryTypeOK'
  BY DEF OdAccept, TypeOK, HistoryTypeOK
<1>12. ExecuteTypeOK'
  BY Frames DEF OdAccept
<1>. QED
  BY <1>7, <1>8, <1>9, <1>10, <1>11, <1>12 DEF TypeOK

LEMMA OdDropType == TypeOK /\ OdDrop => TypeOK'
<1>. SUFFICES ASSUME TypeOK, OdDrop PROVE TypeOK'
  OBVIOUS
<1>1. /\ odModule \in Modules
      /\ Delivered(odModule)
      /\ TakeLight(odModule)
      /\ NextModule
  BY DEF OdDrop, TypeOK, OdTypeOK
<1>2. SharedTypeOK'
  BY <1>1, DeliveredType DEF OdDrop, TypeOK, SharedTypeOK
<1>3. WorldTypeOK'
  BY <1>1, TakeLightType DEF OdDrop, TypeOK, WorldTypeOK
<1>4. OdTypeOK'
  BY <1>1, TakeLightType, NextModuleType DEF OdDrop, TypeOK, OdTypeOK
<1>5. TrTypeOK' /\ ExecuteTypeOK'
  BY Frames DEF OdDrop
<1>6. HistoryTypeOK'
  BY DEF OdDrop, TypeOK, HistoryTypeOK
<1>. QED
  BY <1>2, <1>3, <1>4, <1>5, <1>6 DEF TypeOK

LEMMA OdDetectType == TypeOK /\ OdDetect => TypeOK'
<1>. SUFFICES ASSUME TypeOK, OdDetect PROVE TypeOK'
  OBVIOUS
<1>1. /\ odModule \in Modules
      /\ TakeLight(odModule)
      /\ CreateObject(odModule, {})
  BY DEF OdDetect, TypeOK, OdTypeOK
<1>2. SharedTypeOK'
  BY <1>1, CreateObjectType DEF OdDetect, TypeOK, SharedTypeOK
<1>3. WorldTypeOK'
  BY <1>1, TakeLightType DEF OdDetect, TypeOK, WorldTypeOK
<1>4. OdTypeOK'
  <2>1. GlobalObjectCount' \in Slots /\ Slots \subseteq 0 .. maxTrackingObjects
    BY <1>1, CreateObjectType, ConfigAssumption DEF Slots
  <2>. QED
    BY <1>1, <2>1, TakeLightType DEF OdDetect, TypeOK, OdTypeOK
<1>5. TrTypeOK' /\ ExecuteTypeOK'
  BY Frames DEF OdDetect
<1>6. HistoryTypeOK'
  BY <1>1, CreateObjectType DEF OdDetect, TypeOK, HistoryTypeOK
<1>. QED
  BY <1>2, <1>3, <1>4, <1>5, <1>6 DEF TypeOK

LEMMA OdReplaceType == TypeOK /\ OdReplace => TypeOK'
<1>. SUFFICES ASSUME TypeOK, OdReplace PROVE TypeOK'
  OBVIOUS
<1>. DEFINE late == {<<DeliveredID(odModule), "window">>}
<1>1. /\ odModule \in Modules
      /\ Delivered(odModule)
      /\ TakeLight(odModule)
      /\ CreateObject(odModule, late)
  BY DEF OdReplace, TypeOK, OdTypeOK
<1>. HIDE DEF late
<1>2. SharedTypeOK'
  BY <1>1, CreateObjectType, DeliveredType DEF OdReplace, TypeOK, SharedTypeOK
<1>3. WorldTypeOK'
  BY <1>1, TakeLightType DEF OdReplace, TypeOK, WorldTypeOK
<1>4. OdTypeOK'
  <2>1. GlobalObjectCount' \in Slots /\ Slots \subseteq 0 .. maxTrackingObjects
    BY <1>1, CreateObjectType, ConfigAssumption DEF Slots
  <2>. QED
    BY <1>1, <2>1, TakeLightType DEF OdReplace, TypeOK, OdTypeOK
<1>5. TrTypeOK' /\ ExecuteTypeOK'
  BY Frames DEF OdReplace
<1>6. HistoryTypeOK'
  BY <1>1, CreateObjectType DEF OdReplace, TypeOK, HistoryTypeOK
<1>. QED
  BY <1>2, <1>3, <1>4, <1>5, <1>6 DEF TypeOK

LEMMA OdAddActionsType == TypeOK /\ OdAddActions => TypeOK'
<1>. SUFFICES ASSUME TypeOK, OdAddActions PROVE TypeOK'
  OBVIOUS
<1>. DEFINE m == odModule
            id == ObjectBuffer[GlobalObjectCount].ObjectID
            old == ObjectInModuleList[m]
            list == IF addAll THEN AddAllActions(old, m, id, Now(m))
                              ELSE AddOneAction(old, m, id, Now(m), Action_i + 1)
<1>1. /\ m \in Modules
      /\ GlobalObjectCount \in Slots
      /\ NextModule
      /\ Action_i + 1 \in Nat
  <2>1. odPc = "sending" /\ NextModule
    BY DEF OdAddActions
  <2>. QED
    BY <2>1 DEF TypeOK, OdTypeOK
<1>2. id \in Nat
  BY <1>1 DEF TypeOK, SharedTypeOK, ObjectInfo
<1>3. old \in [Slots -> ActionListItem \cup {NoAction}]
  BY <1>1 DEF TypeOK, SharedTypeOK
<1>4. Now(m) \in Nat
  BY <1>1, NowType
<1>5. /\ list \in [Slots -> ActionListItem \cup {NoAction}]
      /\ \A s \in Slots : list[s] = old[s] \/ old[s] = NoAction
  <2>. HIDE DEF m, id, old
  <2>1. CASE addAll
    BY <1>1, <1>2, <1>3, <1>4, <2>1, AddAllActionsType
  <2>2. CASE ~addAll
    BY <1>1, <1>2, <1>3, <1>4, <2>2, AddOneActionType
  <2>. QED
    BY <2>1, <2>2
<1>6. ObjectInModuleList' = [ObjectInModuleList EXCEPT ![m] = list]
  BY DEF OdAddActions
<1>7. SharedTypeOK'
  BY <1>1, <1>5, <1>6 DEF OdAddActions, TypeOK, SharedTypeOK
<1>8. WorldTypeOK' /\ ExecuteTypeOK'
  BY Frames DEF OdAddActions
<1>9. OdTypeOK'
  <2>1. GlobalObjectCount' = GlobalObjectCount + 1
    BY DEF OdAddActions
  <2>2. GlobalObjectCount' \in 0 .. maxTrackingObjects
    BY <1>1, <2>1, ConfigAssumption DEF Slots
  <2>. QED
    BY <1>1, <2>2, NextModuleType, ConfigType DEF OdAddActions, TypeOK, OdTypeOK
<1>10. TrTypeOK'
  <2>1. UNCHANGED trVars
    BY DEF OdAddActions
  <2>. QED
    BY <1>1, <1>5, <1>6, <2>1, KeepsItem
<1>11. HistoryTypeOK'
  BY DEF OdAddActions, TypeOK, HistoryTypeOK
<1>. QED
  BY <1>7, <1>8, <1>9, <1>10, <1>11 DEF TypeOK

LEMMA OdSkipType == TypeOK /\ OdSkip => TypeOK'
<1>. SUFFICES ASSUME TypeOK, OdSkip PROVE TypeOK'
  OBVIOUS
<1>1. odModule \in Modules /\ TakeLight(odModule) /\ NextModule
  BY DEF OdSkip, TypeOK, OdTypeOK
<1>2. WorldTypeOK'
  BY <1>1, TakeLightType DEF OdSkip, TypeOK, WorldTypeOK
<1>3. OdTypeOK'
  <2>1. AddActiveFlag' \in BOOLEAN
    BY DEF OdSkip
  <2>. QED
    BY <1>1, <2>1, TakeLightType, NextModuleType DEF OdSkip, TypeOK, OdTypeOK
<1>4. SharedTypeOK' /\ TrTypeOK' /\ HistoryTypeOK' /\ ExecuteTypeOK'
  BY Frames DEF OdSkip, sharedVars
<1>. QED
  BY <1>2, <1>3, <1>4 DEF TypeOK

-----------------------------------------------------------------------------
(* The steps of Tracking.                                                  *)

LEMMA ItemActionType ==
  ASSUME TypeOK, Item \in ActionListItem
  PROVE  ItemAction \in ActionInstance
<1>1. trModule \in Modules /\ Item.ActionNumber \in Nat
  BY DEF TypeOK, TrTypeOK, ActionListItem
<1>. QED
  BY <1>1, ActionAtType DEF ItemAction

LEMMA DueItem ==
  ASSUME TypeOK, Due
  PROVE  Item \in ActionListItem /\ Item.ObjectID \in Nat
<1>1. Item \in ActionListItem
  BY DEF TypeOK, SharedTypeOK, TrTypeOK, Due, Item
<1>. QED
  BY <1>1 DEF ActionListItem

LEMMA NextEntryType ==
  ASSUME TypeOK, NextEntry
  PROVE  /\ trPc' \in {"delay", "scan"}
         /\ trModule' \in Modules
         /\ trAction' \in Slots
<1>1. /\ trModule \in 0 .. Module_Count - 1
      /\ trAction \in 0 .. maxTrackingObjects - 1
  BY DEF TypeOK, TrTypeOK, Modules, Slots
<1>2. Module_Count \in Nat \ {0} /\ maxTrackingObjects \in Nat \ {0}
  BY ConfigAssumption
<1>. QED
  BY <1>1, <1>2 DEF NextEntry, Modules, Slots

LEMMA TrStartType == TypeOK /\ TrStart => TypeOK'
<1>. SUFFICES ASSUME TypeOK, TrStart PROVE TypeOK'
  OBVIOUS
<1>1. TrTypeOK'
  BY DEF TrStart, TypeOK, TrTypeOK, WorldTypeOK
<1>2. UNCHANGED <<sharedVars, worldVars, odVars, history, executeVars>>
  BY DEF TrStart
<1>. QED
  BY <1>1, <1>2, Frames DEF TypeOK

LEMMA TrPassType == TypeOK /\ TrPass => TypeOK'
<1>. SUFFICES ASSUME TypeOK, TrPass PROVE TypeOK'
  OBVIOUS
<1>1. TrTypeOK'
  BY NextEntryType DEF TrPass, TypeOK, TrTypeOK
<1>2. UNCHANGED <<sharedVars, worldVars, odVars, history, executeVars>>
  BY DEF TrPass
<1>. QED
  BY <1>1, <1>2, Frames DEF TypeOK

\* After a step from "scan" that leaves the lists and the position alone.
LEMMA StaysAtItem ==
  ASSUME TypeOK, Due, trPc' \in {"found", "clear"},
         UNCHANGED <<ObjectInModuleList, trModule, trAction, trEncoder>>,
         object_i' \in 0 .. maxTrackingObjects
  PROVE  TrTypeOK'
<1>1. Item' = Item
  BY DEF Item
<1>. QED
  BY <1>1, DueItem DEF TypeOK, TrTypeOK

LEMMA FireHistory ==
  ASSUME TypeOK, UNCHANGED <<born, requested, pushed, outOfBounds>>
  PROVE  HistoryTypeOK'
BY DEF TypeOK, HistoryTypeOK

LEMMA TrOutputType == TypeOK /\ TrOutput => TypeOK'
<1>. SUFFICES ASSUME TypeOK, TrOutput PROVE TypeOK'
  OBVIOUS
<1>1. PICK type \in {"SetOutput", "TriggerCamera", "TriggerSensor"} :
        /\ Fire(type)
        /\ Notify(MessageOf(type))
        /\ trPc' = "clear"
        /\ UNCHANGED <<sharedVars, worldVars, odVars, trModule, trAction,
                       trEncoder, object_i, born, lost, requested, pushed,
                       outOfBounds>>
  BY DEF TrOutput
<1>2. TrTypeOK'
  BY <1>1, StaysAtItem DEF Fire, TypeOK, TrTypeOK, sharedVars
<1>3. ExecuteTypeOK'
  <2>1. MessageOf(type) \in Messages
    BY DEF MessageOf, Messages
  <2>. QED
    BY <1>1, <2>1, NotifyType DEF TypeOK
<1>. QED
  BY <1>1, <1>2, <1>3, Frames, FireHistory DEF TypeOK

LEMMA TrRequestMachineDataType == TypeOK /\ TrRequestMachineData => TypeOK'
<1>. SUFFICES ASSUME TypeOK, TrRequestMachineData PROVE TypeOK'
  OBVIOUS
<1>1. TrTypeOK'
  BY StaysAtItem DEF TrRequestMachineData, Fire, TypeOK, TrTypeOK, sharedVars
<1>2. UNCHANGED <<sharedVars, worldVars, odVars, executeVars>>
  BY DEF TrRequestMachineData
<1>3. HistoryTypeOK'
  BY FireHistory DEF TrRequestMachineData
<1>. QED
  BY <1>1, <1>2, <1>3, Frames DEF TypeOK

LEMMA TrTakeOverType == TypeOK /\ TrTakeOver => TypeOK'
<1>. SUFFICES ASSUME TypeOK, TrTakeOver PROVE TypeOK'
  OBVIOUS
<1>. DEFINE dest == ItemAction.DestinationModule
            item == [DelieverdObjectID |-> Item.ObjectID,
                     DelieverdEncoderNum |->
                       trEncoder[ModuleConfig[dest].Encoder]]
<1>1. Due /\ UNCHANGED <<ObjectBuffer, ObjectInModuleList, GlobalObjectID>>
  BY DEF TrTakeOver, Fire
<1>2. Item.ObjectID \in Nat /\ dest \in Modules
  BY <1>1, DueItem, ItemActionType DEF ActionInstance
<1>3. item \in ModuleQueueItem
  <2>1. ModuleConfig[dest].Encoder \in Encoders
    BY <1>2, ConfigType
  <2>. QED
    BY <1>2, <2>1 DEF ModuleQueueItem, TypeOK, TrTypeOK
<1>4. ModuleQueue' \in [Modules -> Seq(ModuleQueueItem)]
  <2>1. \/ ModuleQueue' = [ModuleQueue EXCEPT ![dest] = Append(@, item)]
        \/ ModuleQueue' = ModuleQueue
    BY DEF TrTakeOver
  <2>2. ModuleQueue \in [Modules -> Seq(ModuleQueueItem)]
    BY DEF TypeOK, SharedTypeOK
  <2>3. Append(ModuleQueue[dest], item) \in Seq(ModuleQueueItem)
    BY <1>2, <1>3, <2>2
  <2>. QED
    BY <1>2, <2>1, <2>2, <2>3
<1>5. SharedTypeOK'
  BY <1>1, <1>4 DEF TypeOK, SharedTypeOK
<1>6. TrTypeOK'
  BY <1>1, StaysAtItem DEF TrTakeOver, TypeOK, TrTypeOK
<1>7. HistoryTypeOK'
  BY FireHistory DEF TrTakeOver
<1>8. UNCHANGED <<worldVars, odVars, executeVars>>
  BY DEF TrTakeOver
<1>. QED
  BY <1>5, <1>6, <1>7, <1>8, Frames DEF TypeOK

LEMMA TrFindObjectType == TypeOK /\ TrFindObject => TypeOK'
<1>. SUFFICES ASSUME TypeOK, TrFindObject PROVE TypeOK'
  OBVIOUS
<1>1. TrTypeOK'
  BY StaysAtItem DEF TrFindObject, sharedVars
<1>2. UNCHANGED <<sharedVars, worldVars, odVars, history, executeVars>>
  BY DEF TrFindObject
<1>. QED
  BY <1>1, <1>2, Frames DEF TypeOK

\* The result decided on, whatever it was: the pusher is commanded or not.
LEMMA PushType ==
  ASSUME TypeOK, trPc = "found",
         \/ UNCHANGED <<pushed, executeVars>>
         \/ Notify(Message_TrrigerPush) /\ pushed' = pushed \cup {Item.ObjectID}
  PROVE  pushed' \subseteq Nat /\ ExecuteTypeOK'
<1>1. Item.ObjectID \in Nat
  BY DEF TypeOK, TrTypeOK, ActionListItem
<1>2. Message_TrrigerPush \in Messages
  BY DEF Messages
<1>3. CASE UNCHANGED <<pushed, executeVars>>
  BY <1>3, Frames DEF TypeOK, HistoryTypeOK
<1>4. CASE Notify(Message_TrrigerPush) /\ pushed' = pushed \cup {Item.ObjectID}
  BY <1>1, <1>2, <1>4, NotifyType DEF TypeOK, HistoryTypeOK
<1>. QED
  BY <1>3, <1>4

LEMMA TrPushType == TypeOK /\ (TrPush \/ TrPushOutOfBounds) => TypeOK'
<1>. SUFFICES ASSUME TypeOK, TrPush \/ TrPushOutOfBounds PROVE TypeOK'
  OBVIOUS
<1>1. /\ trPc = "found"
      /\ trPc' = "decided"
      /\ outOfBounds' \in {outOfBounds, TRUE}
      /\ \/ UNCHANGED <<pushed, executeVars>>
         \/ Notify(Message_TrrigerPush) /\ pushed' = pushed \cup {Item.ObjectID}
      /\ UNCHANGED <<sharedVars, worldVars, odVars, trModule, trAction,
                     trEncoder, object_i, born, fired, lost, requested>>
  BY DEF TrPush, TrPushOutOfBounds
<1>2. TrTypeOK'
  BY <1>1 DEF TypeOK, TrTypeOK, Item, sharedVars
<1>3. pushed' \subseteq Nat /\ ExecuteTypeOK'
  BY <1>1, PushType
<1>4. HistoryTypeOK'
  BY <1>1, <1>3 DEF TypeOK, HistoryTypeOK
<1>. QED
  BY <1>1, <1>2, <1>3, <1>4, Frames DEF TypeOK

LEMMA TrFreeType == TypeOK /\ TrFree => TypeOK'
<1>. SUFFICES ASSUME TypeOK, TrFree PROVE TypeOK'
  OBVIOUS
<1>1. /\ trPc = "decided"
      /\ trPc' = "clear"
      /\ \/ object_i \in Slots /\ ObjectBuffer' = Freed(object_i)
         \/ UNCHANGED ObjectBuffer
      /\ UNCHANGED <<ObjectInModuleList, ModuleQueue, GlobalObjectID, worldVars,
                     odVars, trModule, trAction, trEncoder, object_i, born,
                     requested, pushed, outOfBounds, executeVars>>
  BY DEF TrFree
<1>2. SharedTypeOK'
  BY <1>1 DEF Freed, TypeOK, SharedTypeOK, ObjectInfo
<1>3. TrTypeOK'
  BY <1>1 DEF TypeOK, TrTypeOK, Item
<1>4. HistoryTypeOK'
  BY <1>1, FireHistory
<1>. QED
  BY <1>1, <1>2, <1>3, <1>4, Frames DEF TypeOK

LEMMA TrClearType == TypeOK /\ TrClear => TypeOK'
<1>. SUFFICES ASSUME TypeOK, TrClear PROVE TypeOK'
  OBVIOUS
<1>1. ObjectInModuleList' \in [Modules -> [Slots -> ActionListItem \cup {NoAction}]]
  BY DEF TrClear, Cleared, TypeOK, SharedTypeOK, TrTypeOK
<1>2. SharedTypeOK'
  BY <1>1 DEF TrClear, TypeOK, SharedTypeOK
<1>3. TrTypeOK'
  <2>1. NextEntry /\ UNCHANGED <<trEncoder, object_i>>
    BY DEF TrClear
  <2>. QED
    BY <2>1, NextEntryType DEF TypeOK, TrTypeOK
<1>4. UNCHANGED <<worldVars, odVars, history, executeVars>>
  BY DEF TrClear
<1>. QED
  BY <1>2, <1>3, <1>4, Frames DEF TypeOK

-----------------------------------------------------------------------------
(* The other tasks, and every step.                                        *)

LEMMA STM32GetPushResultType ==
  ASSUME TypeOK, NEW id \in Nat, STM32GetPushResult(id)
  PROVE  TypeOK'
<1>1. SharedTypeOK' /\ outOfBounds' \in BOOLEAN
  <2>1. \/ /\ \E s \in Slots :
                ObjectBuffer' = [ObjectBuffer EXCEPT ![s].ProcessedResult = FALSE]
           /\ UNCHANGED outOfBounds
        \/ outOfBounds' = TRUE /\ UNCHANGED ObjectBuffer
    BY DEF STM32GetPushResult
  <2>2. outOfBounds' \in BOOLEAN
    BY <2>1, Zenon DEF TypeOK, HistoryTypeOK
  <2>3. ASSUME NEW s \in Slots,
               ObjectBuffer' = [ObjectBuffer EXCEPT ![s].ProcessedResult = FALSE]
        PROVE  ObjectBuffer' \in [Slots -> ObjectInfo]
    <3>1. ObjectBuffer[s] \in ObjectInfo
      BY DEF TypeOK, SharedTypeOK
    <3>2. [ObjectBuffer[s] EXCEPT !.ProcessedResult = FALSE] \in ObjectInfo
      BY <3>1 DEF ObjectInfo
    <3>. QED
      BY <2>3, <3>2 DEF TypeOK, SharedTypeOK
  <2>4. ObjectBuffer' \in [Slots -> ObjectInfo]
    BY <2>1, <2>3 DEF TypeOK, SharedTypeOK
  <2>. QED
    BY <2>2, <2>4 DEF STM32GetPushResult, TypeOK, SharedTypeOK
<1>2. HistoryTypeOK'
  BY <1>1 DEF STM32GetPushResult, TypeOK, HistoryTypeOK
<1>3. UNCHANGED <<ObjectInModuleList, worldVars, odVars, trVars, executeVars>>
  BY DEF STM32GetPushResult
<1>. QED
  BY <1>1, <1>2, <1>3, Frames DEF TypeOK

LEMMA ActionExecuteThreadType == TypeOK /\ ActionExecuteThread => TypeOK'
<1>. SUFFICES ASSUME TypeOK, ActionExecuteThread PROVE TypeOK'
  OBVIOUS
<1>1. ExecuteTypeOK'
  BY DEF ActionExecuteThread, ExecuteStep, PulseEnd, TakeNotification, TypeOK,
         ExecuteTypeOK, NoMessage, Messages
<1>2. UNCHANGED <<sharedVars, worldVars, odVars, trVars, history>>
  BY DEF ActionExecuteThread
<1>. QED
  BY <1>1, <1>2, Frames DEF TypeOK, sharedVars

LEMMA NextType == TypeOK /\ [Next]_vars => TypeOK'
<1>. SUFFICES ASSUME TypeOK, [Next]_vars PROVE TypeOK'
  OBVIOUS
<1>1. CASE World
  BY <1>1, WorldType
<1>2. CASE ObjectDetectionThread
  BY <1>2, OdStartType, OdAcceptType, OdDropType, OdDetectType, OdReplaceType,
     OdAddActionsType, OdSkipType DEF ObjectDetectionThread
<1>3. CASE TrackingThread
  BY <1>3, TrStartType, TrPassType, TrOutputType, TrRequestMachineDataType,
     TrTakeOverType, TrFindObjectType, TrPushType, TrFreeType, TrClearType DEF TrackingThread
<1>4. ASSUME NEW id \in 0 .. GlobalObjectID - 1, STM32GetPushResult(id)
      PROVE  TypeOK'
  BY <1>4, STM32GetPushResultType
<1>5. CASE ActionExecuteThread
  BY <1>5, ActionExecuteThreadType
<1>6. CASE UNCHANGED vars
  BY <1>6, Frames DEF vars, TypeOK, sharedVars
<1>. QED
  BY <1>1, <1>2, <1>3, <1>4, <1>5, <1>6 DEF Next

\* The memory the tasks share stays well formed: the loops stay inside their
\* arrays (Tracking.c:74-82, ObjectDetection.c:153), the slot CreateObject
\* returned is one of ObjectBuffer (ObjectDetection.c:249), and the entry
\* Tracking works on stays alive until Tracking clears it (Tracking.c:156).
THEOREM TypeCorrect == Spec => []TypeOK
<1>. QED
  BY InitType, NextType, PTL DEF Spec

-----------------------------------------------------------------------------
(* ObjectIDsUnique is inductive, given the types.                          *)

\* Steps that leave the IDs of the slots and revive none of them.
LEMMA SlotsKept ==
  ASSUME TypeOK, TypeOK', ObjectIDsUnique,
         UNCHANGED GlobalObjectID,
         odPc' = "sending" => odPc = "sending" /\ UNCHANGED GlobalObjectCount,
         \A s \in Slots :
           /\ ObjectBuffer'[s].ObjectID = ObjectBuffer[s].ObjectID
           /\ ObjectBuffer'[s].objectAliveFlag => ObjectBuffer[s].objectAliveFlag
  PROVE  UniqueIDs' /\ NumberedSlots'
<1>1. AliveSlots' \subseteq AliveSlots
  BY DEF AliveSlots
<1>2. UniqueIDs'
  BY <1>1 DEF ObjectIDsUnique, UniqueIDs, AliveSlots
<1>3. NumberedSlots'
  BY <1>1 DEF ObjectIDsUnique, NumberedSlots, AliveSlots, TypeOK, OdTypeOK
<1>. QED
  BY <1>2, <1>3

\* Steps that add to one list only entries of a numbered object.
LEMMA EntriesKept ==
  ASSUME TypeOK, NumberedEntries, NEW m \in Modules, NEW id \in Nat, NEW list,
         id < GlobalObjectID,
         UNCHANGED GlobalObjectID,
         ObjectInModuleList' = [ObjectInModuleList EXCEPT ![m] = list],
         \A s \in Slots : \/ list[s] = ObjectInModuleList[m][s]
                          \/ list[s].ObjectID = id
  PROVE  NumberedEntries'
BY DEF NumberedEntries, TypeOK, SharedTypeOK

LEMMA QueueItemType ==
  ASSUME TypeOK, NEW m \in Modules, NEW q \in 1 .. Len(ModuleQueue[m])
  PROVE  ModuleQueue[m][q].DelieverdObjectID \in Nat
<1>1. ModuleQueue[m] \in Seq(ModuleQueueItem)
  BY DEF TypeOK, SharedTypeOK
<1>2. ModuleQueue[m][q] \in ModuleQueueItem
  BY <1>1
<1>. QED
  BY <1>2 DEF ModuleQueueItem

\* The queue a delivery was received from.
LEMMA DeliveriesKept ==
  ASSUME TypeOK, NumberedDeliveries, NEW m \in Modules, Delivered(m),
         GlobalObjectID' \in {GlobalObjectID, GlobalObjectID + 1},
         ModuleQueue' = Received(m)
  PROVE  NumberedDeliveries' /\ DeliveredID(m) < GlobalObjectID
<1>1. ModuleQueue \in [Modules -> Seq(ModuleQueueItem)] /\ ModuleQueue[m] # <<>>
  BY DEF TypeOK, SharedTypeOK, Delivered
<1>2. Len(ModuleQueue[m]) \in Nat /\ 1 \in 1 .. Len(ModuleQueue[m])
  BY <1>1
<1>3. DeliveredID(m) < GlobalObjectID
  BY <1>1, <1>2 DEF NumberedDeliveries, DeliveredID
<1>. GlobalObjectID \in Nat /\ ModuleQueue[m] \in Seq(ModuleQueueItem)
  BY <1>1 DEF TypeOK, SharedTypeOK
<1>4. ASSUME NEW n \in Modules, NEW q \in 1 .. Len(ModuleQueue'[n])
      PROVE  ModuleQueue'[n][q].DelieverdObjectID < GlobalObjectID'
  <2>. \A k \in Modules : \A r \in 1 .. Len(ModuleQueue[k]) :
         ModuleQueue[k][r].DelieverdObjectID \in Nat
    BY QueueItemType
  <2>1. CASE n = m
    <3>1. ModuleQueue'[n] = Tail(ModuleQueue[m])
      BY <1>1, <2>1 DEF Received
    <3>2. /\ q + 1 \in 1 .. Len(ModuleQueue[m])
          /\ ModuleQueue'[n][q] = ModuleQueue[m][q + 1]
      BY <1>1, <3>1
    <3>. QED
      BY <3>2 DEF NumberedDeliveries
  <2>2. CASE n # m
    BY <1>1, <1>4, <2>2 DEF Received, NumberedDeliveries
  <2>. QED
    BY <2>1, <2>2
<1>. QED
  BY <1>3, <1>4 DEF NumberedDeliveries

\* A new object's ID is above every ID in use.
LEMMA CreatedIDs ==
  ASSUME TypeOK, ObjectIDsUnique, NEW m \in Modules, NEW dropped,
         CreateObject(m, dropped)
  PROVE  UniqueIDs' /\ NumberedSlots' /\ GlobalObjectID' = GlobalObjectID + 1
<1>1. PICK s \in Slots :
        /\ ObjectBuffer' = [ObjectBuffer EXCEPT ![s] = NewObject(GlobalObjectID)]
        /\ GlobalObjectID' = NextID
        /\ GlobalObjectCount' = s
  BY DEF CreateObject
<1>2. /\ ObjectBuffer \in [Slots -> ObjectInfo]
      /\ GlobalObjectID \in Nat
      /\ GlobalObjectID' = GlobalObjectID + 1
  BY <1>1 DEF TypeOK, SharedTypeOK, NextID
<1>3. /\ ObjectBuffer'[s].ObjectID = GlobalObjectID
      /\ \A t \in Slots \ {s} : ObjectBuffer'[t] = ObjectBuffer[t]
  BY <1>1, <1>2 DEF NewObject
<1>4. \A t \in AliveSlots' : \/ t = s
                             \/ /\ t \in AliveSlots \ {s}
                                /\ ObjectBuffer'[t] = ObjectBuffer[t]
  BY <1>3 DEF AliveSlots
<1>5. \A t \in AliveSlots : ObjectBuffer[t].ObjectID \in Nat /\ ObjectBuffer[t].ObjectID < GlobalObjectID
  BY <1>2 DEF ObjectIDsUnique, NumberedSlots, AliveSlots, ObjectInfo
<1>6. UniqueIDs'
  BY <1>2, <1>3, <1>4, <1>5 DEF ObjectIDsUnique, UniqueIDs
<1>7. NumberedSlots'
  BY <1>1, <1>2, <1>3, <1>4, <1>5 DEF NumberedSlots
<1>. QED
  BY <1>2, <1>6, <1>7

\* Steps that leave every name of an object as it was.
LEMMA NamesKept ==
  ASSUME TypeOK, TypeOK', ObjectIDsUnique,
         UNCHANGED <<ObjectInModuleList, ModuleQueue, GlobalObjectID>>,
         odPc' = "sending" => odPc = "sending" /\ UNCHANGED GlobalObjectCount,
         \A s \in Slots :
           /\ ObjectBuffer'[s].ObjectID = ObjectBuffer[s].ObjectID
           /\ ObjectBuffer'[s].objectAliveFlag => ObjectBuffer[s].objectAliveFlag
  PROVE  ObjectIDsUnique'
<1>1. NumberedEntries' /\ NumberedDeliveries'
  BY DEF ObjectIDsUnique, NumberedEntries, NumberedDeliveries
<1>. QED
  BY <1>1, SlotsKept DEF ObjectIDsUnique

LEMMA IDsOdAccept == TypeOK /\ TypeOK' /\ ObjectIDsUnique /\ OdAccept => ObjectIDsUnique'
<1>. SUFFICES ASSUME TypeOK, TypeOK', ObjectIDsUnique, OdAccept
              PROVE  ObjectIDsUnique'
  OBVIOUS
<1>. DEFINE m == odModule
            id == DeliveredID(m)
            old == ObjectInModuleList[m]
            list == AddAllActions(old, m, id, Now(m))
<1>1. /\ m \in Modules
      /\ Delivered(m)
      /\ ModuleQueue' = Received(m)
      /\ NextModule
      /\ UNCHANGED <<ObjectBuffer, GlobalObjectID>>
      /\ ObjectInModuleList' = [ObjectInModuleList EXCEPT ![m] = list]
  BY DEF OdAccept, TypeOK, OdTypeOK
<1>2. NumberedDeliveries' /\ id < GlobalObjectID
  BY <1>1, DeliveriesKept DEF ObjectIDsUnique
<1>3. id \in Nat /\ Now(m) \in Nat /\ old \in [Slots -> ActionListItem \cup {NoAction}]
  BY <1>1, DeliveredType, NowType DEF TypeOK, SharedTypeOK
<1>4. \A s \in Slots : list[s] = old[s] \/ list[s].ObjectID = id
  BY <1>1, <1>3, AddAllActionsType
<1>5. NumberedEntries'
  BY <1>1, <1>2, <1>3, <1>4, EntriesKept DEF ObjectIDsUnique
<1>6. UniqueIDs' /\ NumberedSlots'
  BY <1>1, SlotsKept, NextModuleType
<1>. QED
  BY <1>2, <1>5, <1>6 DEF ObjectIDsUnique

LEMMA IDsOdDrop == TypeOK /\ TypeOK' /\ ObjectIDsUnique /\ OdDrop => ObjectIDsUnique'
<1>. SUFFICES ASSUME TypeOK, TypeOK', ObjectIDsUnique, OdDrop
              PROVE  ObjectIDsUnique'
  OBVIOUS
<1>1. /\ odModule \in Modules
      /\ Delivered(odModule)
      /\ ModuleQueue' = Received(odModule)
      /\ NextModule
      /\ UNCHANGED <<ObjectBuffer, ObjectInModuleList, GlobalObjectID>>
  BY DEF OdDrop, TypeOK, OdTypeOK
<1>2. NumberedDeliveries'
  BY <1>1, DeliveriesKept DEF ObjectIDsUnique
<1>3. NumberedEntries'
  BY <1>1 DEF ObjectIDsUnique, NumberedEntries
<1>4. UniqueIDs' /\ NumberedSlots'
  BY <1>1, SlotsKept, NextModuleType
<1>. QED
  BY <1>2, <1>3, <1>4 DEF ObjectIDsUnique

\* What was numbered stays numbered when the counter goes up.
LEMMA CounterGrows ==
  ASSUME TypeOK, ObjectIDsUnique, GlobalObjectID' = GlobalObjectID + 1
  PROVE  /\ UNCHANGED ObjectInModuleList => NumberedEntries'
         /\ UNCHANGED ModuleQueue => NumberedDeliveries'
<1>. GlobalObjectID \in Nat
  BY DEF TypeOK, SharedTypeOK
<1>1. ASSUME UNCHANGED ObjectInModuleList PROVE NumberedEntries'
  <2>1. \A m \in Modules, s \in Slots :
          ObjectInModuleList[m][s] # NoAction
            => ObjectInModuleList[m][s].ObjectID \in Nat
    BY DEF TypeOK, SharedTypeOK, ActionListItem
  <2>. QED
    BY <1>1, <2>1 DEF ObjectIDsUnique, NumberedEntries
<1>2. ASSUME UNCHANGED ModuleQueue PROVE NumberedDeliveries'
  <2>1. \A m \in Modules : \A q \in 1 .. Len(ModuleQueue[m]) :
          ModuleQueue[m][q].DelieverdObjectID \in Nat
    BY QueueItemType
  <2>. QED
    BY <1>2, <2>1 DEF ObjectIDsUnique, NumberedDeliveries
<1>. QED
  BY <1>1, <1>2

LEMMA IDsOdDetect == TypeOK /\ ObjectIDsUnique /\ OdDetect => ObjectIDsUnique'
<1>. SUFFICES ASSUME TypeOK, ObjectIDsUnique, OdDetect PROVE ObjectIDsUnique'
  OBVIOUS
<1>1. /\ odModule \in Modules
      /\ CreateObject(odModule, {})
      /\ UNCHANGED <<ObjectInModuleList, ModuleQueue>>
  BY DEF OdDetect, TypeOK, OdTypeOK
<1>. QED
  BY <1>1, CreatedIDs, CounterGrows DEF ObjectIDsUnique

LEMMA IDsOdReplace == TypeOK /\ ObjectIDsUnique /\ OdReplace => ObjectIDsUnique'
<1>. SUFFICES ASSUME TypeOK, ObjectIDsUnique, OdReplace PROVE ObjectIDsUnique'
  OBVIOUS
<1>1. /\ odModule \in Modules
      /\ Delivered(odModule)
      /\ ModuleQueue' = Received(odModule)
      /\ CreateObject(odModule, {<<DeliveredID(odModule), "window">>})
      /\ UNCHANGED ObjectInModuleList
  BY DEF OdReplace, TypeOK, OdTypeOK
<1>2. UniqueIDs' /\ NumberedSlots' /\ GlobalObjectID' = GlobalObjectID + 1
  BY <1>1, CreatedIDs
<1>3. NumberedEntries'
  BY <1>1, <1>2, CounterGrows
<1>4. NumberedDeliveries'
  BY <1>1, <1>2, DeliveriesKept DEF ObjectIDsUnique
<1>. QED
  BY <1>2, <1>3, <1>4 DEF ObjectIDsUnique

LEMMA IDsOdAddActions ==
  TypeOK /\ TypeOK' /\ ObjectIDsUnique /\ OdAddActions => ObjectIDsUnique'
<1>. SUFFICES ASSUME TypeOK, TypeOK', ObjectIDsUnique, OdAddActions
              PROVE  ObjectIDsUnique'
  OBVIOUS
<1>. DEFINE m == odModule
            id == ObjectBuffer[GlobalObjectCount].ObjectID
            old == ObjectInModuleList[m]
            list == IF addAll THEN AddAllActions(old, m, id, Now(m))
                              ELSE AddOneAction(old, m, id, Now(m), Action_i + 1)
<1>1. /\ odPc = "sending"
      /\ NextModule
      /\ ObjectInModuleList' = [ObjectInModuleList EXCEPT ![m] = list]
      /\ UNCHANGED <<ObjectBuffer, ModuleQueue, GlobalObjectID>>
  BY DEF OdAddActions
<1>2. m \in Modules /\ GlobalObjectCount \in Slots /\ Action_i + 1 \in Nat
  BY <1>1 DEF TypeOK, OdTypeOK
<1>3. /\ id \in Nat
      /\ Now(m) \in Nat
      /\ old \in [Slots -> ActionListItem \cup {NoAction}]
      /\ id < GlobalObjectID
  BY <1>1, <1>2, NowType
  DEF TypeOK, SharedTypeOK, ObjectInfo, ObjectIDsUnique, NumberedSlots
<1>4. \A s \in Slots : list[s] = old[s] \/ list[s].ObjectID = id
  <2>. HIDE DEF m, id, old
  <2>1. CASE addAll
    BY <1>2, <1>3, <2>1, AddAllActionsType
  <2>2. CASE ~addAll
    BY <1>2, <1>3, <2>2, AddOneActionType
  <2>. QED
    BY <2>1, <2>2
<1>5. NumberedEntries'
  <2>1. NumberedEntries
    BY DEF ObjectIDsUnique
  <2>2. UNCHANGED GlobalObjectID
    BY <1>1
  <2>3. \A s \in Slots : list[s] = ObjectInModuleList[m][s] \/ list[s].ObjectID = id
    BY <1>4
  <2>4. ObjectInModuleList' = [ObjectInModuleList EXCEPT ![m] = list]
    BY <1>1
  <2>5. m \in Modules /\ id \in Nat /\ id < GlobalObjectID
    BY <1>2, <1>3
  <2>. HIDE DEF list, id, m
  <2>. QED
    BY <2>1, <2>2, <2>3, <2>4, <2>5, EntriesKept
<1>6. UniqueIDs' /\ NumberedSlots'
  BY <1>1, SlotsKept, NextModuleType
<1>7. NumberedDeliveries'
  BY <1>1 DEF ObjectIDsUnique, NumberedDeliveries
<1>. QED
  BY <1>5, <1>6, <1>7 DEF ObjectIDsUnique

LEMMA IDsTrTakeOver ==
  TypeOK /\ TypeOK' /\ ObjectIDsUnique /\ TrTakeOver => ObjectIDsUnique'
<1>. SUFFICES ASSUME TypeOK, TypeOK', ObjectIDsUnique, TrTakeOver
              PROVE  ObjectIDsUnique'
  OBVIOUS
<1>. DEFINE dest == ItemAction.DestinationModule
            item == [DelieverdObjectID |-> Item.ObjectID,
                     DelieverdEncoderNum |->
                       trEncoder[ModuleConfig[dest].Encoder]]
<1>1. /\ Due
      /\ UNCHANGED <<ObjectBuffer, ObjectInModuleList, GlobalObjectID, odVars>>
      /\ \/ ModuleQueue' = [ModuleQueue EXCEPT ![dest] = Append(@, item)]
         \/ UNCHANGED ModuleQueue
  BY DEF TrTakeOver, Fire
<1>2. dest \in Modules /\ item.DelieverdObjectID < GlobalObjectID
  <2>1. /\ Item \in ActionListItem
        /\ trModule \in Modules
        /\ trAction \in Slots
    BY <1>1, DueItem DEF TypeOK, TrTypeOK
  <2>2. Item.ObjectID < GlobalObjectID
    BY <1>1, <2>1 DEF Due, Item, ObjectIDsUnique, NumberedEntries
  <2>. QED
    BY <2>1, <2>2, ItemActionType DEF ActionInstance
<1>3. NumberedDeliveries'
  <2>. HIDE DEF dest, item
  <2>1. ModuleQueue \in [Modules -> Seq(ModuleQueueItem)]
    BY DEF TypeOK, SharedTypeOK
  <2>2. ASSUME NEW n \in Modules, NEW q \in 1 .. Len(ModuleQueue'[n])
        PROVE  ModuleQueue'[n][q].DelieverdObjectID < GlobalObjectID'
    <3>1. CASE q \in 1 .. Len(ModuleQueue[n])
      <4>1. ModuleQueue'[n] \in {ModuleQueue[n], Append(ModuleQueue[n], item)}
        BY <1>1, <1>2, <2>1
      <4>2. ModuleQueue[n] \in Seq(ModuleQueueItem)
        BY <2>1
      <4>3. Append(ModuleQueue[n], item)[q] = ModuleQueue[n][q]
        BY <3>1, <4>2
      <4>. QED
        BY <1>1, <3>1, <4>1, <4>3 DEF ObjectIDsUnique, NumberedDeliveries
    <3>2. CASE q \notin 1 .. Len(ModuleQueue[n])
      <4>1. ModuleQueue'[n] = Append(ModuleQueue[n], item)
        BY <1>1, <1>2, <2>1, <2>2, <3>2
      <4>2. /\ ModuleQueue[n] \in Seq(ModuleQueueItem)
            /\ Len(ModuleQueue[n]) \in Nat
        BY <2>1
      <4>3. q = Len(ModuleQueue[n]) + 1
        <5>1. Len(ModuleQueue'[n]) = Len(ModuleQueue[n]) + 1
          BY <4>1, <4>2
        <5>. QED
          BY <2>2, <3>2, <4>2, <5>1
      <4>4. ModuleQueue'[n][q] = item
        BY <4>1, <4>2, <4>3
      <4>. QED
        BY <1>1, <1>2, <4>4
    <3>. QED
      BY <3>1, <3>2
  <2>. QED
    BY <2>2 DEF NumberedDeliveries
<1>4. NumberedEntries'
  BY <1>1 DEF ObjectIDsUnique, NumberedEntries
<1>5. UniqueIDs' /\ NumberedSlots'
  BY <1>1, SlotsKept DEF odVars
<1>. QED
  BY <1>3, <1>4, <1>5 DEF ObjectIDsUnique

LEMMA IDsTrClear ==
  TypeOK /\ TypeOK' /\ ObjectIDsUnique /\ TrClear => ObjectIDsUnique'
<1>. SUFFICES ASSUME TypeOK, TypeOK', ObjectIDsUnique, TrClear
              PROVE  ObjectIDsUnique'
  OBVIOUS
<1>1. UNCHANGED <<ObjectBuffer, ModuleQueue, GlobalObjectID, odVars>>
  BY DEF TrClear
<1>2. \A m \in Modules, s \in Slots :
        \/ ObjectInModuleList'[m][s] = ObjectInModuleList[m][s]
        \/ ObjectInModuleList'[m][s] = NoAction
  BY DEF TrClear, Cleared, TypeOK, SharedTypeOK, TrTypeOK
<1>3. NumberedEntries'
  BY <1>1, <1>2 DEF ObjectIDsUnique, NumberedEntries
<1>4. UniqueIDs' /\ NumberedSlots'
  BY <1>1, SlotsKept DEF odVars
<1>5. NumberedDeliveries'
  BY <1>1 DEF ObjectIDsUnique, NumberedDeliveries
<1>. QED
  BY <1>3, <1>4, <1>5 DEF ObjectIDsUnique

\* Freeing a slot, or setting its result, leaves its ID.
LEMMA IDsTrFree ==
  TypeOK /\ TypeOK' /\ ObjectIDsUnique /\ TrFree => ObjectIDsUnique'
<1>. SUFFICES ASSUME TypeOK, TypeOK', ObjectIDsUnique, TrFree
              PROVE  ObjectIDsUnique'
  OBVIOUS
<1>1. /\ \/ object_i \in Slots /\ ObjectBuffer' = Freed(object_i)
         \/ UNCHANGED ObjectBuffer
      /\ UNCHANGED <<ObjectInModuleList, ModuleQueue, GlobalObjectID, odVars>>
  BY DEF TrFree
<1>2. \A s \in Slots :
        /\ ObjectBuffer'[s].ObjectID = ObjectBuffer[s].ObjectID
        /\ ObjectBuffer'[s].objectAliveFlag => ObjectBuffer[s].objectAliveFlag
  BY <1>1 DEF Freed, TypeOK, SharedTypeOK, ObjectInfo
<1>. QED
  BY <1>1, <1>2, NamesKept DEF odVars

LEMMA IDsSTM32GetPushResult ==
  ASSUME TypeOK, TypeOK', ObjectIDsUnique, NEW id, STM32GetPushResult(id)
  PROVE  ObjectIDsUnique'
<1>1. /\ \/ UNCHANGED ObjectBuffer
         \/ \E s \in Slots :
              ObjectBuffer' = [ObjectBuffer EXCEPT ![s].ProcessedResult = FALSE]
      /\ UNCHANGED <<ObjectInModuleList, ModuleQueue, GlobalObjectID, odVars>>
  BY DEF STM32GetPushResult
<1>2. \A s \in Slots :
        /\ ObjectBuffer'[s].ObjectID = ObjectBuffer[s].ObjectID
        /\ ObjectBuffer'[s].objectAliveFlag => ObjectBuffer[s].objectAliveFlag
  BY <1>1 DEF TypeOK, SharedTypeOK, ObjectInfo
<1>. QED
  BY <1>1, <1>2, NamesKept DEF odVars

LEMMA InitIDs == Init => ObjectIDsUnique
<1>. SUFFICES ASSUME Init PROVE ObjectIDsUnique
  OBVIOUS
<1>1. AliveSlots = {} /\ odPc = "delay"
  BY DEF Init, AliveSlots
<1>2. NumberedEntries
  BY DEF Init, NumberedEntries
<1>3. NumberedDeliveries
  BY DEF Init, NumberedDeliveries
<1>. QED
  BY <1>1, <1>2, <1>3 DEF ObjectIDsUnique, UniqueIDs, NumberedSlots

LEMMA NextIDs == TypeOK /\ TypeOK' /\ ObjectIDsUnique /\ [Next]_vars => ObjectIDsUnique'
<1>. SUFFICES ASSUME TypeOK, TypeOK', ObjectIDsUnique, [Next]_vars
              PROVE  ObjectIDsUnique'
  OBVIOUS
<1>1. CASE World
  <2>1. UNCHANGED <<sharedVars, odVars>>
    BY <1>1 DEF World, Move, Capture, ClientsChange
  <2>. QED
    BY <2>1, NamesKept DEF sharedVars, odVars
<1>2. CASE ObjectDetectionThread
  <2>1. CASE OdStart
    BY <2>1, NamesKept DEF OdStart, sharedVars
  <2>2. CASE OdSkip
    BY <2>2, NamesKept, NextModuleType DEF OdSkip, sharedVars
  <2>. QED
    BY <1>2, <2>1, <2>2, IDsOdAccept, IDsOdDrop, IDsOdDetect, IDsOdReplace,
       IDsOdAddActions DEF ObjectDetectionThread
<1>3. CASE TrackingThread
  <2>1. CASE TrStart \/ TrPass \/ TrOutput \/ TrRequestMachineData
               \/ TrFindObject \/ TrPush \/ TrPushOutOfBounds
    <3>1. UNCHANGED <<sharedVars, odVars>>
      BY <2>1 DEF TrStart, TrPass, TrOutput, TrRequestMachineData, TrFindObject,
                  TrPush, TrPushOutOfBounds
    <3>. QED
      BY <3>1, NamesKept DEF sharedVars, odVars
  <2>. QED
    BY <1>3, <2>1, IDsTrTakeOver, IDsTrFree, IDsTrClear DEF TrackingThread
<1>4. ASSUME NEW id \in 0 .. GlobalObjectID - 1, STM32GetPushResult(id)
      PROVE  ObjectIDsUnique'
  BY <1>4, IDsSTM32GetPushResult
<1>5. CASE ActionExecuteThread
  BY <1>5, NamesKept DEF ActionExecuteThread, sharedVars, odVars
<1>6. CASE UNCHANGED vars
  BY <1>6, NamesKept DEF vars, sharedVars, odVars
<1>. QED
  BY <1>1, <1>2, <1>3, <1>4, <1>5, <1>6 DEF Next

\* No two live objects share an ObjectID, and no slot, pending action or
\* delivery names an ID not yet given out: the searches by ObjectID
\* (Tracking.c:131, DataProcess.c:129) never confuse two live objects.
THEOREM IDsCorrect == Spec => []ObjectIDsUnique
<1>. QED
  BY InitType, InitIDs, NextType, NextIDs, PTL DEF Spec
-----------------------------------------------------------------------------
(* Part two: the history of an object.                                     *)

-----------------------------------------------------------------------------
(* ActsOnlyWhereReached and what makes it inductive: the history covers    *)
(* exactly the objects numbered so far, and the module at work on a new    *)
(* object is the one it was born in.                                       *)

FiredReached == \A x \in fired : Reached(x[1], x[2])

EntriesReached ==
  \A m \in Modules, s \in Slots :
    ObjectInModuleList[m][s] # NoAction
      => Reached(ObjectInModuleList[m][s].ObjectID, m)

DeliveriesReached ==
  \A m \in Modules : \A q \in 1 .. Len(ModuleQueue[m]) :
    Reached(ModuleQueue[m][q].DelieverdObjectID, m)

HistoryNumbered ==
  /\ Len(born) = GlobalObjectID
  /\ \A x \in fired : x[1] \in Nat /\ x[1] < GlobalObjectID

CreationReached ==
  odPc = "sending" => Reached(ObjectBuffer[GlobalObjectCount].ObjectID, odModule)

ReachedInv ==
  /\ FiredReached
  /\ EntriesReached
  /\ DeliveriesReached
  /\ HistoryNumbered
  /\ CreationReached

\* The history only grows, by at most one object a step.
HistoryGrows ==
  /\ fired \subseteq fired'
  /\ \/ UNCHANGED <<born, GlobalObjectID>>
     \/ \E m \in Modules : /\ born' = Append(born, m)
                           /\ GlobalObjectID' = GlobalObjectID + 1

LEMMA BornKept ==
  ASSUME TypeOK, HistoryNumbered, NEW id \in Nat, id < GlobalObjectID
  PROVE  /\ born[id + 1] \in Modules
         /\ HistoryGrows => born'[id + 1] = born[id + 1]
<1>1. born \in Seq(Modules) /\ Len(born) = GlobalObjectID
  BY DEF TypeOK, HistoryTypeOK, HistoryNumbered
<1>2. id + 1 \in 1 .. Len(born)
  BY <1>1
<1>3. ASSUME NEW n \in Modules, born' = Append(born, n)
      PROVE  born'[id + 1] = born[id + 1]
  BY <1>1, <1>2, <1>3
<1>4. HistoryGrows => born'[id + 1] = born[id + 1]
  BY <1>3 DEF HistoryGrows
<1>. QED
  BY <1>1, <1>2, <1>4

LEMMA ReachedKept ==
  ASSUME TypeOK, HistoryNumbered, HistoryGrows,
         NEW id \in Nat, NEW m, id < GlobalObjectID, Reached(id, m)
  PROVE  Reached(id, m)'
<1>1. CASE born[id + 1] = m
  BY <1>1, BornKept DEF Reached
<1>2. CASE born[id + 1] # m
  BY <1>2 DEF Reached, HistoryGrows
<1>. QED
  BY <1>1, <1>2

\* What a step leaves alone stays reached.
LEMMA ReachedFrames ==
  ASSUME TypeOK, ObjectIDsUnique, ReachedInv, HistoryGrows, NEW id, NEW m
  PROVE  /\ \A x \in fired : x[1] = id /\ x[2] = m => Reached(id, m)'
         /\ \A s \in Slots :
              /\ m \in Modules
              /\ ObjectInModuleList[m][s] # NoAction
              /\ ObjectInModuleList[m][s].ObjectID = id
              => id \in Nat /\ id < GlobalObjectID /\ Reached(id, m)'
         /\ \A q \in 1 .. Len(ModuleQueue[m]) :
              /\ m \in Modules
              /\ ModuleQueue[m][q].DelieverdObjectID = id
              => id \in Nat /\ id < GlobalObjectID /\ Reached(id, m)'
<1>. USE DEF ReachedInv
<1>1. ASSUME NEW x \in fired, x[1] = id, x[2] = m
      PROVE  Reached(id, m)'
  BY <1>1, ReachedKept DEF HistoryNumbered, FiredReached
<1>2. ASSUME NEW s \in Slots, m \in Modules,
             ObjectInModuleList[m][s] # NoAction,
             ObjectInModuleList[m][s].ObjectID = id
      PROVE  id \in Nat /\ id < GlobalObjectID /\ Reached(id, m)'
  <2>1. id \in Nat /\ id < GlobalObjectID
    BY <1>2 DEF TypeOK, SharedTypeOK, ActionListItem, ObjectIDsUnique, NumberedEntries
  <2>2. Reached(id, m)
    BY <1>2 DEF EntriesReached
  <2>. QED
    BY <2>1, <2>2, ReachedKept
<1>3. ASSUME NEW q \in 1 .. Len(ModuleQueue[m]), m \in Modules,
             ModuleQueue[m][q].DelieverdObjectID = id
      PROVE  id \in Nat /\ id < GlobalObjectID /\ Reached(id, m)'
  <2>1. id \in Nat /\ id < GlobalObjectID
    BY <1>3, QueueItemType DEF ObjectIDsUnique, NumberedDeliveries
  <2>2. Reached(id, m)
    BY <1>3 DEF DeliveriesReached
  <2>. QED
    BY <2>1, <2>2, ReachedKept
<1>. QED
  BY <1>1, <1>2, <1>3

\* An entry or a delivery may stay, go, or name an object reached by now.
LEMMA ReachedStep ==
  ASSUME TypeOK, TypeOK', ObjectIDsUnique, ReachedInv, HistoryGrows,
         \A m \in Modules, s \in Slots :
           ObjectInModuleList'[m][s] # NoAction
             => \/ ObjectInModuleList'[m][s] = ObjectInModuleList[m][s]
                \/ Reached(ObjectInModuleList[m][s].ObjectID, m)',
         \A m \in Modules : \A q \in 1 .. Len(ModuleQueue'[m]) :
           \/ \E r \in 1 .. Len(ModuleQueue[m]) :
                ModuleQueue'[m][q] = ModuleQueue[m][r]
           \/ Reached(ModuleQueue[m][q].DelieverdObjectID, m)'
  PROVE  EntriesReached' /\ DeliveriesReached'
<1>1. ASSUME NEW m \in Modules, NEW s \in Slots,
             ObjectInModuleList'[m][s] # NoAction
      PROVE  Reached(ObjectInModuleList[m][s].ObjectID, m)'
  <2>. DEFINE id == ObjectInModuleList[m][s].ObjectID
  <2>1. CASE ObjectInModuleList'[m][s] = ObjectInModuleList[m][s]
    <3>1. PICK i : i = id
      OBVIOUS
    <3>2. Reached(i, m)'
      BY <1>1, <2>1, <3>1, ReachedFrames
    <3>. QED
      BY <2>1, <3>1, <3>2
  <2>. QED
    BY <1>1, <2>1
<1>2. ASSUME NEW m \in Modules, NEW q \in 1 .. Len(ModuleQueue'[m])
      PROVE  Reached(ModuleQueue[m][q].DelieverdObjectID, m)'
  <2>1. ASSUME NEW r \in 1 .. Len(ModuleQueue[m]),
               ModuleQueue'[m][q] = ModuleQueue[m][r]
        PROVE  Reached(ModuleQueue[m][q].DelieverdObjectID, m)'
    <3>1. PICK i : i = ModuleQueue[m][r].DelieverdObjectID
      OBVIOUS
    <3>2. Reached(i, m)'
      BY <3>1, ReachedFrames
    <3>. QED
      BY <2>1, <3>1, <3>2
  <2>. QED
    BY <1>2, <2>1
<1>3. EntriesReached'
  BY <1>1 DEF EntriesReached
<1>4. DeliveriesReached'
  BY <1>2 DEF DeliveriesReached
<1>. QED
  BY <1>3, <1>4

\* A step that carries out nothing and numbers nothing.
LEMMA QuietHistory ==
  ASSUME TypeOK, ObjectIDsUnique, ReachedInv,
         UNCHANGED <<born, fired, GlobalObjectID>>
  PROVE  HistoryGrows /\ FiredReached' /\ HistoryNumbered'
BY DEF ReachedInv, HistoryGrows, FiredReached, HistoryNumbered, Reached

LEMMA CreationKept ==
  ASSUME TypeOK, TypeOK', ObjectIDsUnique, ReachedInv, HistoryGrows,
         odPc' = "sending" =>
           odPc = "sending" /\ UNCHANGED <<GlobalObjectCount, odModule>>,
         \A s \in Slots : ObjectBuffer'[s].ObjectID = ObjectBuffer[s].ObjectID
  PROVE  CreationReached'
<1>. SUFFICES ASSUME odPc' = "sending"
              PROVE  Reached(ObjectBuffer[GlobalObjectCount].ObjectID, odModule)'
  BY DEF CreationReached
<1>1. odPc = "sending" /\ UNCHANGED <<GlobalObjectCount, odModule>>
  OBVIOUS
<1>2. GlobalObjectCount \in Slots
  BY <1>1 DEF TypeOK, OdTypeOK
<1>3. PICK id : id = ObjectBuffer[GlobalObjectCount].ObjectID
  OBVIOUS
<1>4. PICK m : m = odModule
  OBVIOUS
<1>5. id \in Nat /\ id < GlobalObjectID
  BY <1>1, <1>2, <1>3
  DEF TypeOK, SharedTypeOK, ObjectInfo, ObjectIDsUnique, NumberedSlots
<1>6. Reached(id, m)
  BY <1>1, <1>3, <1>4 DEF ReachedInv, CreationReached
<1>7. Reached(id, m)'
  BY <1>5, <1>6, ReachedKept DEF ReachedInv
<1>8. id = ObjectBuffer'[GlobalObjectCount'].ObjectID /\ m = odModule'
  BY <1>1, <1>2, <1>3, <1>4
<1>. QED
  BY <1>7, <1>8

\* A step that leaves the lists, the queues and the history alone.
LEMMA ReachedQuiet ==
  ASSUME TypeOK, TypeOK', ObjectIDsUnique, ReachedInv,
         UNCHANGED <<born, fired, GlobalObjectID, ObjectInModuleList, ModuleQueue>>,
         odPc' = "sending" =>
           odPc = "sending" /\ UNCHANGED <<GlobalObjectCount, odModule>>,
         \A s \in Slots : ObjectBuffer'[s].ObjectID = ObjectBuffer[s].ObjectID
  PROVE  ReachedInv'
<1>1. HistoryGrows /\ FiredReached' /\ HistoryNumbered'
  BY QuietHistory
<1>2. EntriesReached' /\ DeliveriesReached'
  BY DEF ReachedInv, EntriesReached, DeliveriesReached, Reached
<1>3. CreationReached'
  BY <1>1, CreationKept
<1>. QED
  BY <1>1, <1>2, <1>3 DEF ReachedInv

\* Tracking carries out the action of the entry it found due.
LEMMA FireReached ==
  ASSUME TypeOK, ObjectIDsUnique, ReachedInv,
         Item \in ActionListItem,
         UNCHANGED <<born, GlobalObjectID>>,
         fired' = fired \cup {<<Item.ObjectID, trModule, Item.ActionNumber>>}
  PROVE  HistoryGrows /\ FiredReached' /\ HistoryNumbered'
<1>1. HistoryGrows
  BY DEF HistoryGrows
<1>2. PICK id, m, k : id = Item.ObjectID /\ m = trModule /\ k = Item.ActionNumber
  OBVIOUS
<1>3. /\ m \in Modules
      /\ trAction \in Slots
      /\ Item = ObjectInModuleList[m][trAction]
      /\ Item # NoAction
  BY <1>2, ConfigAssumption DEF TypeOK, TrTypeOK, Item
<1>4. id \in Nat /\ id < GlobalObjectID /\ Reached(id, m)'
  BY <1>1, <1>2, <1>3, ReachedFrames
<1>5. fired' = fired \cup {<<id, m, k>>}
  BY <1>2
<1>6. FiredReached'
  <2>1. ASSUME NEW x \in fired' PROVE Reached(x[1], x[2])'
    <3>1. PICK i, n : i = x[1] /\ n = x[2]
      OBVIOUS
    <3>2. Reached(i, n)'
      <4>1. CASE x \in fired
        BY <1>1, <3>1, <4>1, ReachedFrames
      <4>2. CASE x = <<id, m, k>>
        <5>1. i = id /\ n = m
          BY <3>1, <4>2
        <5>. QED
          BY <1>4, <5>1
      <4>. QED
        BY <1>5, <2>1, <4>1, <4>2
    <3>. QED
      BY <3>1, <3>2
  <2>. QED
    BY <2>1 DEF FiredReached
<1>7. HistoryNumbered'
  <2>1. ASSUME NEW x \in fired' PROVE x[1] \in Nat /\ x[1] < GlobalObjectID
    <3>1. CASE x \in fired
      BY <3>1 DEF ReachedInv, HistoryNumbered
    <3>2. CASE x = <<id, m, k>>
      BY <1>4, <3>2
    <3>. QED
      BY <1>5, <2>1, <3>1, <3>2
  <2>2. Len(born') = GlobalObjectID'
    BY DEF ReachedInv, HistoryNumbered
  <2>. QED
    BY <2>1, <2>2 DEF HistoryNumbered
<1>. QED
  BY <1>1, <1>6, <1>7

\* The delivery received was at the head of module m's queue.
LEMMA ReceivedReached ==
  ASSUME TypeOK, NEW m \in Modules, Delivered(m), ModuleQueue' = Received(m)
  PROVE  \A n \in Modules : \A q \in 1 .. Len(ModuleQueue'[n]) :
           \E r \in 1 .. Len(ModuleQueue[n]) :
             ModuleQueue'[n][q] = ModuleQueue[n][r]
<1>1. ModuleQueue \in [Modules -> Seq(ModuleQueueItem)] /\ ModuleQueue[m] # <<>>
  BY DEF TypeOK, SharedTypeOK, Delivered
<1>2. ASSUME NEW n \in Modules, NEW q \in 1 .. Len(ModuleQueue'[n])
      PROVE  \E r \in 1 .. Len(ModuleQueue[n]) :
               ModuleQueue'[n][q] = ModuleQueue[n][r]
  <2>1. CASE n = m
    <3>1. ModuleQueue'[n] = Tail(ModuleQueue[n]) /\ ModuleQueue[n] \in Seq(ModuleQueueItem)
      BY <1>1, <2>1 DEF Received
    <3>2. /\ q + 1 \in 1 .. Len(ModuleQueue[n])
          /\ ModuleQueue'[n][q] = ModuleQueue[n][q + 1]
      BY <1>1, <2>1, <3>1
    <3>. QED
      BY <3>2
  <2>2. CASE n # m
    BY <1>1, <1>2, <2>2 DEF Received
  <2>. QED
    BY <2>1, <2>2
<1>. QED
  BY <1>2

LEMMA ReachedOdAccept ==
  TypeOK /\ TypeOK' /\ ObjectIDsUnique /\ ReachedInv /\ OdAccept => ReachedInv'
<1>. SUFFICES ASSUME TypeOK, TypeOK', ObjectIDsUnique, ReachedInv, OdAccept
              PROVE  ReachedInv'
  OBVIOUS
<1>. DEFINE m == odModule
            id == DeliveredID(m)
            old == ObjectInModuleList[m]
            list == AddAllActions(old, m, id, Now(m))
<1>1. /\ m \in Modules
      /\ Delivered(m)
      /\ ModuleQueue' = Received(m)
      /\ NextModule
      /\ UNCHANGED <<ObjectBuffer, GlobalObjectID, born, fired>>
      /\ ObjectInModuleList' = [ObjectInModuleList EXCEPT ![m] = list]
  BY DEF OdAccept, TypeOK, OdTypeOK
<1>2. HistoryGrows /\ FiredReached' /\ HistoryNumbered'
  BY <1>1, QuietHistory
<1>3. CreationReached'
  BY <1>1, <1>2, CreationKept, NextModuleType
<1>4. id \in Nat /\ Now(m) \in Nat /\ old \in [Slots -> ActionListItem \cup {NoAction}]
  BY <1>1, DeliveredType, NowType DEF TypeOK, SharedTypeOK
<1>5. \A s \in Slots : list[s] = old[s] \/ list[s].ObjectID = id
  BY <1>1, <1>4, AddAllActionsType
<1>6. PICK i, n : i = id /\ n = m
  OBVIOUS
<1>7. Reached(i, n)'
  <2>1. 1 \in 1 .. Len(ModuleQueue[m]) /\ id = ModuleQueue[m][1].DelieverdObjectID
    <3>1. ModuleQueue[m] \in Seq(ModuleQueueItem) /\ ModuleQueue[m] # <<>>
      BY <1>1 DEF TypeOK, SharedTypeOK, Delivered
    <3>. QED
      BY <3>1 DEF DeliveredID
  <2>. QED
    BY <1>1, <1>2, <1>6, <2>1, ReachedFrames
<1>8. ASSUME NEW k \in Modules, NEW s \in Slots
      PROVE  \/ ObjectInModuleList'[k][s] = ObjectInModuleList[k][s]
             \/ Reached(ObjectInModuleList[k][s].ObjectID, k)'
  <2>1. \/ ObjectInModuleList'[k][s] = ObjectInModuleList[k][s]
        \/ k = n /\ ObjectInModuleList'[k][s].ObjectID = i
    <3>. HIDE DEF list, id
    <3>. QED
      BY <1>1, <1>5, <1>6 DEF TypeOK, SharedTypeOK
  <2>2. CASE k = n /\ ObjectInModuleList'[k][s].ObjectID = i
    BY <1>7, <2>2
  <2>. QED
    BY <2>1, <2>2
<1>9. EntriesReached' /\ DeliveriesReached'
  BY <1>1, <1>2, <1>8, ReceivedReached, ReachedStep
<1>. QED
  BY <1>2, <1>3, <1>9 DEF ReachedInv

LEMMA ReachedOdDrop ==
  TypeOK /\ TypeOK' /\ ObjectIDsUnique /\ ReachedInv /\ OdDrop => ReachedInv'
<1>. SUFFICES ASSUME TypeOK, TypeOK', ObjectIDsUnique, ReachedInv, OdDrop
              PROVE  ReachedInv'
  OBVIOUS
<1>1. /\ odModule \in Modules
      /\ Delivered(odModule)
      /\ ModuleQueue' = Received(odModule)
      /\ NextModule
      /\ UNCHANGED <<ObjectBuffer, ObjectInModuleList, GlobalObjectID, born, fired>>
  BY DEF OdDrop, TypeOK, OdTypeOK
<1>2. HistoryGrows /\ FiredReached' /\ HistoryNumbered'
  BY <1>1, QuietHistory
<1>3. CreationReached'
  BY <1>1, <1>2, CreationKept, NextModuleType
<1>4. EntriesReached' /\ DeliveriesReached'
  BY <1>1, <1>2, ReceivedReached, ReachedStep
<1>. QED
  BY <1>2, <1>3, <1>4 DEF ReachedInv

\* A new object is reached in the module that creates it.
LEMMA CreatedReached ==
  ASSUME TypeOK, TypeOK', ObjectIDsUnique, ReachedInv, NEW dropped,
         CreateObject(odModule, dropped),
         UNCHANGED <<odModule, fired, ObjectInModuleList>>,
         odPc' = "sending"
  PROVE  HistoryGrows /\ FiredReached' /\ HistoryNumbered' /\ CreationReached'
<1>1. PICK s \in Slots :
        /\ ObjectBuffer' = [ObjectBuffer EXCEPT ![s] = NewObject(GlobalObjectID)]
        /\ GlobalObjectID' = NextID
        /\ GlobalObjectCount' = s
        /\ born' = Append(born, odModule)
  BY DEF CreateObject
<1>2. /\ odModule \in Modules
      /\ GlobalObjectID \in Nat
      /\ GlobalObjectID' = GlobalObjectID + 1
      /\ born \in Seq(Modules)
      /\ Len(born) = GlobalObjectID
  BY <1>1 DEF TypeOK, SharedTypeOK, OdTypeOK, HistoryTypeOK, NextID, ReachedInv,
              HistoryNumbered
<1>3. HistoryGrows
  BY <1>1, <1>2 DEF HistoryGrows
<1>4. FiredReached'
  <2>1. ASSUME NEW x \in fired PROVE Reached(x[1], x[2])'
    <3>1. PICK i, n : i = x[1] /\ n = x[2]
      OBVIOUS
    <3>2. Reached(i, n)'
      BY <1>3, <3>1, ReachedFrames
    <3>. QED
      BY <3>1, <3>2
  <2>. QED
    BY <2>1 DEF FiredReached
<1>5. HistoryNumbered'
  BY <1>1, <1>2 DEF ReachedInv, HistoryNumbered
<1>6. ObjectBuffer'[GlobalObjectCount'].ObjectID = GlobalObjectID
  BY <1>1 DEF TypeOK, SharedTypeOK, NewObject
<1>7. born'[GlobalObjectID + 1] = odModule'
  BY <1>1, <1>2
<1>8. CreationReached'
  BY <1>6, <1>7 DEF CreationReached, Reached
<1>. QED
  BY <1>3, <1>4, <1>5, <1>8

LEMMA ReachedOdDetect ==
  TypeOK /\ TypeOK' /\ ObjectIDsUnique /\ ReachedInv /\ OdDetect => ReachedInv'
<1>. SUFFICES ASSUME TypeOK, TypeOK', ObjectIDsUnique, ReachedInv, OdDetect
              PROVE  ReachedInv'
  OBVIOUS
<1>1. /\ CreateObject(odModule, {})
      /\ odPc' = "sending"
      /\ UNCHANGED <<ObjectInModuleList, ModuleQueue, odModule, fired>>
  BY DEF OdDetect
<1>2. HistoryGrows /\ FiredReached' /\ HistoryNumbered' /\ CreationReached'
  BY <1>1, CreatedReached
<1>3. EntriesReached' /\ DeliveriesReached'
  BY <1>1, <1>2, ReachedStep
<1>. QED
  BY <1>2, <1>3 DEF ReachedInv

LEMMA ReachedOdReplace ==
  TypeOK /\ TypeOK' /\ ObjectIDsUnique /\ ReachedInv /\ OdReplace => ReachedInv'
<1>. SUFFICES ASSUME TypeOK, TypeOK', ObjectIDsUnique, ReachedInv, OdReplace
              PROVE  ReachedInv'
  OBVIOUS
<1>1. /\ odModule \in Modules
      /\ Delivered(odModule)
      /\ ModuleQueue' = Received(odModule)
      /\ CreateObject(odModule, {<<DeliveredID(odModule), "window">>})
      /\ odPc' = "sending"
      /\ UNCHANGED <<ObjectInModuleList, odModule, fired>>
  BY DEF OdReplace, TypeOK, OdTypeOK
<1>2. HistoryGrows /\ FiredReached' /\ HistoryNumbered' /\ CreationReached'
  BY <1>1, CreatedReached
<1>3. EntriesReached' /\ DeliveriesReached'
  BY <1>1, <1>2, ReceivedReached, ReachedStep
<1>. QED
  BY <1>2, <1>3 DEF ReachedInv

LEMMA ReachedOdAddActions ==
  TypeOK /\ TypeOK' /\ ObjectIDsUnique /\ ReachedInv /\ OdAddActions => ReachedInv'
<1>. SUFFICES ASSUME TypeOK, TypeOK', ObjectIDsUnique, ReachedInv, OdAddActions
              PROVE  ReachedInv'
  OBVIOUS
<1>. DEFINE m == odModule
            id == ObjectBuffer[GlobalObjectCount].ObjectID
            old == ObjectInModuleList[m]
            list == IF addAll THEN AddAllActions(old, m, id, Now(m))
                              ELSE AddOneAction(old, m, id, Now(m), Action_i + 1)
<1>1. /\ odPc = "sending"
      /\ NextModule
      /\ ObjectInModuleList' = [ObjectInModuleList EXCEPT ![m] = list]
      /\ UNCHANGED <<ObjectBuffer, ModuleQueue, GlobalObjectID, born, fired>>
  BY DEF OdAddActions
<1>2. m \in Modules /\ GlobalObjectCount \in Slots /\ Action_i + 1 \in Nat
  BY <1>1 DEF TypeOK, OdTypeOK
<1>3. /\ id \in Nat
      /\ Now(m) \in Nat
      /\ old \in [Slots -> ActionListItem \cup {NoAction}]
      /\ id < GlobalObjectID
  BY <1>1, <1>2, NowType
  DEF TypeOK, SharedTypeOK, ObjectInfo, ObjectIDsUnique, NumberedSlots
<1>4. \A s \in Slots : list[s] = old[s] \/ list[s].ObjectID = id
  <2>. HIDE DEF m, id, old
  <2>1. CASE addAll
    BY <1>2, <1>3, <2>1, AddAllActionsType
  <2>2. CASE ~addAll
    BY <1>2, <1>3, <2>2, AddOneActionType
  <2>. QED
    BY <2>1, <2>2
<1>5. HistoryGrows /\ FiredReached' /\ HistoryNumbered'
  BY <1>1, QuietHistory
<1>6. CreationReached'
  BY <1>1, NextModuleType DEF CreationReached
<1>7. PICK i, n : i = id /\ n = m
  OBVIOUS
<1>8. Reached(i, n)'
  <2>1. Reached(i, n)
    BY <1>1, <1>7 DEF ReachedInv, CreationReached
  <2>2. i \in Nat /\ i < GlobalObjectID
    BY <1>3, <1>7
  <2>. QED
    BY <1>5, <2>1, <2>2, ReachedKept DEF ReachedInv
<1>9. ASSUME NEW k \in Modules, NEW s \in Slots
      PROVE  \/ ObjectInModuleList'[k][s] = ObjectInModuleList[k][s]
             \/ Reached(ObjectInModuleList[k][s].ObjectID, k)'
  <2>1. \/ ObjectInModuleList'[k][s] = ObjectInModuleList[k][s]
        \/ k = n /\ ObjectInModuleList'[k][s].ObjectID = i
    <3>. HIDE DEF list, id
    <3>. QED
      BY <1>1, <1>2, <1>4, <1>7 DEF TypeOK, SharedTypeOK
  <2>2. CASE k = n /\ ObjectInModuleList'[k][s].ObjectID = i
    BY <1>8, <2>2
  <2>. QED
    BY <2>1, <2>2
<1>10. EntriesReached' /\ DeliveriesReached'
  BY <1>1, <1>5, <1>9, ReachedStep
<1>. QED
  BY <1>5, <1>6, <1>10 DEF ReachedInv

\* A take-over hands the object over in the step that carries it out.
LEMMA ReachedTrTakeOver ==
  TypeOK /\ TypeOK' /\ ObjectIDsUnique /\ ReachedInv /\ TrTakeOver => ReachedInv'
<1>. SUFFICES ASSUME TypeOK, TypeOK', ObjectIDsUnique, ReachedInv, TrTakeOver
              PROVE  ReachedInv'
  OBVIOUS
<1>. DEFINE dest == ItemAction.DestinationModule
            item == [DelieverdObjectID |-> Item.ObjectID,
                     DelieverdEncoderNum |->
                       trEncoder[ModuleConfig[dest].Encoder]]
<1>1. /\ Due
      /\ ItemAction.ActionType = "ObjectTakeOver"
      /\ fired' = fired \cup {<<Item.ObjectID, trModule, Item.ActionNumber>>}
      /\ UNCHANGED <<ObjectBuffer, ObjectInModuleList, GlobalObjectID, odVars, born>>
      /\ \/ ModuleQueue' = [ModuleQueue EXCEPT ![dest] = Append(@, item)]
         \/ UNCHANGED ModuleQueue
  BY DEF TrTakeOver, Fire
<1>2. Item \in ActionListItem
  BY <1>1, DueItem
<1>3. HistoryGrows /\ FiredReached' /\ HistoryNumbered'
  BY <1>1, <1>2, FireReached
<1>4. CreationReached'
  BY <1>1, <1>3, CreationKept DEF odVars
<1>5. PICK i, n : i = Item.ObjectID /\ n = dest
  OBVIOUS
<1>6. Reached(i, n)'
  <2>1. PICK x : x = <<Item.ObjectID, trModule, Item.ActionNumber>>
    OBVIOUS
  <2>2. /\ x \in fired'
        /\ x[1] = i
        /\ ActionAt(x[2], x[3]).ActionType = "ObjectTakeOver"
        /\ ActionAt(x[2], x[3]).DestinationModule = n
    BY <1>1, <1>5, <2>1 DEF ItemAction
  <2>. QED
    BY <2>2 DEF Reached
<1>7. ASSUME NEW k \in Modules, NEW q \in 1 .. Len(ModuleQueue'[k])
      PROVE  \/ \E r \in 1 .. Len(ModuleQueue[k]) :
                  ModuleQueue'[k][q] = ModuleQueue[k][r]
             \/ Reached(ModuleQueue[k][q].DelieverdObjectID, k)'
  <2>1. /\ ModuleQueue \in [Modules -> Seq(ModuleQueueItem)]
        /\ ModuleQueue[k] \in Seq(ModuleQueueItem)
    BY DEF TypeOK, SharedTypeOK
  <2>2. CASE ModuleQueue'[k] = ModuleQueue[k]
    BY <2>2
  <2>3. CASE k = dest /\ ModuleQueue'[k] = Append(ModuleQueue[k], item)
    <3>. HIDE DEF dest
    <3>1. CASE q \in 1 .. Len(ModuleQueue[k])
      BY <2>1, <2>3, <3>1
    <3>2. CASE q \notin 1 .. Len(ModuleQueue[k])
      <4>1. q = Len(ModuleQueue[k]) + 1
        <5>1. Len(ModuleQueue'[k]) = Len(ModuleQueue[k]) + 1
          BY <2>1, <2>3
        <5>2. Len(ModuleQueue[k]) \in Nat
          BY <2>1
        <5>. QED
          BY <1>7, <3>2, <5>1, <5>2
      <4>2. ModuleQueue'[k][q] = item
        BY <2>1, <2>3, <4>1
      <4>. QED
        BY <1>5, <1>6, <2>3, <4>2
    <3>. QED
      BY <3>1, <3>2
  <2>4. \/ ModuleQueue'[k] = ModuleQueue[k]
        \/ k = dest /\ ModuleQueue'[k] = Append(ModuleQueue[k], item)
    <3>. HIDE DEF dest, item
    <3>. QED
      BY <1>1, <2>1
  <2>. QED
    BY <2>2, <2>3, <2>4
<1>8. EntriesReached' /\ DeliveriesReached'
  BY <1>1, <1>3, <1>7, ReachedStep
<1>. QED
  BY <1>3, <1>4, <1>8 DEF ReachedInv

\* The other actions, and the end of a push-out.
LEMMA ReachedOtherFires ==
  ASSUME TypeOK, TypeOK', ObjectIDsUnique, ReachedInv,
         TrOutput \/ TrRequestMachineData \/ TrFree
  PROVE  ReachedInv'
<1>1. /\ Item \in ActionListItem
      /\ fired' = fired \cup {<<Item.ObjectID, trModule, Item.ActionNumber>>}
      /\ UNCHANGED <<ObjectInModuleList, ModuleQueue, GlobalObjectID, odVars, born>>
  <2>1. CASE TrOutput \/ TrRequestMachineData
    BY <2>1, DueItem DEF TrOutput, TrRequestMachineData, Fire, sharedVars
  <2>2. CASE TrFree
    BY <2>2 DEF TrFree, TypeOK, TrTypeOK
  <2>. QED
    BY <2>1, <2>2
<1>2. \A s \in Slots : ObjectBuffer'[s].ObjectID = ObjectBuffer[s].ObjectID
  <2>1. \/ object_i \in Slots /\ ObjectBuffer' = Freed(object_i)
        \/ UNCHANGED ObjectBuffer
    BY DEF TrOutput, TrRequestMachineData, TrFree, sharedVars
  <2>2. ObjectBuffer \in [Slots -> ObjectInfo]
    BY DEF TypeOK, SharedTypeOK
  <2>. QED
    BY <2>1, <2>2 DEF Freed, ObjectInfo
<1>3. HistoryGrows /\ FiredReached' /\ HistoryNumbered'
  BY <1>1, FireReached
<1>4. CreationReached'
  BY <1>1, <1>2, <1>3, CreationKept DEF odVars
<1>5. EntriesReached' /\ DeliveriesReached'
  BY <1>1, <1>3, ReachedStep
<1>. QED
  BY <1>3, <1>4, <1>5 DEF ReachedInv

LEMMA ReachedTrClear ==
  TypeOK /\ TypeOK' /\ ObjectIDsUnique /\ ReachedInv /\ TrClear => ReachedInv'
<1>. SUFFICES ASSUME TypeOK, TypeOK', ObjectIDsUnique, ReachedInv, TrClear
              PROVE  ReachedInv'
  OBVIOUS
<1>1. UNCHANGED <<ObjectBuffer, ModuleQueue, GlobalObjectID, odVars, born, fired>>
  BY DEF TrClear, history
<1>2. \A m \in Modules, s \in Slots :
        \/ ObjectInModuleList'[m][s] = ObjectInModuleList[m][s]
        \/ ObjectInModuleList'[m][s] = NoAction
  BY DEF TrClear, Cleared, TypeOK, SharedTypeOK, TrTypeOK
<1>3. HistoryGrows /\ FiredReached' /\ HistoryNumbered'
  BY <1>1, QuietHistory
<1>4. CreationReached'
  BY <1>1, <1>3, CreationKept DEF odVars
<1>5. EntriesReached' /\ DeliveriesReached'
  BY <1>1, <1>2, <1>3, ReachedStep
<1>. QED
  BY <1>3, <1>4, <1>5 DEF ReachedInv

LEMMA InitReached == Init => ReachedInv
<1>. SUFFICES ASSUME Init PROVE ReachedInv
  OBVIOUS
<1>1. FiredReached /\ HistoryNumbered
  <2>1. born = <<>> /\ GlobalObjectID = 0 /\ fired = {}
    BY DEF Init
  <2>. QED
    BY <2>1 DEF FiredReached, HistoryNumbered
<1>2. EntriesReached
  BY DEF Init, EntriesReached
<1>3. DeliveriesReached
  BY DEF Init, DeliveriesReached
<1>4. CreationReached
  BY DEF Init, CreationReached
<1>. QED
  BY <1>1, <1>2, <1>3, <1>4 DEF ReachedInv

LEMMA NextReached ==
  TypeOK /\ TypeOK' /\ ObjectIDsUnique /\ ReachedInv /\ [Next]_vars => ReachedInv'
<1>. SUFFICES ASSUME TypeOK, TypeOK', ObjectIDsUnique, ReachedInv, [Next]_vars
              PROVE  ReachedInv'
  OBVIOUS
<1>1. CASE World
  <2>1. UNCHANGED <<sharedVars, odVars, born, fired>>
    BY <1>1 DEF World, Move, Capture, ClientsChange, history
  <2>. QED
    BY <2>1, ReachedQuiet DEF sharedVars, odVars
<1>2. CASE ObjectDetectionThread
  <2>1. CASE OdStart
    BY <2>1, ReachedQuiet DEF OdStart, sharedVars, history
  <2>2. CASE OdSkip
    BY <2>2, ReachedQuiet, NextModuleType DEF OdSkip, sharedVars, history
  <2>. QED
    BY <1>2, <2>1, <2>2, ReachedOdAccept, ReachedOdDrop, ReachedOdDetect,
       ReachedOdReplace, ReachedOdAddActions DEF ObjectDetectionThread
<1>3. CASE TrackingThread
  <2>1. CASE TrStart \/ TrPass \/ TrFindObject \/ TrPush \/ TrPushOutOfBounds
    <3>1. UNCHANGED <<sharedVars, odVars, born, fired>>
      BY <2>1 DEF TrStart, TrPass, TrFindObject, TrPush, TrPushOutOfBounds, history
    <3>. QED
      BY <3>1, ReachedQuiet DEF sharedVars, odVars
  <2>. QED
    BY <1>3, <2>1, ReachedTrTakeOver, ReachedOtherFires, ReachedTrClear
    DEF TrackingThread
<1>4. ASSUME NEW id \in 0 .. GlobalObjectID - 1, STM32GetPushResult(id)
      PROVE  ReachedInv'
  <2>1. /\ \/ UNCHANGED ObjectBuffer
           \/ \E s \in Slots :
                ObjectBuffer' = [ObjectBuffer EXCEPT ![s].ProcessedResult = FALSE]
        /\ UNCHANGED <<ObjectInModuleList, ModuleQueue, GlobalObjectID, odVars,
                       born, fired>>
    BY <1>4 DEF STM32GetPushResult
  <2>2. \A s \in Slots : ObjectBuffer'[s].ObjectID = ObjectBuffer[s].ObjectID
    BY <2>1 DEF TypeOK, SharedTypeOK, ObjectInfo
  <2>. QED
    BY <2>1, <2>2, ReachedQuiet DEF odVars
<1>5. CASE ActionExecuteThread
  BY <1>5, ReachedQuiet DEF ActionExecuteThread, sharedVars, odVars, history
<1>6. CASE UNCHANGED vars
  BY <1>6, ReachedQuiet DEF vars, sharedVars, odVars, history
<1>. QED
  BY <1>1, <1>2, <1>3, <1>4, <1>5, <1>6 DEF Next

\* A module acts only on objects it created or was handed, on every line:
\* nothing is pending, queued or carried out in a module for an object that
\* was neither born there (ObjectDetection.c:251, 437) nor sent there by a
\* take-over already carried out (Tracking.c:99-113).
THEOREM ReachCorrect == Spec => []ActsOnlyWhereReached
<1>1. ReachedInv => ActsOnlyWhereReached
  BY DEF ReachedInv, FiredReached, EntriesReached, DeliveriesReached,
         ActsOnlyWhereReached
<1>. QED
  BY <1>1, InitType, NextType, InitIDs, NextIDs, InitReached, NextReached, PTL
  DEF Spec

-----------------------------------------------------------------------------
(* NoActionRepeated, on a line that runs one way: every take-over hands    *)
(* objects to a module further on, and no two hand them to the same one.   *)

OneWayLine ==
  \A m, n \in Modules, k, l \in Nat :
    (/\ ActionAt(m, k).ActionType = "ObjectTakeOver"
     /\ ActionAt(n, l).ActionType = "ObjectTakeOver")
      => /\ ActionAt(m, k).DestinationModule > m
         /\ ActionAt(m, k).DestinationModule = ActionAt(n, l).DestinationModule
              => m = n /\ k = l

\* Module m has not begun with object id.
Untouched(id, m) ==
  /\ \A s \in Slots : ObjectInModuleList[m][s] # NoAction
                        => ObjectInModuleList[m][s].ObjectID # id
  /\ \A x \in fired : x[1] = id => x[2] # m

NotQueued(id, m) ==
  \A q \in 1 .. Len(ModuleQueue[m]) : ModuleQueue[m][q].DelieverdObjectID # id

FiredType == fired \subseteq Nat \X Modules \X Nat

\* Objects go forward from the module they were born in.
FiredForward == \A x \in fired : born[x[1] + 1] <= x[2]

\* A delivery is to a module that has not begun with its object, and no
\* queue holds two of one object.
DeliveriesFresh ==
  \A m \in Modules : \A q \in 1 .. Len(ModuleQueue[m]) :
    Untouched(ModuleQueue[m][q].DelieverdObjectID, m)

DeliveriesDistinct ==
  \A m \in Modules : \A q, r \in 1 .. Len(ModuleQueue[m]) :
    ModuleQueue[m][q].DelieverdObjectID = ModuleQueue[m][r].DelieverdObjectID
      => q = r

\* Nor has the module whose CreateObject is under way begun with the object.
CreationOnce ==
  odPc = "sending" =>
    LET id == ObjectBuffer[GlobalObjectCount].ObjectID
    IN /\ born[id + 1] = odModule
       /\ Untouched(id, odModule)
       /\ NotQueued(id, odModule)

RepeatInv ==
  /\ FiredType
  /\ FiredForward
  /\ NoActionRepeated
  /\ DeliveriesFresh
  /\ DeliveriesDistinct
  /\ CreationOnce

\* A step that changes the entries of no other object of the module, and
\* carries out nothing for this one there.
LEMMA UntouchedKept ==
  ASSUME NEW id, NEW m, Untouched(id, m),
         \A s \in Slots :
           ObjectInModuleList'[m][s] # NoAction
             => \/ ObjectInModuleList'[m][s] = ObjectInModuleList[m][s]
                \/ ObjectInModuleList'[m][s].ObjectID # id,
         \A x \in fired' : x \in fired \/ x[1] # id \/ x[2] # m
  PROVE  Untouched(id, m)'
<1>1. \A s \in Slots : ObjectInModuleList'[m][s] # NoAction
                         => ObjectInModuleList'[m][s].ObjectID # id
  BY DEF Untouched
<1>2. \A x \in fired' : x[1] = id => x[2] # m
  BY DEF Untouched
<1>. QED
  BY <1>1, <1>2 DEF Untouched

\* Where an object has been lies at or after the module it was born in.
LEMMA ReachedForward ==
  ASSUME TypeOK, OneWayLine, HistoryNumbered, FiredType, FiredForward,
         NEW id \in Nat, NEW m \in Modules, id < GlobalObjectID, Reached(id, m)
  PROVE  born[id + 1] <= m
<1>1. born[id + 1] \in Modules
  BY BornKept
<1>2. ASSUME NEW x \in fired,
             x[1] = id,
             ActionAt(x[2], x[3]).ActionType = "ObjectTakeOver",
             ActionAt(x[2], x[3]).DestinationModule = m
      PROVE  born[id + 1] <= m
  <2>1. x[2] \in Modules /\ x[3] \in Nat
    BY <1>2 DEF FiredType
  <2>2. m > x[2]
    BY <1>2, <2>1 DEF OneWayLine
  <2>3. born[id + 1] <= x[2]
    BY <1>2 DEF FiredForward
  <2>4. born[id + 1] \in Nat /\ x[2] \in Nat /\ m \in Nat
    BY <1>1, <2>1, ModuleFacts
  <2>. QED
    BY <2>2, <2>3, <2>4
<1>. QED
  BY <1>1, <1>2, ModuleFacts DEF Reached

\* The destination of a take-over that is due and not yet carried out has
\* neither begun with the object nor been sent it.
LEMMA HandedOnce ==
  ASSUME TypeOK, OneWayLine, ObjectIDsUnique, ReachedInv, RepeatInv,
         Due, trPc # "clear",
         ItemAction.ActionType = "ObjectTakeOver"
  PROVE  LET id == Item.ObjectID
             n == ItemAction.DestinationModule
         IN /\ n \in Modules
            /\ n # trModule
            /\ born[id + 1] # n
            /\ Untouched(id, n)
            /\ NotQueued(id, n)
<1>. DEFINE id == Item.ObjectID
            k == Item.ActionNumber
            n == ItemAction.DestinationModule
<1>1. /\ Item \in ActionListItem
      /\ id \in Nat
      /\ k \in Nat
      /\ trModule \in Modules
      /\ trAction \in Slots
      /\ Item = ObjectInModuleList[trModule][trAction]
      /\ Item # NoAction
  BY DueItem DEF TypeOK, TrTypeOK, ActionListItem, Due, Item
<1>2. n \in Modules
  BY <1>1, ItemActionType DEF ActionInstance
<1>3. id < GlobalObjectID /\ Reached(id, trModule)
  BY <1>1 DEF ObjectIDsUnique, NumberedEntries, ReachedInv, EntriesReached
<1>4. <<id, trModule, k>> \notin fired
  BY <1>1 DEF RepeatInv, NoActionRepeated, Pending
<1>5. n > trModule
  BY <1>1 DEF OneWayLine, ItemAction
<1>6. born[id + 1] <= trModule /\ born[id + 1] \in Modules
  BY <1>1, <1>3, ReachedForward, BornKept DEF RepeatInv, ReachedInv
<1>7. n # trModule /\ born[id + 1] # n
  <2>1. n \in Nat /\ trModule \in Nat /\ born[id + 1] \in Nat
    BY <1>1, <1>2, <1>6, ModuleFacts
  <2>. HIDE DEF n, id
  <2>. QED
    BY <1>5, <1>6, <2>1
<1>8. ~Reached(id, n)
  <2>1. ASSUME NEW x \in fired,
               x[1] = id,
               ActionAt(x[2], x[3]).ActionType = "ObjectTakeOver",
               ActionAt(x[2], x[3]).DestinationModule = n
        PROVE  FALSE
    <3>1. x = <<x[1], x[2], x[3]>> /\ x[2] \in Modules /\ x[3] \in Nat
      BY <2>1 DEF RepeatInv, FiredType
    <3>2. x[2] = trModule /\ x[3] = k
      BY <1>1, <2>1, <3>1 DEF OneWayLine, ItemAction
    <3>. QED
      BY <1>4, <2>1, <3>1, <3>2
  <2>. QED
    BY <1>7, <2>1 DEF Reached
<1>9. Untouched(id, n) /\ NotQueued(id, n)
  <2>. HIDE DEF id, n
  <2>. QED
    BY <1>2, <1>8 DEF Untouched, NotQueued, ReachedInv, FiredReached,
                      EntriesReached, DeliveriesReached
<1>. QED
  BY <1>2, <1>7, <1>9

\* Steps that carry out nothing, and after which an entry is as it was or
\* not pending.
LEMMA RepeatQuiet ==
  ASSUME NoActionRepeated,
         UNCHANGED fired,
         \A m \in Modules, s \in Slots :
           /\ \/ ObjectInModuleList'[m][s] = ObjectInModuleList[m][s]
              \/ ObjectInModuleList'[m][s] = NoAction
           /\ Pending(m, s)' => Pending(m, s)
  PROVE  NoActionRepeated'
<1>1. ASSUME NEW m \in Modules, NEW s \in Slots, Pending(m, s)'
      PROVE  /\ Pending(m, s)
             /\ ObjectInModuleList'[m][s] = ObjectInModuleList[m][s]
  BY <1>1 DEF Pending
<1>. QED
  BY <1>1 DEF NoActionRepeated

\* Tracking carries out the action it found due, and is about to clear it.
LEMMA RepeatFire ==
  ASSUME TypeOK, NoActionRepeated,
         Item \in ActionListItem, trPc # "clear", trPc' = "clear",
         UNCHANGED <<ObjectInModuleList, trModule, trAction>>,
         fired' = fired \cup {<<Item.ObjectID, trModule, Item.ActionNumber>>}
  PROVE  NoActionRepeated'
<1>1. /\ trModule \in Modules
      /\ trAction \in Slots
      /\ Item = ObjectInModuleList[trModule][trAction]
      /\ Item # NoAction
  BY ConfigAssumption DEF TypeOK, TrTypeOK, Item
<1>2. ASSUME NEW m \in Modules, NEW s \in Slots, Pending(m, s)'
      PROVE  /\ Pending(m, s)
             /\ ~(m = trModule /\ s = trAction)
  BY <1>2 DEF Pending
<1>3. ASSUME NEW m \in Modules, NEW s \in Slots, Pending(m, s)'
      PROVE  <<ObjectInModuleList[m][s].ObjectID, m,
               ObjectInModuleList[m][s].ActionNumber>> \notin fired'
  BY <1>1, <1>2, <1>3 DEF NoActionRepeated
<1>. QED
  BY <1>2, <1>3 DEF NoActionRepeated

\* Two free slots never have the same rank, so AddActionToList gives each
\* action of an object one slot.
LEMMA FreeRankInjective ==
  ASSUME NEW list, NEW s \in Slots, NEW t \in Slots,
         list[s] = NoAction, list[t] = NoAction,
         FreeRank(list, s) = FreeRank(list, t)
  PROVE  s = t
<1>. DEFINE Upto(x) == {y \in Slots : y <= x /\ list[y] = NoAction}
<1>1. IsFiniteSet(Slots)
  BY FS_Interval, ConfigAssumption DEF Slots
<1>2. ASSUME NEW x \in Slots, NEW y \in Slots, x < y, list[y] = NoAction
      PROVE  Cardinality(Upto(x)) # Cardinality(Upto(y))
  <2>1. x \in Nat /\ y \in Nat /\ Slots \subseteq Nat
    BY ModuleFacts
  <2>2. ~(y <= x) /\ y <= y /\ \A z \in Slots : z <= x => z <= y
    BY <1>2, <2>1
  <2>3. y \in Upto(y) /\ y \notin Upto(x)
    BY <1>2, <2>2
  <2>4. Upto(y) \in SUBSET Slots
    OBVIOUS
  <2>. HIDE DEF Upto
  <2>5. IsFiniteSet(Upto(y))
    BY <1>1, <2>4, FS_Subset
  <2>6. Upto(x) \in SUBSET Upto(y)
    BY <2>2 DEF Upto
  <2>. QED
    BY <2>3, <2>5, <2>6, FS_Subset
<1>3. Cardinality(Upto(s)) = Cardinality(Upto(t))
  BY DEF FreeRank
<1>4. s \in Nat /\ t \in Nat
  BY ModuleFacts
<1>. HIDE DEF Upto
<1>. QED
  BY <1>2, <1>3, <1>4

\* The slots a list gained, each with an action of its own.
AddedOnce(old, new, id) ==
  /\ \A s \in Slots :
       \/ new[s] = old[s]
       \/ old[s] = NoAction /\ new[s] # NoAction /\ new[s].ObjectID = id
  /\ \A s, t \in Slots :
       /\ new[s] # old[s]
       /\ new[t] # old[t]
       /\ new[s].ActionNumber = new[t].ActionNumber
       => s = t

LEMMA AddAllOnce ==
  ASSUME NEW list \in [Slots -> ActionListItem \cup {NoAction}],
         NEW m \in Modules, NEW id \in Nat, NEW now \in Nat
  PROVE  AddedOnce(list, AddAllActions(list, m, id, now), id)
<1>. DEFINE new == AddAllActions(list, m, id, now)
<1>1. \A s \in Slots :
        \/ new[s] = list[s]
        \/ list[s] = NoAction /\ new[s] # NoAction /\ new[s].ObjectID = id
  BY AddAllActionsType
<1>2. ASSUME NEW s \in Slots, new[s] # list[s]
      PROVE  list[s] = NoAction /\ new[s].ActionNumber = FreeRank(list, s)
  BY <1>2 DEF AddAllActions, ListItem
<1>3. ASSUME NEW s \in Slots, NEW t \in Slots,
             new[s] # list[s], new[t] # list[t],
             new[s].ActionNumber = new[t].ActionNumber
      PROVE  s = t
  <2>1. FreeRank(list, s) = FreeRank(list, t) /\ list[s] = NoAction /\ list[t] = NoAction
    BY <1>2, <1>3
  <2>. QED
    BY <2>1, FreeRankInjective
<1>. HIDE DEF new
<1>4. AddedOnce(list, new, id)
  BY <1>1, <1>3 DEF AddedOnce
<1>. QED
  BY <1>4 DEF new

LEMMA AddOneOnce ==
  ASSUME NEW list \in [Slots -> ActionListItem \cup {NoAction}],
         NEW m \in Modules, NEW id \in Nat, NEW now \in Nat, NEW k \in Nat
  PROVE  AddedOnce(list, AddOneAction(list, m, id, now, k), id)
<1>. DEFINE new == AddOneAction(list, m, id, now, k)
<1>1. \A s \in Slots :
        \/ new[s] = list[s]
        \/ list[s] = NoAction /\ new[s] # NoAction /\ new[s].ObjectID = id
  BY AddOneActionType
<1>2. ASSUME NEW s \in Slots, new[s] # list[s]
      PROVE  list[s] = NoAction /\ FreeRank(list, s) = 1
  BY <1>2 DEF AddOneAction
<1>3. ASSUME NEW s \in Slots, NEW t \in Slots,
             new[s] # list[s], new[t] # list[t]
      PROVE  s = t
  BY <1>2, <1>3, FreeRankInjective
<1>. HIDE DEF new
<1>4. AddedOnce(list, new, id)
  BY <1>1, <1>3 DEF AddedOnce
<1>. QED
  BY <1>4 DEF new

\* ObjectDetection adds the actions of an object its module has not begun
\* with.
LEMMA RepeatAdd ==
  ASSUME TypeOK, NoActionRepeated, UNCHANGED <<fired, trVars>>,
         NEW m \in Modules, NEW id, NEW list, Untouched(id, m),
         ObjectInModuleList' = [ObjectInModuleList EXCEPT ![m] = list],
         AddedOnce(ObjectInModuleList[m], list, id)
  PROVE  /\ NoActionRepeated'
         /\ \A i : \A n \in Modules : (i # id \/ n # m) /\ Untouched(i, n) => Untouched(i, n)'
<1>. DEFINE old == ObjectInModuleList[m]
<1>1. /\ ObjectInModuleList'[m] = list
      /\ \A n \in Modules \ {m} : ObjectInModuleList'[n] = ObjectInModuleList[n]
  BY DEF TypeOK, SharedTypeOK
<1>2. /\ \A s \in Slots :
           \/ list[s] = old[s]
           \/ old[s] = NoAction /\ list[s] # NoAction /\ list[s].ObjectID = id
      /\ \A s, t \in Slots :
           /\ list[s] # old[s]
           /\ list[t] # old[t]
           /\ list[s].ActionNumber = list[t].ActionNumber
           => s = t
  BY DEF AddedOnce
<1>3. \A s \in Slots : old[s] # NoAction => old[s].ObjectID # id
  BY DEF Untouched
<1>4. ASSUME NEW i, NEW n \in Modules, i # id \/ n # m, Untouched(i, n)
      PROVE  Untouched(i, n)'
  <2>1. \A s \in Slots :
          ObjectInModuleList'[n][s] # NoAction
            => \/ ObjectInModuleList'[n][s] = ObjectInModuleList[n][s]
               \/ ObjectInModuleList'[n][s].ObjectID # i
    BY <1>1, <1>2, <1>4
  <2>. QED
    BY <1>4, <2>1, UntouchedKept
<1>5. ASSUME NEW s \in Slots, Pending(m, s)'
      PROVE  LET a == ObjectInModuleList'[m][s]
             IN /\ <<a.ObjectID, m, a.ActionNumber>> \notin fired'
                /\ \A t \in Slots \ {s} :
                     LET b == ObjectInModuleList'[m][t]
                     IN b # NoAction => <<b.ObjectID, b.ActionNumber>>
                                          # <<a.ObjectID, a.ActionNumber>>
  <2>1. list[s] # NoAction
    BY <1>1, <1>5 DEF Pending
  <2>2. CASE list[s] = old[s]
    <3>1. Pending(m, s) /\ old[s].ObjectID # id
      BY <1>1, <1>3, <1>5, <2>1, <2>2 DEF Pending, trVars
    <3>2. <<old[s].ObjectID, m, old[s].ActionNumber>> \notin fired
      BY <3>1 DEF NoActionRepeated
    <3>3. ASSUME NEW t \in Slots \ {s}, list[t] # NoAction
          PROVE  <<list[t].ObjectID, list[t].ActionNumber>>
                   # <<old[s].ObjectID, old[s].ActionNumber>>
      <4>1. CASE list[t] = old[t]
        <5>1. ObjectInModuleList[m][t] # NoAction
          BY <3>3, <4>1
        <5>2. <<old[t].ObjectID, old[t].ActionNumber>>
                # <<old[s].ObjectID, old[s].ActionNumber>>
          BY <3>1, <5>1 DEF NoActionRepeated
        <5>. QED
          BY <4>1, <5>2
      <4>2. CASE list[t] # old[t]
        BY <1>2, <3>1, <4>2
      <4>. QED
        BY <4>1, <4>2
    <3>. QED
      BY <1>1, <2>2, <3>2, <3>3
  <2>3. CASE list[s] # old[s]
    <3>1. list[s].ObjectID = id
      BY <1>2, <2>3
    <3>2. <<list[s].ObjectID, m, list[s].ActionNumber>> \notin fired
      <4>1. ASSUME <<list[s].ObjectID, m, list[s].ActionNumber>> \in fired
            PROVE  FALSE
        <5>1. PICK x \in fired : x = <<list[s].ObjectID, m, list[s].ActionNumber>>
          BY <4>1
        <5>2. x[1] = id /\ x[2] = m
          BY <3>1, <5>1
        <5>. QED
          BY <5>2 DEF Untouched
      <4>. QED
        BY <4>1
    <3>3. ASSUME NEW t \in Slots \ {s}, list[t] # NoAction
          PROVE  <<list[t].ObjectID, list[t].ActionNumber>>
                   # <<list[s].ObjectID, list[s].ActionNumber>>
      BY <1>2, <1>3, <2>3, <3>1, <3>3
    <3>. QED
      BY <1>1, <3>2, <3>3
  <2>. QED
    BY <2>2, <2>3
<1>6. ASSUME NEW n \in Modules \ {m}, NEW s \in Slots, Pending(n, s)'
      PROVE  LET a == ObjectInModuleList'[n][s]
             IN /\ <<a.ObjectID, n, a.ActionNumber>> \notin fired'
                /\ \A t \in Slots \ {s} :
                     LET b == ObjectInModuleList'[n][t]
                     IN b # NoAction => <<b.ObjectID, b.ActionNumber>>
                                          # <<a.ObjectID, a.ActionNumber>>
  <2>1. Pending(n, s)
    BY <1>1, <1>6 DEF Pending, trVars
  <2>. QED
    BY <1>1, <1>6, <2>1 DEF NoActionRepeated
<1>7. NoActionRepeated'
  BY <1>5, <1>6 DEF NoActionRepeated
<1>. QED
  BY <1>4, <1>7

\* What is left in the queue a delivery was received from.
LEMMA ReceivedOnce ==
  ASSUME TypeOK, DeliveriesDistinct, NEW m \in Modules, Delivered(m),
         ModuleQueue' = Received(m)
  PROVE  /\ DeliveriesDistinct'
         /\ \A n \in Modules : \A q \in 1 .. Len(ModuleQueue'[n]) :
              \E p \in 1 .. Len(ModuleQueue[n]) :
                /\ ModuleQueue'[n][q] = ModuleQueue[n][p]
                /\ n = m => ModuleQueue'[n][q].DelieverdObjectID # DeliveredID(m)
<1>1. ModuleQueue \in [Modules -> Seq(ModuleQueueItem)] /\ ModuleQueue[m] # <<>>
  BY DEF TypeOK, SharedTypeOK, Delivered
<1>2. ModuleQueue[m] \in Seq(ModuleQueueItem)
  BY <1>1
<1>3. /\ \A n \in Modules \ {m} : ModuleQueue'[n] = ModuleQueue[n]
      /\ ModuleQueue'[m] = Tail(ModuleQueue[m])
  BY <1>1 DEF Received
<1>4. ASSUME NEW q \in 1 .. Len(ModuleQueue'[m])
      PROVE  /\ q \in Nat
             /\ q + 1 \in 1 .. Len(ModuleQueue[m])
             /\ q + 1 # 1
             /\ ModuleQueue'[m][q] = ModuleQueue[m][q + 1]
  BY <1>1, <1>2, <1>3
<1>5. /\ 1 \in 1 .. Len(ModuleQueue[m])
      /\ DeliveredID(m) = ModuleQueue[m][1].DelieverdObjectID
  BY <1>1, <1>2 DEF DeliveredID
<1>6. ASSUME NEW n \in Modules, NEW q \in 1 .. Len(ModuleQueue'[n])
      PROVE  \E p \in 1 .. Len(ModuleQueue[n]) :
               /\ ModuleQueue'[n][q] = ModuleQueue[n][p]
               /\ n = m => ModuleQueue'[n][q].DelieverdObjectID # DeliveredID(m)
  <2>1. CASE n = m
    <3>1. /\ q + 1 \in 1 .. Len(ModuleQueue[m])
          /\ q + 1 # 1
          /\ ModuleQueue'[m][q] = ModuleQueue[m][q + 1]
      BY <1>4, <1>6, <2>1
    <3>2. ModuleQueue[m][q + 1].DelieverdObjectID # ModuleQueue[m][1].DelieverdObjectID
      BY <1>5, <3>1 DEF DeliveriesDistinct
    <3>. QED
      BY <1>5, <2>1, <3>1, <3>2
  <2>2. CASE n # m
    BY <1>3, <1>6, <2>2
  <2>. QED
    BY <2>1, <2>2
<1>7. ASSUME NEW n \in Modules,
             NEW q \in 1 .. Len(ModuleQueue'[n]), NEW r \in 1 .. Len(ModuleQueue'[n]),
             ModuleQueue'[n][q].DelieverdObjectID = ModuleQueue'[n][r].DelieverdObjectID
      PROVE  q = r
  <2>1. CASE n = m
    <3>1. /\ q \in Nat /\ q + 1 \in 1 .. Len(ModuleQueue[m])
          /\ r \in Nat /\ r + 1 \in 1 .. Len(ModuleQueue[m])
          /\ ModuleQueue[m][q + 1].DelieverdObjectID = ModuleQueue[m][r + 1].DelieverdObjectID
      BY <1>4, <1>7, <2>1
    <3>2. q + 1 = r + 1
      BY <3>1 DEF DeliveriesDistinct
    <3>. QED
      BY <3>1, <3>2
  <2>2. CASE n # m
    BY <1>3, <1>7, <2>2 DEF DeliveriesDistinct
  <2>. QED
    BY <2>1, <2>2
<1>8. DeliveriesDistinct'
  BY <1>7 DEF DeliveriesDistinct
<1>. QED
  BY <1>6, <1>8

\* Steps that carry out nothing leave the history in order.
LEMMA QuietFired ==
  ASSUME TypeOK, ReachedInv, RepeatInv, HistoryGrows, UNCHANGED fired
  PROVE  FiredType' /\ FiredForward'
<1>1. FiredType'
  BY DEF RepeatInv, FiredType
<1>2. ASSUME NEW x \in fired PROVE born'[x[1] + 1] <= x[2]
  BY BornKept DEF ReachedInv, HistoryNumbered, RepeatInv, FiredForward
<1>3. FiredForward'
  BY <1>2 DEF FiredForward
<1>. QED
  BY <1>1, <1>3

LEMMA RepeatOdAccept ==
  TypeOK /\ TypeOK' /\ ReachedInv /\ RepeatInv /\ OdAccept => RepeatInv'
<1>. SUFFICES ASSUME TypeOK, TypeOK', ReachedInv, RepeatInv, OdAccept
              PROVE  RepeatInv'
  OBVIOUS
<1>. DEFINE m == odModule
            id == DeliveredID(m)
            list == AddAllActions(ObjectInModuleList[m], m, id, Now(m))
<1>1. /\ m \in Modules
      /\ Delivered(m)
      /\ ModuleQueue' = Received(m)
      /\ NextModule
      /\ UNCHANGED <<born, fired, trVars, GlobalObjectID>>
      /\ ObjectInModuleList' = [ObjectInModuleList EXCEPT ![m] = list]
  BY DEF OdAccept, TypeOK, OdTypeOK
<1>2. FiredType' /\ FiredForward'
  BY <1>1, QuietFired DEF HistoryGrows
<1>3. CreationOnce'
  BY <1>1, NextModuleType DEF CreationOnce
<1>4. /\ id \in Nat
      /\ Now(m) \in Nat
      /\ ObjectInModuleList[m] \in [Slots -> ActionListItem \cup {NoAction}]
  BY <1>1, DeliveredType, NowType DEF TypeOK, SharedTypeOK
<1>5. Untouched(id, m)
  <2>1. ModuleQueue[m] \in Seq(ModuleQueueItem) /\ ModuleQueue[m] # <<>>
    BY <1>1 DEF TypeOK, SharedTypeOK, Delivered
  <2>2. 1 \in 1 .. Len(ModuleQueue[m]) /\ id = ModuleQueue[m][1].DelieverdObjectID
    BY <2>1 DEF DeliveredID
  <2>. QED
    BY <1>1, <2>2 DEF RepeatInv, DeliveriesFresh
<1>6. AddedOnce(ObjectInModuleList[m], list, id)
  BY <1>1, <1>4, AddAllOnce
<1>7. /\ NoActionRepeated'
      /\ \A i : \A n \in Modules : (i # id \/ n # m) /\ Untouched(i, n) => Untouched(i, n)'
  <2>. HIDE DEF id, list, m
  <2>. QED
    BY <1>1, <1>5, <1>6, RepeatAdd DEF RepeatInv
<1>8. /\ DeliveriesDistinct'
      /\ \A n \in Modules : \A q \in 1 .. Len(ModuleQueue'[n]) :
           \E p \in 1 .. Len(ModuleQueue[n]) :
             /\ ModuleQueue'[n][q] = ModuleQueue[n][p]
             /\ n = m => ModuleQueue'[n][q].DelieverdObjectID # id
  BY <1>1, ReceivedOnce DEF RepeatInv
<1>9. ASSUME NEW n \in Modules, NEW q \in 1 .. Len(ModuleQueue'[n])
      PROVE  Untouched(ModuleQueue[n][q].DelieverdObjectID, n)'
  <2>1. PICK i : i = ModuleQueue'[n][q].DelieverdObjectID
    OBVIOUS
  <2>2. Untouched(i, n) /\ (i # id \/ n # m)
    BY <1>8, <1>9, <2>1 DEF RepeatInv, DeliveriesFresh
  <2>3. Untouched(i, n)'
    BY <1>7, <2>2
  <2>. QED
    BY <2>1, <2>3
<1>10. DeliveriesFresh'
  BY <1>9 DEF DeliveriesFresh
<1>. QED
  BY <1>2, <1>3, <1>7, <1>8, <1>10 DEF RepeatInv

LEMMA RepeatOdDrop ==
  TypeOK /\ TypeOK' /\ ReachedInv /\ RepeatInv /\ OdDrop => RepeatInv'
<1>. SUFFICES ASSUME TypeOK, TypeOK', ReachedInv, RepeatInv, OdDrop
              PROVE  RepeatInv'
  OBVIOUS
<1>1. /\ odModule \in Modules
      /\ Delivered(odModule)
      /\ ModuleQueue' = Received(odModule)
      /\ NextModule
      /\ UNCHANGED <<ObjectInModuleList, born, fired, trVars, GlobalObjectID>>
  BY DEF OdDrop, TypeOK, OdTypeOK
<1>2. FiredType' /\ FiredForward'
  BY <1>1, QuietFired DEF HistoryGrows
<1>3. CreationOnce'
  BY <1>1, NextModuleType DEF CreationOnce
<1>4. NoActionRepeated'
  BY <1>1 DEF RepeatInv, NoActionRepeated, Pending, trVars
<1>5. /\ DeliveriesDistinct'
      /\ \A n \in Modules : \A q \in 1 .. Len(ModuleQueue'[n]) :
           \E p \in 1 .. Len(ModuleQueue[n]) : ModuleQueue'[n][q] = ModuleQueue[n][p]
  BY <1>1, ReceivedOnce DEF RepeatInv
<1>6. DeliveriesFresh'
  <2>1. ASSUME NEW n \in Modules, NEW q \in 1 .. Len(ModuleQueue'[n]),
               NEW id, id = ModuleQueue'[n][q].DelieverdObjectID
        PROVE  Untouched(id, n)'
    <3>1. PICK p \in 1 .. Len(ModuleQueue[n]) : ModuleQueue'[n][q] = ModuleQueue[n][p]
      BY <1>5
    <3>2. Untouched(id, n)
      BY <2>1, <3>1 DEF RepeatInv, DeliveriesFresh
    <3>. QED
      BY <1>1, <3>2 DEF Untouched
  <2>. QED
    BY <2>1 DEF DeliveriesFresh
<1>. QED
  BY <1>2, <1>3, <1>4, <1>5, <1>6 DEF RepeatInv

\* Nothing names a new object yet.
LEMMA CreatedOnce ==
  ASSUME TypeOK, ObjectIDsUnique, ReachedInv, RepeatInv, NEW dropped,
         CreateObject(odModule, dropped),
         UNCHANGED <<odModule, fired, ObjectInModuleList, trVars>>,
         \A n \in Modules : \A q \in 1 .. Len(ModuleQueue'[n]) :
           \E p \in 1 .. Len(ModuleQueue[n]) : ModuleQueue'[n][q] = ModuleQueue[n][p]
  PROVE  /\ FiredType' /\ FiredForward'
         /\ NoActionRepeated'
         /\ DeliveriesFresh'
         /\ CreationOnce'
<1>1. PICK s \in Slots :
        /\ ObjectBuffer' = [ObjectBuffer EXCEPT ![s] = NewObject(GlobalObjectID)]
        /\ GlobalObjectID' = NextID
        /\ GlobalObjectCount' = s
        /\ born' = Append(born, odModule)
  BY DEF CreateObject
<1>2. /\ odModule \in Modules
      /\ GlobalObjectID \in Nat
      /\ GlobalObjectID' = GlobalObjectID + 1
      /\ born \in Seq(Modules)
      /\ Len(born) = GlobalObjectID
  BY <1>1 DEF TypeOK, SharedTypeOK, OdTypeOK, HistoryTypeOK, NextID, ReachedInv,
              HistoryNumbered
<1>3. HistoryGrows
  BY <1>1, <1>2 DEF HistoryGrows
<1>4. FiredType' /\ FiredForward'
  BY <1>3, QuietFired
<1>5. NoActionRepeated'
  BY DEF RepeatInv, NoActionRepeated, Pending, trVars
<1>6. DeliveriesFresh'
  BY DEF RepeatInv, DeliveriesFresh, Untouched
<1>7. CreationOnce'
  <2>1. ObjectBuffer'[GlobalObjectCount'].ObjectID = GlobalObjectID
    BY <1>1 DEF TypeOK, SharedTypeOK, NewObject
  <2>2. born'[GlobalObjectID + 1] = odModule'
    BY <1>1, <1>2
  <2>3. PICK g : g = GlobalObjectID
    OBVIOUS
  <2>4. ~(g < g)
    BY <1>2, <2>3
  <2>5. Untouched(g, odModule)'
    BY <1>2, <2>3, <2>4
    DEF Untouched, ObjectIDsUnique, NumberedEntries, ReachedInv, HistoryNumbered
  <2>6. NotQueued(g, odModule)'
    <3>1. ASSUME NEW q \in 1 .. Len(ModuleQueue'[odModule])
          PROVE  ModuleQueue'[odModule][q].DelieverdObjectID # g
      <4>1. PICK p \in 1 .. Len(ModuleQueue[odModule]) :
              ModuleQueue'[odModule][q] = ModuleQueue[odModule][p]
        BY <1>2, <3>1
      <4>2. ModuleQueue[odModule][p].DelieverdObjectID < g
        BY <1>2, <2>3 DEF ObjectIDsUnique, NumberedDeliveries
      <4>. QED
        BY <2>4, <4>1, <4>2
    <3>. QED
      BY <3>1 DEF NotQueued
  <2>. QED
    BY <2>1, <2>2, <2>3, <2>5, <2>6 DEF CreationOnce
<1>. QED
  BY <1>4, <1>5, <1>6, <1>7

LEMMA RepeatOdDetect ==
  TypeOK /\ ObjectIDsUnique /\ ReachedInv /\ RepeatInv /\ OdDetect => RepeatInv'
<1>. SUFFICES ASSUME TypeOK, ObjectIDsUnique, ReachedInv, RepeatInv, OdDetect
              PROVE  RepeatInv'
  OBVIOUS
<1>1. /\ CreateObject(odModule, {})
      /\ UNCHANGED <<ObjectInModuleList, ModuleQueue, odModule, fired, trVars>>
  BY DEF OdDetect
<1>2. DeliveriesDistinct'
  BY <1>1 DEF RepeatInv, DeliveriesDistinct
<1>. QED
  BY <1>1, <1>2, CreatedOnce DEF RepeatInv

LEMMA RepeatOdReplace ==
  TypeOK /\ ObjectIDsUnique /\ ReachedInv /\ RepeatInv /\ OdReplace => RepeatInv'
<1>. SUFFICES ASSUME TypeOK, ObjectIDsUnique, ReachedInv, RepeatInv, OdReplace
              PROVE  RepeatInv'
  OBVIOUS
<1>1. /\ odModule \in Modules
      /\ Delivered(odModule)
      /\ ModuleQueue' = Received(odModule)
      /\ CreateObject(odModule, {<<DeliveredID(odModule), "window">>})
      /\ UNCHANGED <<ObjectInModuleList, odModule, fired, trVars>>
  BY DEF OdReplace, TypeOK, OdTypeOK
<1>2. /\ DeliveriesDistinct'
      /\ \A n \in Modules : \A q \in 1 .. Len(ModuleQueue'[n]) :
           \E p \in 1 .. Len(ModuleQueue[n]) : ModuleQueue'[n][q] = ModuleQueue[n][p]
  BY <1>1, ReceivedOnce DEF RepeatInv
<1>. QED
  BY <1>1, <1>2, CreatedOnce DEF RepeatInv

LEMMA RepeatOdAddActions ==
  TypeOK /\ TypeOK' /\ ReachedInv /\ RepeatInv /\ OdAddActions => RepeatInv'
<1>. SUFFICES ASSUME TypeOK, TypeOK', ReachedInv, RepeatInv, OdAddActions
              PROVE  RepeatInv'
  OBVIOUS
<1>. DEFINE m == odModule
            id == ObjectBuffer[GlobalObjectCount].ObjectID
            old == ObjectInModuleList[m]
            list == IF addAll THEN AddAllActions(old, m, id, Now(m))
                              ELSE AddOneAction(old, m, id, Now(m), Action_i + 1)
<1>1. /\ odPc = "sending"
      /\ NextModule
      /\ ObjectInModuleList' = [ObjectInModuleList EXCEPT ![m] = list]
      /\ UNCHANGED <<ModuleQueue, GlobalObjectID, born, fired, trVars>>
  BY DEF OdAddActions
<1>2. m \in Modules /\ GlobalObjectCount \in Slots /\ Action_i + 1 \in Nat
  BY <1>1 DEF TypeOK, OdTypeOK
<1>3. /\ id \in Nat
      /\ Now(m) \in Nat
      /\ old \in [Slots -> ActionListItem \cup {NoAction}]
  BY <1>1, <1>2, NowType DEF TypeOK, SharedTypeOK, ObjectInfo
<1>4. FiredType' /\ FiredForward'
  BY <1>1, QuietFired DEF HistoryGrows
<1>5. CreationOnce'
  BY <1>1, NextModuleType DEF CreationOnce
<1>6. Untouched(id, m) /\ NotQueued(id, m)
  BY <1>1 DEF RepeatInv, CreationOnce
<1>7. AddedOnce(old, list, id)
  <2>. HIDE DEF m, id, old
  <2>1. CASE addAll
    BY <1>2, <1>3, <2>1, AddAllOnce
  <2>2. CASE ~addAll
    BY <1>2, <1>3, <2>2, AddOneOnce
  <2>. QED
    BY <2>1, <2>2
<1>8. /\ NoActionRepeated'
      /\ \A i : \A n \in Modules : (i # id \/ n # m) /\ Untouched(i, n) => Untouched(i, n)'
  <2>1. AddedOnce(ObjectInModuleList[m], list, id)
    BY <1>7
  <2>. HIDE DEF id, list, m
  <2>. QED
    BY <1>1, <1>2, <1>6, <2>1, RepeatAdd DEF RepeatInv
<1>9. ASSUME NEW n \in Modules, NEW q \in 1 .. Len(ModuleQueue'[n])
      PROVE  Untouched(ModuleQueue[n][q].DelieverdObjectID, n)'
  <2>1. PICK i : i = ModuleQueue[n][q].DelieverdObjectID
    OBVIOUS
  <2>2. Untouched(i, n) /\ (i # id \/ n # m)
    BY <1>1, <1>6, <1>9, <2>1 DEF RepeatInv, DeliveriesFresh, NotQueued
  <2>3. Untouched(i, n)'
    BY <1>8, <2>2
  <2>. QED
    BY <1>1, <2>1, <2>3
<1>10. DeliveriesFresh'
  BY <1>9 DEF DeliveriesFresh
<1>11. DeliveriesDistinct'
  BY <1>1 DEF RepeatInv, DeliveriesDistinct
<1>. QED
  BY <1>4, <1>5, <1>8, <1>10, <1>11 DEF RepeatInv

\* What carrying out the entry found due means for every other object, and
\* for this one in every other module.
LEMMA FireOnce ==
  ASSUME TypeOK, OneWayLine, ObjectIDsUnique, ReachedInv, RepeatInv,
         Item \in ActionListItem, trPc # "clear", trPc' = "clear",
         UNCHANGED <<ObjectInModuleList, trModule, trAction, born, GlobalObjectID>>,
         fired' = fired \cup {<<Item.ObjectID, trModule, Item.ActionNumber>>}
  PROVE  /\ FiredType' /\ FiredForward'
         /\ NoActionRepeated'
         /\ \A i, n : Untouched(i, n) => Untouched(i, n)'
<1>1. PICK id, m, k : id = Item.ObjectID /\ m = trModule /\ k = Item.ActionNumber
  OBVIOUS
<1>2. /\ id \in Nat
      /\ k \in Nat
      /\ m \in Modules
      /\ trAction \in Slots
      /\ Item = ObjectInModuleList[m][trAction]
      /\ Item # NoAction
  BY <1>1, ConfigAssumption DEF TypeOK, TrTypeOK, ActionListItem, Item
<1>3. fired' = fired \cup {<<id, m, k>>}
  BY <1>1
<1>4. FiredType'
  BY <1>2, <1>3 DEF RepeatInv, FiredType
<1>5. id < GlobalObjectID /\ Reached(id, m)
  BY <1>1, <1>2 DEF ObjectIDsUnique, NumberedEntries, ReachedInv, EntriesReached
<1>6. born[id + 1] <= m
  BY <1>2, <1>5, ReachedForward DEF RepeatInv, ReachedInv
<1>7. FiredForward'
  <2>1. ASSUME NEW x \in fired' PROVE born[x[1] + 1] <= x[2]
    <3>1. CASE x \in fired
      BY <3>1 DEF RepeatInv, FiredForward
    <3>2. CASE x = <<id, m, k>>
      BY <1>6, <3>2
    <3>. QED
      BY <1>3, <2>1, <3>1, <3>2
  <2>. QED
    BY <2>1 DEF FiredForward
<1>8. NoActionRepeated'
  BY RepeatFire DEF RepeatInv
<1>9. ASSUME NEW i, NEW n, Untouched(i, n) PROVE Untouched(i, n)'
  <2>1. i # id \/ n # m
    BY <1>1, <1>2, <1>9 DEF Untouched
  <2>2. \A x \in fired' : x \in fired \/ x[1] # i \/ x[2] # n
    BY <1>3, <2>1
  <2>. QED
    BY <1>9, <2>2, UntouchedKept
<1>. QED
  BY <1>4, <1>7, <1>8, <1>9

\* The object under creation is the one it was before the step.
LEMMA CreationOnceKept ==
  ASSUME TypeOK, ObjectIDsUnique, RepeatInv,
         UNCHANGED <<odPc, odModule, GlobalObjectCount, born>>,
         \A s \in Slots : ObjectBuffer'[s].ObjectID = ObjectBuffer[s].ObjectID,
         \A i, n : Untouched(i, n) => Untouched(i, n)',
         \A i : /\ odPc = "sending"
                /\ i = ObjectBuffer[GlobalObjectCount].ObjectID
                /\ NotQueued(i, odModule)
                => NotQueued(i, odModule)'
  PROVE  CreationOnce'
<1>. SUFFICES ASSUME odPc = "sending" PROVE CreationOnce'
  BY DEF CreationOnce
<1>1. GlobalObjectCount \in Slots
  BY DEF TypeOK, OdTypeOK
<1>2. PICK i, n : i = ObjectBuffer[GlobalObjectCount].ObjectID /\ n = odModule
  OBVIOUS
<1>3. born[i + 1] = n /\ Untouched(i, n) /\ NotQueued(i, odModule)
  BY <1>2 DEF RepeatInv, CreationOnce
<1>4. Untouched(i, n)' /\ NotQueued(i, odModule)'
  BY <1>2, <1>3
<1>5. i = ObjectBuffer'[GlobalObjectCount'].ObjectID /\ n = odModule'
  BY <1>1, <1>2
<1>. QED
  BY <1>3, <1>4, <1>5 DEF CreationOnce

LEMMA RepeatOtherFires ==
  ASSUME TypeOK, OneWayLine, ObjectIDsUnique, ReachedInv, RepeatInv,
         TrOutput \/ TrRequestMachineData \/ TrFree
  PROVE  RepeatInv'
<1>1. /\ Item \in ActionListItem
      /\ trPc # "clear"
      /\ trPc' = "clear"
      /\ fired' = fired \cup {<<Item.ObjectID, trModule, Item.ActionNumber>>}
      /\ UNCHANGED <<ObjectInModuleList, ModuleQueue, GlobalObjectID, odVars, born,
                     trModule, trAction>>
  <2>1. CASE TrOutput \/ TrRequestMachineData
    BY <2>1, DueItem DEF TrOutput, TrRequestMachineData, Fire, sharedVars
  <2>2. CASE TrFree
    BY <2>2 DEF TrFree, TypeOK, TrTypeOK
  <2>. QED
    BY <2>1, <2>2
<1>2. \A s \in Slots : ObjectBuffer'[s].ObjectID = ObjectBuffer[s].ObjectID
  <2>1. \/ object_i \in Slots /\ ObjectBuffer' = Freed(object_i)
        \/ UNCHANGED ObjectBuffer
    BY DEF TrOutput, TrRequestMachineData, TrFree, sharedVars
  <2>2. ObjectBuffer \in [Slots -> ObjectInfo]
    BY DEF TypeOK, SharedTypeOK
  <2>. QED
    BY <2>1, <2>2 DEF Freed, ObjectInfo
<1>3. /\ FiredType' /\ FiredForward'
      /\ NoActionRepeated'
      /\ \A i, n : Untouched(i, n) => Untouched(i, n)'
  BY <1>1, FireOnce
<1>4. \A i : NotQueued(i, odModule) => NotQueued(i, odModule)'
  BY <1>1 DEF NotQueued, odVars
<1>5. CreationOnce'
  BY <1>1, <1>2, <1>3, <1>4, CreationOnceKept DEF odVars
<1>6. DeliveriesDistinct'
  BY <1>1 DEF RepeatInv, DeliveriesDistinct
<1>7. ASSUME NEW n \in Modules, NEW q \in 1 .. Len(ModuleQueue'[n])
      PROVE  Untouched(ModuleQueue[n][q].DelieverdObjectID, n)'
  <2>1. PICK i : i = ModuleQueue[n][q].DelieverdObjectID
    OBVIOUS
  <2>2. Untouched(i, n)
    BY <1>1, <1>7, <2>1 DEF RepeatInv, DeliveriesFresh
  <2>3. Untouched(i, n)'
    BY <1>3, <2>2
  <2>. QED
    BY <1>1, <2>1, <2>3
<1>8. DeliveriesFresh'
  BY <1>7 DEF DeliveriesFresh
<1>. QED
  BY <1>3, <1>5, <1>6, <1>8 DEF RepeatInv

\* The take-over hands the object to a module that has not begun with it.
LEMMA RepeatTrTakeOver ==
  ASSUME TypeOK, OneWayLine, ObjectIDsUnique, ReachedInv, RepeatInv, TrTakeOver
  PROVE  RepeatInv'
<1>. DEFINE dest == ItemAction.DestinationModule
            item == [DelieverdObjectID |-> Item.ObjectID,
                     DelieverdEncoderNum |->
                       trEncoder[ModuleConfig[dest].Encoder]]
<1>1. /\ Due
      /\ trPc = "scan"
      /\ trPc' = "clear"
      /\ ItemAction.ActionType = "ObjectTakeOver"
      /\ fired' = fired \cup {<<Item.ObjectID, trModule, Item.ActionNumber>>}
      /\ UNCHANGED <<ObjectBuffer, ObjectInModuleList, GlobalObjectID, odVars,
                     born, trModule, trAction>>
      /\ \/ ModuleQueue' = [ModuleQueue EXCEPT ![dest] = Append(@, item)]
         \/ UNCHANGED ModuleQueue
  BY DEF TrTakeOver, Fire
<1>2. Item \in ActionListItem
  BY <1>1, DueItem
<1>3. /\ FiredType' /\ FiredForward'
      /\ NoActionRepeated'
      /\ \A i, n : Untouched(i, n) => Untouched(i, n)'
  BY <1>1, <1>2, FireOnce
<1>4. PICK id, d : id = Item.ObjectID /\ d = dest
  OBVIOUS
<1>5. /\ d \in Modules
      /\ born[id + 1] # d
      /\ Untouched(id, d)
      /\ NotQueued(id, d)
  BY <1>1, <1>4, HandedOnce
<1>6. ModuleQueue \in [Modules -> Seq(ModuleQueueItem)]
  BY DEF TypeOK, SharedTypeOK
<1>7. PICK it : it = item
  OBVIOUS
<1>8. /\ it.DelieverdObjectID = id
      /\ \/ ModuleQueue' = [ModuleQueue EXCEPT ![d] = Append(@, it)]
         \/ UNCHANGED ModuleQueue
  BY <1>1, <1>4, <1>7
<1>. HIDE DEF dest, item
\* Each delivery was there, or is the new one at the end of d's queue.
<1>9. ASSUME NEW n \in Modules, NEW q \in 1 .. Len(ModuleQueue'[n])
      PROVE  \/ q \in 1 .. Len(ModuleQueue[n]) /\ ModuleQueue'[n][q] = ModuleQueue[n][q]
             \/ /\ n = d
                /\ q = Len(ModuleQueue[n]) + 1
                /\ ModuleQueue'[n][q] = it
  <2>1. ModuleQueue[n] \in Seq(ModuleQueueItem) /\ Len(ModuleQueue[n]) \in Nat
    BY <1>6
  <2>2. CASE ModuleQueue'[n] = ModuleQueue[n]
    BY <1>9, <2>2
  <2>3. CASE n = d /\ ModuleQueue'[n] = Append(ModuleQueue[n], it)
    <3>1. Len(ModuleQueue'[n]) = Len(ModuleQueue[n]) + 1
      BY <2>1, <2>3
    <3>2. q \in 1 .. Len(ModuleQueue[n]) \/ q = Len(ModuleQueue[n]) + 1
      BY <1>9, <2>1, <3>1
    <3>3. ASSUME q \in 1 .. Len(ModuleQueue[n])
          PROVE  ModuleQueue'[n][q] = ModuleQueue[n][q]
      BY <2>1, <2>3, <3>3
    <3>4. ASSUME q = Len(ModuleQueue[n]) + 1
          PROVE  ModuleQueue'[n][q] = it
      BY <2>1, <2>3, <3>4
    <3>. QED
      BY <2>3, <3>2, <3>3, <3>4
  <2>4. \/ ModuleQueue'[n] = ModuleQueue[n]
        \/ n = d /\ ModuleQueue'[n] = Append(ModuleQueue[n], it)
    BY <1>5, <1>6, <1>8
  <2>. QED
    BY <2>2, <2>3, <2>4
<1>10. DeliveriesFresh'
  <2>1. ASSUME NEW n \in Modules, NEW q \in 1 .. Len(ModuleQueue'[n])
        PROVE  Untouched(ModuleQueue[n][q].DelieverdObjectID, n)'
    <3>1. PICK i : i = ModuleQueue'[n][q].DelieverdObjectID
      OBVIOUS
    <3>2. Untouched(i, n)
      BY <1>5, <1>8, <1>9, <2>1, <3>1 DEF RepeatInv, DeliveriesFresh
    <3>3. Untouched(i, n)'
      BY <1>3, <3>2
    <3>. QED
      BY <3>1, <3>3
  <2>. QED
    BY <2>1 DEF DeliveriesFresh
<1>11. DeliveriesDistinct'
  <2>1. ASSUME NEW n \in Modules,
               NEW q \in 1 .. Len(ModuleQueue'[n]), NEW r \in 1 .. Len(ModuleQueue'[n]),
               ModuleQueue'[n][q].DelieverdObjectID = ModuleQueue'[n][r].DelieverdObjectID
        PROVE  q = r
    <3>1. CASE q \in 1 .. Len(ModuleQueue[n]) /\ ModuleQueue'[n][q] = ModuleQueue[n][q]
      <4>1. CASE r \in 1 .. Len(ModuleQueue[n]) /\ ModuleQueue'[n][r] = ModuleQueue[n][r]
        BY <2>1, <3>1, <4>1 DEF RepeatInv, DeliveriesDistinct
      <4>2. CASE n = d /\ ModuleQueue'[n][r] = it
        BY <1>5, <1>8, <2>1, <3>1, <4>2 DEF NotQueued
      <4>. QED
        BY <1>9, <2>1, <4>1, <4>2
    <3>2. CASE n = d /\ q = Len(ModuleQueue[n]) + 1 /\ ModuleQueue'[n][q] = it
      <4>1. CASE r \in 1 .. Len(ModuleQueue[n]) /\ ModuleQueue'[n][r] = ModuleQueue[n][r]
        BY <1>5, <1>8, <2>1, <3>2, <4>1 DEF NotQueued
      <4>2. CASE r = Len(ModuleQueue[n]) + 1
        BY <3>2, <4>2
      <4>. QED
        BY <1>9, <2>1, <4>1, <4>2
    <3>. QED
      BY <1>9, <2>1, <3>1, <3>2
  <2>. QED
    BY <2>1 DEF DeliveriesDistinct
<1>12. CreationOnce'
  <2>1. ASSUME NEW i, odPc = "sending",
               i = ObjectBuffer[GlobalObjectCount].ObjectID,
               NotQueued(i, odModule)
        PROVE  NotQueued(i, odModule)'
    <3>1. odModule \in Modules /\ odModule' = odModule
      BY <1>1 DEF TypeOK, OdTypeOK, odVars
    <3>2. ~(i = id /\ odModule = d)
      BY <1>5, <2>1 DEF RepeatInv, CreationOnce
    <3>3. ASSUME NEW q \in 1 .. Len(ModuleQueue'[odModule])
          PROVE  ModuleQueue'[odModule][q].DelieverdObjectID # i
      BY <1>8, <1>9, <2>1, <3>1, <3>2, <3>3 DEF NotQueued
    <3>. QED
      BY <3>1, <3>3 DEF NotQueued
  <2>2. \A s \in Slots : ObjectBuffer'[s].ObjectID = ObjectBuffer[s].ObjectID
    BY <1>1
  <2>3. UNCHANGED <<odPc, odModule, GlobalObjectCount, born>>
    BY <1>1 DEF odVars
  <2>. QED
    BY <1>3, <2>1, <2>2, <2>3, CreationOnceKept
<1>. QED
  BY <1>3, <1>10, <1>11, <1>12 DEF RepeatInv

\* Steps that add nothing and carry out nothing.
LEMMA RepeatKept ==
  ASSUME TypeOK, ObjectIDsUnique, RepeatInv,
         UNCHANGED <<born, fired, GlobalObjectID, ModuleQueue>>,
         \A m \in Modules, s \in Slots :
           /\ \/ ObjectInModuleList'[m][s] = ObjectInModuleList[m][s]
              \/ ObjectInModuleList'[m][s] = NoAction
           /\ Pending(m, s)' => Pending(m, s),
         odPc' = "sending" =>
           odPc = "sending" /\ UNCHANGED <<GlobalObjectCount, odModule>>,
         \A s \in Slots : ObjectBuffer'[s].ObjectID = ObjectBuffer[s].ObjectID
  PROVE  RepeatInv'
<1>1. FiredType' /\ FiredForward' /\ DeliveriesDistinct'
  BY DEF RepeatInv, FiredType, FiredForward, DeliveriesDistinct
<1>2. NoActionRepeated'
  BY RepeatQuiet DEF RepeatInv
<1>3. ASSUME NEW i, NEW n \in Modules, Untouched(i, n) PROVE Untouched(i, n)'
  BY <1>3, UntouchedKept
<1>4. DeliveriesFresh'
  <2>1. ASSUME NEW n \in Modules, NEW q \in 1 .. Len(ModuleQueue'[n])
        PROVE  Untouched(ModuleQueue[n][q].DelieverdObjectID, n)'
    <3>1. PICK i : i = ModuleQueue[n][q].DelieverdObjectID
      OBVIOUS
    <3>2. Untouched(i, n)
      BY <2>1, <3>1 DEF RepeatInv, DeliveriesFresh
    <3>3. Untouched(i, n)'
      BY <1>3, <3>2
    <3>. QED
      BY <3>1, <3>3
  <2>. QED
    BY <2>1 DEF DeliveriesFresh
<1>5. CreationOnce'
  <2>. SUFFICES ASSUME odPc' = "sending" PROVE CreationOnce'
    BY DEF CreationOnce
  <2>1. odPc = "sending" /\ UNCHANGED <<GlobalObjectCount, odModule>>
    OBVIOUS
  <2>2. GlobalObjectCount \in Slots /\ odModule \in Modules
    BY <2>1 DEF TypeOK, OdTypeOK
  <2>3. PICK i, n : i = ObjectBuffer[GlobalObjectCount].ObjectID /\ n = odModule
    OBVIOUS
  <2>4. born[i + 1] = n /\ Untouched(i, n) /\ NotQueued(i, n)
    BY <2>1, <2>3 DEF RepeatInv, CreationOnce
  <2>5. Untouched(i, n)' /\ NotQueued(i, n)'
    BY <1>3, <2>2, <2>3, <2>4 DEF NotQueued
  <2>6. i = ObjectBuffer'[GlobalObjectCount'].ObjectID /\ n = odModule'
    BY <2>1, <2>2, <2>3
  <2>. QED
    BY <2>4, <2>5, <2>6 DEF CreationOnce
<1>. QED
  BY <1>1, <1>2, <1>4, <1>5 DEF RepeatInv

LEMMA RepeatTrClear ==
  TypeOK /\ ObjectIDsUnique /\ RepeatInv /\ TrClear => RepeatInv'
<1>. SUFFICES ASSUME TypeOK, ObjectIDsUnique, RepeatInv, TrClear
              PROVE  RepeatInv'
  OBVIOUS
<1>1. UNCHANGED <<ObjectBuffer, ModuleQueue, GlobalObjectID, odVars, born, fired>>
  BY DEF TrClear, history
<1>2. trPc' # "clear"
  BY DEF TrClear, NextEntry
<1>3. \A m \in Modules, s \in Slots :
        /\ \/ ObjectInModuleList'[m][s] = ObjectInModuleList[m][s]
           \/ ObjectInModuleList'[m][s] = NoAction
        /\ m = trModule /\ s = trAction => ObjectInModuleList'[m][s] = NoAction
  BY DEF TrClear, Cleared, TypeOK, SharedTypeOK, TrTypeOK
<1>4. \A m \in Modules, s \in Slots : Pending(m, s)' => Pending(m, s)
  BY <1>2, <1>3 DEF Pending
<1>. QED
  BY <1>1, <1>3, <1>4, RepeatKept DEF odVars

LEMMA InitRepeat == Init => RepeatInv
<1>. SUFFICES ASSUME Init PROVE RepeatInv
  OBVIOUS
<1>1. FiredType /\ FiredForward
  BY DEF Init, FiredType, FiredForward
<1>2. NoActionRepeated
  BY DEF Init, NoActionRepeated, Pending
<1>3. DeliveriesFresh /\ DeliveriesDistinct
  BY DEF Init, DeliveriesFresh, DeliveriesDistinct
<1>4. CreationOnce
  BY DEF Init, CreationOnce
<1>. QED
  BY <1>1, <1>2, <1>3, <1>4 DEF RepeatInv

LEMMA NextRepeat ==
  ASSUME OneWayLine, TypeOK, TypeOK', ObjectIDsUnique, ReachedInv, RepeatInv,
         [Next]_vars
  PROVE  RepeatInv'
\* Tracking stays away from "clear", or where it is.
<1>1. ASSUME UNCHANGED <<ObjectInModuleList, ModuleQueue, GlobalObjectID, born, fired>>,
             trPc # "clear" \/ UNCHANGED <<trPc, trModule, trAction>>,
             odPc' = "sending" =>
               odPc = "sending" /\ UNCHANGED <<GlobalObjectCount, odModule>>,
             \A s \in Slots : ObjectBuffer'[s].ObjectID = ObjectBuffer[s].ObjectID
      PROVE  RepeatInv'
  <2>1. \A m \in Modules, s \in Slots : Pending(m, s)' => Pending(m, s)
    BY <1>1 DEF Pending
  <2>. QED
    BY <1>1, <2>1, RepeatKept
<1>2. CASE World
  <2>1. UNCHANGED <<sharedVars, odVars, trVars, born, fired>>
    BY <1>2 DEF World, Move, Capture, ClientsChange, history
  <2>. QED
    BY <1>1, <2>1 DEF sharedVars, odVars, trVars
<1>3. CASE ObjectDetectionThread
  <2>1. CASE OdStart
    BY <1>1, <2>1 DEF OdStart, sharedVars, trVars, history
  <2>2. CASE OdSkip
    BY <1>1, <2>2, NextModuleType DEF OdSkip, sharedVars, trVars, history
  <2>. QED
    BY <1>3, <2>1, <2>2, RepeatOdAccept, RepeatOdDrop, RepeatOdDetect,
       RepeatOdReplace, RepeatOdAddActions DEF ObjectDetectionThread
<1>4. CASE TrackingThread
  <2>1. CASE TrStart \/ TrPass \/ TrFindObject \/ TrPush \/ TrPushOutOfBounds
    <3>1. UNCHANGED <<sharedVars, odVars, born, fired>> /\ trPc # "clear"
      BY <2>1 DEF TrStart, TrPass, TrFindObject, TrPush, TrPushOutOfBounds, history
    <3>. QED
      BY <1>1, <3>1 DEF sharedVars, odVars
  <2>. QED
    BY <1>4, <2>1, RepeatTrTakeOver, RepeatOtherFires, RepeatTrClear
    DEF TrackingThread
<1>5. ASSUME NEW id \in 0 .. GlobalObjectID - 1, STM32GetPushResult(id)
      PROVE  RepeatInv'
  <2>1. /\ \/ UNCHANGED ObjectBuffer
           \/ \E s \in Slots :
                ObjectBuffer' = [ObjectBuffer EXCEPT ![s].ProcessedResult = FALSE]
        /\ UNCHANGED <<ObjectInModuleList, ModuleQueue, GlobalObjectID, odVars,
                       trVars, born, fired>>
    BY <1>5 DEF STM32GetPushResult
  <2>2. \A s \in Slots : ObjectBuffer'[s].ObjectID = ObjectBuffer[s].ObjectID
    BY <2>1 DEF TypeOK, SharedTypeOK, ObjectInfo
  <2>. QED
    BY <1>1, <2>1, <2>2 DEF odVars, trVars
<1>6. CASE ActionExecuteThread
  BY <1>1, <1>6 DEF ActionExecuteThread, sharedVars, odVars, trVars, history
<1>7. CASE UNCHANGED vars
  BY <1>1, <1>7 DEF vars, sharedVars, odVars, trVars, history
<1>. QED
  BY <1>2, <1>3, <1>4, <1>5, <1>6, <1>7 DEF Next

\* On a line that runs one way no action is carried out twice for an object
\* (readme.txt:81): ObjectDetection queues it once (ObjectDetection.c:58-67),
\* each module is handed the object once (Tracking.c:99-113), and what Tracking
\* has carried out is never pending again (Tracking.c:91-147).
THEOREM NothingRepeated ==
  ASSUME OneWayLine
  PROVE  Spec => []NoActionRepeated
<1>1. Init => RepeatInv
  BY InitRepeat
<1>2. TypeOK /\ TypeOK' /\ ObjectIDsUnique /\ ReachedInv /\ RepeatInv /\ [Next]_vars
        => RepeatInv'
  BY NextRepeat
<1>3. RepeatInv => NoActionRepeated
  BY DEF RepeatInv
<1>. QED
  BY <1>1, <1>2, <1>3, InitType, NextType, InitIDs, NextIDs, InitReached,
     NextReached, PTL DEF Spec
-----------------------------------------------------------------------------
(* Part three: where an object is.                                         *)

\* At most one action of a section carries an object on.
OneCarrierLine ==
  \A m \in Modules, k, l \in Nat : IsCarrier(m, k) /\ IsCarrier(m, l) => k = l

\* The modules whose queue holds a delivery of object i.
QueuedIn(i) == {m \in Modules : ~NotQueued(i, m)}

\* Object i has a live slot.
HasSlot(i) == \E s \in AliveSlots : ObjectBuffer[s].ObjectID = i

Carried(i) == ListCarriers(i) # {} \/ QueuedIn(i) # {} \/ BeingCreated(i)

Dropped(i) == i \in LostFor(DropReasons)

Stolen(i) == i \in LostFor(StolenReasons)

\* The search by ObjectID comes to the live slot of an object before any
\* other slot with its ID, and Tracking goes on with the slot it came to.
FirstIsAlive ==
  \A s \in AliveSlots, t \in Slots :
    t < s => ObjectBuffer[t].ObjectID # ObjectBuffer[s].ObjectID

SlotsNumbered ==
  IF GlobalObjectID = 0
    THEN /\ AliveSlots = {}
         /\ GlobalObjectCount = 0
         /\ \A s \in Slots : ObjectBuffer[s].ObjectID = 0
    ELSE \A s \in Slots : ObjectBuffer[s].ObjectID < GlobalObjectID

FoundSlot ==
  trPc \in {"found", "decided"} =>
    /\ ItemAction.ActionType = "PushOut"
    /\ \A s \in AliveSlots : ObjectBuffer[s].ObjectID = Item.ObjectID => s = object_i

QueuesBounded == \A m \in Modules : Len(ModuleQueue[m]) <= moduleQueueDepth

AliveCarried == \A i \in Nat : HasSlot(i) => Carried(i) \/ Dropped(i)

SlotsInv ==
  /\ FirstIsAlive
  /\ SlotsNumbered
  /\ FoundSlot
  /\ QueuesBounded
  /\ AliveCarried

LostNumbered == \A y \in lost : y[2] \in DropReasons => y[1] \in Nat /\ y[1] < GlobalObjectID

\* Object i is carried in one place.
OnePlace(i) ==
  /\ \A x, y \in ListCarriers(i) : x = y
  /\ \A m, n \in QueuedIn(i) : m = n
  /\ ListCarriers(i) = {} \/ QueuedIn(i) = {}
  /\ BeingCreated(i) => ListCarriers(i) = {} /\ QueuedIn(i) = {}

CarryInv ==
  /\ LostNumbered
  /\ \A i \in Nat : OnePlace(i)
  /\ \A i \in Nat : Carried(i) => ~Dropped(i) /\ (HasSlot(i) \/ Stolen(i))

-----------------------------------------------------------------------------
(* How a step changes what carries an object.                              *)

LEMMA CarriersKept ==
  ASSUME NEW i,
         \A m \in Modules, s \in Slots :
           /\ Pending(m, s)' <=> Pending(m, s)
           /\ Pending(m, s) => ObjectInModuleList'[m][s] = ObjectInModuleList[m][s]
  PROVE  ListCarriers(i)' = ListCarriers(i)
<1>1. ASSUME NEW x \in Modules \X Slots
      PROVE  x \in ListCarriers(i)' <=> x \in ListCarriers(i)
  <2>1. x[1] \in Modules /\ x[2] \in Slots
    OBVIOUS
  <2>2. /\ Pending(x[1], x[2])' <=> Pending(x[1], x[2])
        /\ Pending(x[1], x[2]) =>
             ObjectInModuleList'[x[1]][x[2]] = ObjectInModuleList[x[1]][x[2]]
    BY <2>1
  <2>. QED
    BY <2>2 DEF ListCarriers
<1>2. ListCarriers(i) \subseteq Modules \X Slots /\ ListCarriers(i)' \subseteq Modules \X Slots
  BY DEF ListCarriers
<1>. QED
  BY <1>1, <1>2

\* The entry Tracking is at stops being pending.
LEMMA CarriersDone ==
  ASSUME TypeOK, trPc # "clear", trPc' = "clear", Item \in ActionListItem,
         UNCHANGED <<ObjectInModuleList, trModule, trAction>>, NEW i
  PROVE  /\ ListCarriers(i)' = ListCarriers(i) \ {<<trModule, trAction>>}
         /\ <<trModule, trAction>> \in ListCarriers(i)
              <=> Item.ObjectID = i /\ IsCarrier(trModule, Item.ActionNumber)
<1>1. /\ trModule \in Modules
      /\ trAction \in Slots
      /\ Item = ObjectInModuleList[trModule][trAction]
      /\ Item # NoAction
  BY ConfigAssumption DEF TypeOK, TrTypeOK, Item
<1>2. ASSUME NEW x \in Modules \X Slots
      PROVE  x \in ListCarriers(i)' <=> x \in ListCarriers(i) \ {<<trModule, trAction>>}
  <2>1. x = <<trModule, trAction>> <=> x[1] = trModule /\ x[2] = trAction
    BY <1>1
  <2>2. Pending(x[1], x[2])' <=> Pending(x[1], x[2]) /\ x # <<trModule, trAction>>
    BY <2>1 DEF Pending
  <2>. QED
    BY <2>2 DEF ListCarriers
<1>3. ListCarriers(i) \subseteq Modules \X Slots /\ ListCarriers(i)' \subseteq Modules \X Slots
  BY DEF ListCarriers
<1>4. <<trModule, trAction>> \in ListCarriers(i)
        <=> Item.ObjectID = i /\ IsCarrier(trModule, Item.ActionNumber)
  <2>1. Pending(trModule, trAction)
    BY <1>1 DEF Pending
  <2>. QED
    BY <1>1, <2>1 DEF ListCarriers
<1>. QED
  BY <1>2, <1>3, <1>4

\* What an object gains when its actions are added.
Gained(i) == ListCarriers(i)' \ ListCarriers(i)

LEMMA CarriersAdded ==
  ASSUME TypeOK, TypeOK', UNCHANGED trVars,
         NEW m \in Modules, NEW id, NEW list,
         Untouched(id, m),
         ObjectInModuleList' = [ObjectInModuleList EXCEPT ![m] = list],
         AddedOnce(ObjectInModuleList[m], list, id)
  PROVE  /\ \A i : i # id => ListCarriers(i)' = ListCarriers(i)
         /\ ListCarriers(id) \subseteq ListCarriers(id)'
         /\ OneCarrierLine => \A x, y \in Gained(id) : x = y
         /\ \A x \in Gained(id) : x[1] = m
         /\ Gained(id) # {} <=> \E s \in Slots : /\ list[s] # NoAction
                                                /\ list[s].ObjectID = id
                                                /\ IsCarrier(m, list[s].ActionNumber)
<1>. DEFINE old == ObjectInModuleList[m]
            Carries(s) == /\ list[s] # NoAction
                          /\ list[s].ObjectID = id
                          /\ IsCarrier(m, list[s].ActionNumber)
<1>1. /\ ObjectInModuleList'[m] = list
      /\ \A n \in Modules \ {m} : ObjectInModuleList'[n] = ObjectInModuleList[n]
  BY DEF TypeOK, SharedTypeOK
<1>2. \A s \in Slots :
        \/ list[s] = old[s]
        \/ old[s] = NoAction /\ list[s] # NoAction /\ list[s].ObjectID = id
  BY DEF AddedOnce
<1>3. \A s \in Slots : old[s] # NoAction => old[s].ObjectID # id
  BY DEF Untouched
<1>4. trPc = "clear" => ObjectInModuleList[trModule][trAction] # NoAction
  BY ConfigAssumption DEF TypeOK, TrTypeOK, Item
<1>5. ASSUME NEW n \in Modules, NEW s \in Slots
      PROVE  \/ /\ Pending(n, s)' <=> Pending(n, s)
                /\ ObjectInModuleList'[n][s] = ObjectInModuleList[n][s]
             \/ /\ n = m
                /\ ~Pending(n, s)
                /\ Pending(n, s)'
                /\ list[s] # old[s]
                /\ ObjectInModuleList'[n][s] = list[s]
                /\ list[s].ObjectID = id
  <2>1. CASE ObjectInModuleList'[n][s] = ObjectInModuleList[n][s]
    BY <2>1 DEF Pending, trVars
  <2>2. CASE ObjectInModuleList'[n][s] # ObjectInModuleList[n][s]
    <3>1. n = m /\ old[s] = NoAction /\ list[s] # NoAction /\ list[s].ObjectID = id
      BY <1>1, <1>2, <2>2
    <3>2. ~(trPc = "clear" /\ n = trModule /\ s = trAction)
      BY <1>4, <3>1
    <3>. QED
      BY <1>1, <3>1, <3>2 DEF Pending, trVars
  <2>. QED
    BY <2>1, <2>2
<1>6. \A i : ListCarriers(i) \subseteq Modules \X Slots /\ ListCarriers(i)' \subseteq Modules \X Slots
  BY DEF ListCarriers
<1>7. ASSUME NEW i, NEW x \in Modules \X Slots
      PROVE  /\ x \in ListCarriers(i) => x \in ListCarriers(i)'
             /\ x \in ListCarriers(i)' /\ x \notin ListCarriers(i)
                  => /\ i = id
                     /\ x[1] = m
                     /\ list[x[2]] # old[x[2]]
                     /\ Carries(x[2])
  <2>1. x[1] \in Modules /\ x[2] \in Slots
    OBVIOUS
  <2>2. CASE /\ Pending(x[1], x[2])' <=> Pending(x[1], x[2])
             /\ ObjectInModuleList'[x[1]][x[2]] = ObjectInModuleList[x[1]][x[2]]
    BY <2>2 DEF ListCarriers
  <2>3. CASE /\ x[1] = m
             /\ ~Pending(x[1], x[2])
             /\ Pending(x[1], x[2])'
             /\ list[x[2]] # old[x[2]]
             /\ ObjectInModuleList'[x[1]][x[2]] = list[x[2]]
             /\ list[x[2]].ObjectID = id
    BY <1>2, <2>1, <2>3 DEF ListCarriers
  <2>. QED
    BY <1>5, <2>1, <2>2, <2>3
<1>8. ASSUME NEW s \in Slots, Carries(s)
      PROVE  <<m, s>> \in Gained(id)
  <2>1. list[s] # old[s] /\ old[s] = NoAction
    BY <1>2, <1>3, <1>8
  <2>2. Pending(m, s)' /\ ~Pending(m, s) /\ ObjectInModuleList'[m][s] = list[s]
    BY <1>1, <1>5, <2>1
  <2>. QED
    BY <1>8, <2>2 DEF Gained, ListCarriers
<1>9. ASSUME NEW x \in Gained(id)
      PROVE  x[1] = m /\ x[2] \in Slots /\ list[x[2]] # old[x[2]] /\ Carries(x[2])
             /\ x = <<m, x[2]>>
  BY <1>6, <1>7, <1>9 DEF Gained
<1>10. ASSUME OneCarrierLine, NEW x \in Gained(id), NEW y \in Gained(id)
       PROVE  x = y
  <2>1. list \in [Slots -> ActionListItem \cup {NoAction}]
    BY <1>1 DEF TypeOK, SharedTypeOK
  <2>2. list[x[2]].ActionNumber \in Nat /\ list[y[2]].ActionNumber \in Nat
    BY <1>9, <1>10, <2>1 DEF ActionListItem
  <2>3. list[x[2]].ActionNumber = list[y[2]].ActionNumber
    BY <1>9, <1>10, <2>2 DEF OneCarrierLine
  <2>4. x[2] = y[2]
    BY <1>9, <1>10, <2>3 DEF AddedOnce
  <2>. QED
    BY <1>9, <1>10, <2>4
<1>11. Gained(id) # {} <=> \E s \in Slots : Carries(s)
  BY <1>8, <1>9
<1>12. /\ \A i : i # id => ListCarriers(i)' = ListCarriers(i)
       /\ ListCarriers(id) \subseteq ListCarriers(id)'
  BY <1>6, <1>7
<1>. QED
  BY <1>9, <1>10, <1>11, <1>12

\* The delivery received is gone from the queue, and no other is.
LEMMA QueuedReceived ==
  ASSUME TypeOK, DeliveriesDistinct, NEW m \in Modules, Delivered(m),
         ModuleQueue' = Received(m), NEW id, id = DeliveredID(m)
  PROVE  /\ m \in QueuedIn(id)
         /\ \A i : i # id => QueuedIn(i)' = QueuedIn(i)
         /\ QueuedIn(id)' = QueuedIn(id) \ {m}
<1>1. ModuleQueue \in [Modules -> Seq(ModuleQueueItem)] /\ ModuleQueue[m] # <<>>
  BY DEF TypeOK, SharedTypeOK, Delivered
<1>2. ModuleQueue[m] \in Seq(ModuleQueueItem)
  BY <1>1
<1>3. /\ \A n \in Modules \ {m} : ModuleQueue'[n] = ModuleQueue[n]
      /\ ModuleQueue'[m] = Tail(ModuleQueue[m])
  BY <1>1 DEF Received
<1>4. /\ 1 \in 1 .. Len(ModuleQueue[m])
      /\ id = ModuleQueue[m][1].DelieverdObjectID
  BY <1>1, <1>2 DEF DeliveredID
<1>5. m \in QueuedIn(id)
  BY <1>4 DEF QueuedIn, NotQueued
<1>6. ASSUME NEW i, NEW n \in Modules, n # m
      PROVE  NotQueued(i, n)' <=> NotQueued(i, n)
  BY <1>3, <1>6 DEF NotQueued
<1>7. NotQueued(id, m)'
  BY ReceivedOnce DEF NotQueued
<1>8. ASSUME NEW i, i # id
      PROVE  NotQueued(i, m)' <=> NotQueued(i, m)
  <2>1. ASSUME NEW q \in 1 .. Len(ModuleQueue[m]), ModuleQueue[m][q].DelieverdObjectID = i
        PROVE  \E p \in 1 .. Len(ModuleQueue'[m]) : ModuleQueue'[m][p] = ModuleQueue[m][q]
    <3>1. q # 1
      BY <1>4, <1>8, <2>1
    <3>2. /\ q - 1 \in 1 .. Len(ModuleQueue'[m])
          /\ ModuleQueue'[m][q - 1] = ModuleQueue[m][q]
      BY <1>1, <1>2, <1>3, <3>1
    <3>. QED
      BY <3>2
  <2>2. ASSUME NEW q \in 1 .. Len(ModuleQueue'[m])
        PROVE  \E p \in 1 .. Len(ModuleQueue[m]) : ModuleQueue'[m][q] = ModuleQueue[m][p]
    BY <2>2, ReceivedOnce
  <2>3. ASSUME NotQueued(i, m) PROVE NotQueued(i, m)'
    <3>1. ASSUME NEW q \in 1 .. Len(ModuleQueue'[m])
          PROVE  ModuleQueue'[m][q].DelieverdObjectID # i
      BY <2>2, <2>3, <3>1 DEF NotQueued
    <3>. QED
      BY <3>1 DEF NotQueued
  <2>4. ASSUME NotQueued(i, m)' PROVE NotQueued(i, m)
    <3>1. \A p \in 1 .. Len(ModuleQueue'[m]) : ModuleQueue'[m][p].DelieverdObjectID # i
      BY <2>4 DEF NotQueued
    <3>. QED
      BY <2>1, <3>1 DEF NotQueued
  <2>. QED
    BY <2>3, <2>4
<1>. QED
  BY <1>5, <1>6, <1>7, <1>8 DEF QueuedIn

LEMMA QueuedSent ==
  ASSUME TypeOK, NEW d \in Modules, NEW item,
         ModuleQueue' = [ModuleQueue EXCEPT ![d] = Append(@, item)], NEW i
  PROVE  QueuedIn(i)' = IF item.DelieverdObjectID = i THEN QueuedIn(i) \cup {d}
                                                      ELSE QueuedIn(i)
<1>1. ModuleQueue \in [Modules -> Seq(ModuleQueueItem)]
  BY DEF TypeOK, SharedTypeOK
<1>2. ModuleQueue[d] \in Seq(ModuleQueueItem) /\ Len(ModuleQueue[d]) \in Nat
  BY <1>1
<1>3. /\ \A n \in Modules \ {d} : ModuleQueue'[n] = ModuleQueue[n]
      /\ ModuleQueue'[d] = Append(ModuleQueue[d], item)
  BY <1>1
<1>4. ASSUME NEW n \in Modules, n # d
      PROVE  NotQueued(i, n)' <=> NotQueued(i, n)
  BY <1>3, <1>4 DEF NotQueued
<1>5. /\ Len(ModuleQueue'[d]) = Len(ModuleQueue[d]) + 1
      /\ ModuleQueue'[d][Len(ModuleQueue[d]) + 1] = item
      /\ \A q \in 1 .. Len(ModuleQueue[d]) : ModuleQueue'[d][q] = ModuleQueue[d][q]
  BY <1>2, <1>3
<1>6. 1 .. Len(ModuleQueue'[d]) = (1 .. Len(ModuleQueue[d])) \cup {Len(ModuleQueue[d]) + 1}
  BY <1>2, <1>5
<1>7. NotQueued(i, d)' <=> NotQueued(i, d) /\ item.DelieverdObjectID # i
  BY <1>5, <1>6 DEF NotQueued
<1>. QED
  BY <1>4, <1>7 DEF QueuedIn

LEMMA QueuedKept ==
  ASSUME UNCHANGED ModuleQueue, NEW i
  PROVE  QueuedIn(i)' = QueuedIn(i)
BY DEF QueuedIn, NotQueued

\* The objects recorded as lost.
LEMMA LostGrows ==
  ASSUME NEW more, lost' = lost \cup more, NEW i
  PROVE  /\ Dropped(i)' <=> Dropped(i) \/ \E y \in more : y[1] = i /\ y[2] \in DropReasons
         /\ Stolen(i)' <=> Stolen(i) \/ \E y \in more : y[1] = i /\ y[2] \in StolenReasons
BY DEF Dropped, Stolen, LostFor

-----------------------------------------------------------------------------
(* How a step changes the slots.                                           *)

\* Steps that keep the IDs of the slots and revive none of them.
LEMMA SlotsQuiet ==
  ASSUME FirstIsAlive, SlotsNumbered,
         GlobalObjectID' = GlobalObjectID,
         GlobalObjectCount' = GlobalObjectCount \/ GlobalObjectID # 0,
         \A s \in Slots :
           /\ ObjectBuffer'[s].ObjectID = ObjectBuffer[s].ObjectID
           /\ ObjectBuffer'[s].objectAliveFlag => ObjectBuffer[s].objectAliveFlag
  PROVE  /\ FirstIsAlive'
         /\ SlotsNumbered'
<1>1. AliveSlots' \subseteq AliveSlots
  BY DEF AliveSlots
<1>2. AliveSlots \subseteq Slots
  BY DEF AliveSlots
<1>3. FirstIsAlive'
  BY <1>1, <1>2 DEF FirstIsAlive
<1>4. SlotsNumbered'
  BY <1>1 DEF SlotsNumbered
<1>. QED
  BY <1>3, <1>4

\* A new object takes a slot that was free, or takes it from another object.
LEMMA CreatedSlot ==
  ASSUME TypeOK, FirstIsAlive, SlotsNumbered, NEW m \in Modules, NEW dropped,
         CreateObject(m, dropped), NEW g, g = GlobalObjectID
  PROVE  /\ FirstIsAlive'
         /\ SlotsNumbered'
         /\ ObjectBuffer'[GlobalObjectCount'].ObjectID = g
         /\ HasSlot(g)'
         /\ \A i : HasSlot(i)' => HasSlot(i) \/ i = g
         /\ \E more :
              /\ lost' = lost \cup more
              /\ dropped \subseteq more
              /\ \A y \in more : \/ y \in dropped
                                 \/ y[2] = "overwritten"
              /\ \A i : HasSlot(i) => \/ HasSlot(i)'
                                      \/ <<i, "overwritten">> \in more
<1>1. PICK s \in Slots :
        /\ ScanStopsAt(s)
        /\ ObjectBuffer' = [ObjectBuffer EXCEPT ![s] = NewObject(g)]
        /\ GlobalObjectID' = NextID
        /\ GlobalObjectCount' = s
        /\ lost' = lost \cup dropped \cup
                     IF ObjectBuffer[s].objectAliveFlag
                       THEN {<<ObjectBuffer[s].ObjectID, "overwritten">>}
                       ELSE {}
  BY DEF CreateObject
<1>2. /\ ObjectBuffer \in [Slots -> ObjectInfo]
      /\ g \in Nat
      /\ GlobalObjectID' = g + 1
  BY <1>1 DEF TypeOK, SharedTypeOK, NextID
<1>3. /\ ObjectBuffer'[s].ObjectID = g
      /\ ObjectBuffer'[s].objectAliveFlag = TRUE
      /\ \A t \in Slots \ {s} : ObjectBuffer'[t] = ObjectBuffer[t]
  BY <1>1, <1>2 DEF NewObject
<1>4. AliveSlots' = (AliveSlots \ {s}) \cup {s}
  BY <1>3 DEF AliveSlots
<1>5. \A t \in Slots : ObjectBuffer[t].ObjectID \in Nat
  BY <1>2 DEF ObjectInfo
<1>6. /\ s \in Nat
      /\ Slots \subseteq Nat
      /\ AliveSlots \subseteq Slots
  BY ModuleFacts DEF AliveSlots
\* The first object of all takes slot 0.
<1>7. g = 0 => s = 0 /\ AliveSlots = {}
  <2>. SUFFICES ASSUME g = 0 PROVE s = 0 /\ AliveSlots = {}
    OBVIOUS
  <2>1. AliveSlots = {} /\ StartCursor = 0
    <3>1. AliveSlots = {} /\ GlobalObjectCount = 0
      BY DEF SlotsNumbered
    <3>. QED
      BY <3>1, ConfigAssumption DEF StartCursor
  <2>2. 0 \in Slots /\ ~ObjectBuffer[0].objectAliveFlag
    BY <2>1, ModuleFacts DEF AliveSlots
  <2>3. ASSUME s # 0 PROVE FALSE
    <3>1. \A t \in 0 .. s - 1 : ObjectBuffer[t].objectAliveFlag
      BY <1>1, <2>1, <2>3 DEF ScanStopsAt
    <3>2. 0 \in 0 .. s - 1
      BY <1>6, <2>3
    <3>. QED
      BY <2>2, <3>1, <3>2
  <2>. QED
    BY <2>1, <2>3
<1>8. g # 0 => \A t \in Slots : ObjectBuffer[t].ObjectID < g /\ ObjectBuffer[t].ObjectID # g
  BY <1>2, <1>5 DEF SlotsNumbered
<1>9. FirstIsAlive'
  <2>1. ASSUME NEW a \in AliveSlots', NEW t \in Slots, t < a
        PROVE  ObjectBuffer'[t].ObjectID # ObjectBuffer'[a].ObjectID
    <3>1. CASE g = 0
      <4>1. a = 0
        BY <1>4, <1>7, <2>1, <3>1
      <4>2. t \in Nat
        BY <1>6
      <4>. QED
        BY <2>1, <4>1, <4>2
    <3>2. CASE g # 0 /\ a = s
      <4>1. t # s
        BY <1>6, <2>1, <3>2
      <4>. QED
        BY <1>3, <1>8, <3>2, <4>1
    <3>3. CASE g # 0 /\ a # s /\ t = s
      <4>1. a \in AliveSlots
        BY <1>4, <3>3
      <4>. QED
        BY <1>3, <1>6, <1>8, <3>3, <4>1
    <3>4. CASE g # 0 /\ a # s /\ t # s
      <4>1. a \in AliveSlots
        BY <1>4, <3>4
      <4>. QED
        BY <1>3, <1>6, <2>1, <3>4, <4>1 DEF FirstIsAlive
    <3>. QED
      BY <3>1, <3>2, <3>3, <3>4
  <2>. QED
    BY <2>1 DEF FirstIsAlive
<1>10. SlotsNumbered'
  <2>1. GlobalObjectID' # 0
    BY <1>2
  <2>2. ASSUME NEW t \in Slots PROVE ObjectBuffer'[t].ObjectID < GlobalObjectID'
    <3>1. CASE t = s
      BY <1>2, <1>3, <3>1
    <3>2. CASE t # s
      <4>1. ObjectBuffer'[t] = ObjectBuffer[t]
        BY <1>3, <3>2
      <4>2. ObjectBuffer[t].ObjectID <= g
        <5>1. CASE g # 0
          BY <1>2, <1>5, <1>8, <5>1
        <5>2. CASE g = 0
          BY <5>2, <1>2 DEF SlotsNumbered
        <5>. QED
          BY <5>1, <5>2
      <4>. QED
        BY <1>2, <1>5, <4>1, <4>2
    <3>. QED
      BY <3>1, <3>2
  <2>. QED
    BY <2>1, <2>2 DEF SlotsNumbered
<1>11. ObjectBuffer'[GlobalObjectCount'].ObjectID = g /\ HasSlot(g)'
  <2>1. s \in AliveSlots' /\ ObjectBuffer'[s].ObjectID = g
    BY <1>3, <1>4
  <2>. QED
    BY <1>1, <2>1 DEF HasSlot
<1>12. \A i : HasSlot(i)' => HasSlot(i) \/ i = g
  BY <1>3, <1>4, <1>6 DEF HasSlot
<1>13. \A i : HasSlot(i) => \/ HasSlot(i)'
                            \/ s \in AliveSlots /\ i = ObjectBuffer[s].ObjectID
  BY <1>3, <1>4, <1>6 DEF HasSlot
<1>14. s \in AliveSlots <=> ObjectBuffer[s].objectAliveFlag
  BY DEF AliveSlots
<1>15. PICK over : over = IF ObjectBuffer[s].objectAliveFlag
                           THEN {<<ObjectBuffer[s].ObjectID, "overwritten">>}
                           ELSE {}
  OBVIOUS
<1>16. /\ lost' = lost \cup (dropped \cup over)
       /\ \A y \in dropped \cup over : y \in dropped \/ y[2] = "overwritten"
  BY <1>1, <1>15
<1>17. \A i : HasSlot(i) => \/ HasSlot(i)'
                            \/ <<i, "overwritten">> \in dropped \cup over
  BY <1>13, <1>14, <1>15
<1>. QED
  BY <1>9, <1>10, <1>11, <1>12, <1>16, <1>17

-----------------------------------------------------------------------------
(* The invariants, and what each step does to them.                        *)

\* CarryInv for one object.
CarryOf(i) ==
  /\ OnePlace(i)
  /\ Carried(i) => ~Dropped(i) /\ (HasSlot(i) \/ Stolen(i))

LEMMA CarryInvParts ==
  /\ CarryInv <=> LostNumbered /\ \A i \in Nat : CarryOf(i)
BY DEF CarryInv, CarryOf

LEMMA LostMonotone ==
  ASSUME lost \subseteq lost', NEW i
  PROVE  (Dropped(i) => Dropped(i)') /\ (Stolen(i) => Stolen(i)')
<1>1. lost' = lost \cup lost'
  OBVIOUS
<1>. QED
  BY <1>1, LostGrows

LEMMA AliveCarriedStep ==
  ASSUME AliveCarried, lost \subseteq lost',
         \A i \in Nat :
           HasSlot(i)' => \/ Carried(i)'
                          \/ HasSlot(i) /\ (Carried(i) => Dropped(i)')
  PROVE  AliveCarried'
<1>1. ASSUME NEW i \in Nat, HasSlot(i)' PROVE Carried(i)' \/ Dropped(i)'
  BY <1>1, LostMonotone DEF AliveCarried
<1>. QED
  BY <1>1 DEF AliveCarried

LEMMA CarryStays ==
  ASSUME NEW i, CarryOf(i), lost \subseteq lost',
         ListCarriers(i)' = ListCarriers(i),
         QueuedIn(i)' = QueuedIn(i),
         BeingCreated(i)' <=> BeingCreated(i),
         Dropped(i)' => Dropped(i),
         HasSlot(i) => HasSlot(i)' \/ Stolen(i)'
  PROVE  CarryOf(i)'
<1>1. Carried(i)' <=> Carried(i)
  BY DEF Carried
<1>2. OnePlace(i)'
  BY DEF CarryOf, OnePlace
<1>. QED
  BY <1>1, <1>2, LostMonotone DEF CarryOf

LEMMA LostNumberedStep ==
  ASSUME TypeOK, LostNumbered, NEW more, lost' = lost \cup more,
         GlobalObjectID' \in {GlobalObjectID, GlobalObjectID + 1},
         \A y \in more : y[2] \in DropReasons => y[1] \in Nat /\ y[1] < GlobalObjectID
  PROVE  LostNumbered'
<1>1. GlobalObjectID \in Nat
  BY DEF TypeOK, SharedTypeOK
<1>2. ASSUME NEW y \in lost', y[2] \in DropReasons
      PROVE  y[1] \in Nat /\ y[1] < GlobalObjectID'
  <2>1. y[1] \in Nat /\ y[1] < GlobalObjectID
    BY <1>2 DEF LostNumbered
  <2>. QED
    BY <1>1, <2>1
<1>. QED
  BY <1>2 DEF LostNumbered

\* The entry Tracking is at stays while ObjectDetection adds to the lists.
LEMMA ItemStays ==
  ASSUME TypeOK, trPc \in {"found", "decided", "clear"}, UNCHANGED trVars,
         \A m \in Modules, s \in Slots :
           \/ ObjectInModuleList'[m][s] = ObjectInModuleList[m][s]
           \/ ObjectInModuleList[m][s] = NoAction
  PROVE  Item' = Item /\ ItemAction' = ItemAction
<1>1. /\ trModule \in Modules
      /\ trAction \in Slots
      /\ Item = ObjectInModuleList[trModule][trAction]
      /\ Item # NoAction
  BY ConfigAssumption DEF TypeOK, TrTypeOK, Item
<1>2. Item' = Item
  BY <1>1 DEF Item, trVars
<1>. QED
  BY <1>2 DEF ItemAction, trVars

LEMMA FoundKept ==
  ASSUME TypeOK, ObjectIDsUnique, FoundSlot, UNCHANGED trVars,
         \A m \in Modules, s \in Slots :
           \/ ObjectInModuleList'[m][s] = ObjectInModuleList[m][s]
           \/ ObjectInModuleList[m][s] = NoAction,
         \A s \in AliveSlots' :
           \/ s \in AliveSlots /\ ObjectBuffer'[s].ObjectID = ObjectBuffer[s].ObjectID
           \/ ObjectBuffer'[s].ObjectID = GlobalObjectID
  PROVE  FoundSlot'
<1>. SUFFICES ASSUME trPc \in {"found", "decided"} PROVE FoundSlot'
  BY DEF FoundSlot, trVars
<1>1. Item' = Item /\ ItemAction' = ItemAction
  BY ItemStays
<1>2. Item.ObjectID # GlobalObjectID
  <2>1. /\ trModule \in Modules
        /\ trAction \in Slots
        /\ Item = ObjectInModuleList[trModule][trAction]
        /\ Item # NoAction
        /\ Item.ObjectID \in Nat
    BY ConfigAssumption DEF TypeOK, TrTypeOK, Item, ActionListItem
  <2>2. Item.ObjectID < GlobalObjectID /\ GlobalObjectID \in Nat
    BY <2>1 DEF ObjectIDsUnique, NumberedEntries, TypeOK, SharedTypeOK
  <2>. QED
    BY <2>1, <2>2
<1>. QED
  BY <1>1, <1>2 DEF FoundSlot, trVars

LEMMA ReceivedBounded ==
  ASSUME TypeOK, QueuesBounded, NEW m \in Modules, Delivered(m),
         ModuleQueue' = Received(m)
  PROVE  QueuesBounded'
<1>1. ModuleQueue \in [Modules -> Seq(ModuleQueueItem)] /\ ModuleQueue[m] # <<>>
  BY DEF TypeOK, SharedTypeOK, Delivered
<1>2. ASSUME NEW n \in Modules PROVE Len(ModuleQueue'[n]) <= moduleQueueDepth
  <2>1. CASE n = m
    <3>1. ModuleQueue'[m] = Tail(ModuleQueue[m]) /\ ModuleQueue[m] \in Seq(ModuleQueueItem)
      BY <1>1 DEF Received
    <3>2. Len(ModuleQueue'[m]) = Len(ModuleQueue[m]) - 1 /\ Len(ModuleQueue[m]) \in Nat
      BY <1>1, <3>1
    <3>3. Len(ModuleQueue[m]) <= moduleQueueDepth /\ moduleQueueDepth \in Nat
      BY ConfigAssumption DEF QueuesBounded
    <3>. QED
      BY <2>1, <3>2, <3>3
  <2>2. CASE n # m
    BY <1>1, <2>2 DEF Received, QueuesBounded
  <2>. QED
    BY <2>1, <2>2
<1>. QED
  BY <1>2 DEF QueuesBounded

\* Steps after which everything is where it was, except that slots may have
\* been given up.
LEMMA CarryQuiet ==
  ASSUME TypeOK, ObjectIDsUnique, SlotsInv,
         UNCHANGED <<ModuleQueue, GlobalObjectID, lost>>,
         UNCHANGED GlobalObjectCount,
         FoundSlot',
         \A i \in Nat : ListCarriers(i)' = ListCarriers(i),
         odPc' = "sending" <=> odPc = "sending",
         \A s \in Slots :
           /\ ObjectBuffer'[s].ObjectID = ObjectBuffer[s].ObjectID
           /\ ObjectBuffer'[s].objectAliveFlag <=> ObjectBuffer[s].objectAliveFlag
  PROVE  SlotsInv' /\ (CarryInv => CarryInv')
<1>1. FirstIsAlive' /\ SlotsNumbered'
  <2>1. FirstIsAlive /\ SlotsNumbered
    BY DEF SlotsInv
  <2>. QED
    BY <2>1, SlotsQuiet
<1>2. \A i : HasSlot(i)' <=> HasSlot(i)
  BY DEF HasSlot, AliveSlots
<1>3. QueuesBounded'
  BY DEF SlotsInv, QueuesBounded
<1>4. ASSUME NEW i \in Nat
      PROVE  /\ QueuedIn(i)' = QueuedIn(i)
             /\ BeingCreated(i)' <=> BeingCreated(i)
  <2>1. BeingCreated(i)' <=> BeingCreated(i)
    BY DEF BeingCreated, TypeOK, OdTypeOK
  <2>. QED
    BY <2>1, QueuedKept
<1>5. AliveCarried'
  BY <1>2, <1>4, AliveCarriedStep DEF SlotsInv, Carried
<1>6. ASSUME CarryInv PROVE CarryInv'
  <2>1. LostNumbered'
    BY <1>6 DEF CarryInv, LostNumbered
  <2>2. ASSUME NEW i \in Nat PROVE CarryOf(i)'
    <3>1. CarryOf(i) /\ (Dropped(i)' => Dropped(i))
      BY <1>6, CarryInvParts DEF Dropped, LostFor
    <3>. QED
      BY <1>2, <1>4, <3>1, CarryStays
  <2>3. CarryInv' <=> LostNumbered' /\ \A i \in Nat : CarryOf(i)'
    BY DEF CarryInv, CarryOf
  <2>. QED
    BY <2>1, <2>2, <2>3
<1>. QED
  BY <1>1, <1>3, <1>5, <1>6 DEF SlotsInv

\* What holds up nothing in the lists keeps what they carry.
LEMMA CarriersUnmoved ==
  ASSUME UNCHANGED ObjectInModuleList,
         (trPc # "clear" /\ trPc' # "clear") \/ UNCHANGED <<trPc, trModule, trAction>>,
         NEW i
  PROVE  ListCarriers(i)' = ListCarriers(i)
<1>1. \A m \in Modules, s \in Slots :
        /\ Pending(m, s)' <=> Pending(m, s)
        /\ ObjectInModuleList'[m][s] = ObjectInModuleList[m][s]
  BY DEF Pending
<1>. QED
  BY <1>1, CarriersKept

\* Steps in which Tracking stays where it is.
LEMMA CarryFrame ==
  ASSUME TypeOK, ObjectIDsUnique, SlotsInv,
         UNCHANGED <<ObjectInModuleList, ModuleQueue, GlobalObjectID, lost>>,
         UNCHANGED GlobalObjectCount,
         UNCHANGED trVars,
         odPc' = "sending" <=> odPc = "sending",
         \A s \in Slots :
           /\ ObjectBuffer'[s].ObjectID = ObjectBuffer[s].ObjectID
           /\ ObjectBuffer'[s].objectAliveFlag <=> ObjectBuffer[s].objectAliveFlag
  PROVE  SlotsInv' /\ (CarryInv => CarryInv')
<1>1. \A i \in Nat : ListCarriers(i)' = ListCarriers(i)
  BY CarriersUnmoved DEF trVars
<1>2. FoundSlot'
  <2>1. \A s \in AliveSlots' :
          s \in AliveSlots /\ ObjectBuffer'[s].ObjectID = ObjectBuffer[s].ObjectID
    BY DEF AliveSlots
  <2>. QED
    BY <2>1, FoundKept DEF SlotsInv
<1>. QED
  BY <1>1, <1>2, CarryQuiet

LEMMA CarryTrStep ==
  ASSUME TypeOK, ObjectIDsUnique, SlotsInv,
         TrStart \/ TrPass \/ TrFindObject \/ TrPush \/ TrPushOutOfBounds
  PROVE  SlotsInv' /\ (CarryInv => CarryInv')
<1>1. /\ UNCHANGED <<sharedVars, odVars, lost, trModule, trAction>> \/ TrPass
      /\ UNCHANGED <<sharedVars, odVars, lost>>
      /\ trPc # "clear"
      /\ trPc' # "clear"
  BY DEF TrStart, TrPass, TrFindObject, TrPush, TrPushOutOfBounds, NextEntry, history
<1>2. \A i \in Nat : ListCarriers(i)' = ListCarriers(i)
  BY <1>1, CarriersUnmoved DEF sharedVars
<1>3. FoundSlot'
  <2>1. CASE TrStart \/ TrPass
    BY <2>1 DEF TrStart, TrPass, NextEntry, FoundSlot
  <2>2. CASE TrFindObject
    <3>1. PICK o : o = object_i'
      OBVIOUS
    <3>2. /\ ItemAction.ActionType = "PushOut"
          /\ FoundAt(Item.ObjectID, o)
          /\ UNCHANGED <<ObjectBuffer, ObjectInModuleList, trModule, trAction>>
      BY <2>2, <3>1 DEF TrFindObject, sharedVars
    <3>3. ASSUME NEW s \in AliveSlots, ObjectBuffer[s].ObjectID = Item.ObjectID
          PROVE  s = o
      <4>1. s \in Slots
        BY DEF AliveSlots
      <4>2. /\ o \in Slots
            /\ ObjectBuffer[o].ObjectID = Item.ObjectID
            /\ \A t \in 0 .. o - 1 : ObjectBuffer[t].ObjectID # Item.ObjectID
        BY <3>2, <3>3, <4>1 DEF FoundAt
      <4>3. ~(o < s)
        BY <3>3, <4>2 DEF SlotsInv, FirstIsAlive
      <4>4. s \in Nat /\ o \in Nat
        BY <4>1, <4>2, ModuleFacts
      <4>5. s < o => s \in 0 .. o - 1
        BY <4>4
      <4>. QED
        BY <3>3, <4>2, <4>3, <4>4, <4>5
    <3>. QED
      BY <3>1, <3>2, <3>3 DEF FoundSlot, Item, ItemAction, AliveSlots
  <2>3. CASE TrPush \/ TrPushOutOfBounds
    <3>1. /\ trPc = "found"
          /\ UNCHANGED <<ObjectBuffer, ObjectInModuleList, trModule, trAction, object_i>>
      BY <2>3 DEF TrPush, TrPushOutOfBounds, sharedVars
    <3>. QED
      BY <3>1 DEF SlotsInv, FoundSlot, Item, ItemAction, AliveSlots
  <2>. QED
    BY <2>1, <2>2, <2>3
<1>. QED
  BY <1>1, <1>2, <1>3, CarryQuiet DEF sharedVars, odVars

\* The entry cleared was not pending any more.
LEMMA CarryTrClear ==
  ASSUME TypeOK, ObjectIDsUnique, SlotsInv, TrClear
  PROVE  SlotsInv' /\ (CarryInv => CarryInv')
<1>1. /\ UNCHANGED <<ObjectBuffer, ModuleQueue, GlobalObjectID, odVars, lost>>
      /\ trPc = "clear"
      /\ trPc' \in {"scan", "delay"}
  BY DEF TrClear, NextEntry, history
<1>2. \A m \in Modules, s \in Slots :
        IF m = trModule /\ s = trAction
          THEN ObjectInModuleList'[m][s] = NoAction
          ELSE ObjectInModuleList'[m][s] = ObjectInModuleList[m][s]
  BY DEF TrClear, Cleared, TypeOK, SharedTypeOK, TrTypeOK
<1>3. \A m \in Modules, s \in Slots :
        /\ Pending(m, s)' <=> Pending(m, s)
        /\ Pending(m, s) => ObjectInModuleList'[m][s] = ObjectInModuleList[m][s]
  BY <1>1, <1>2 DEF Pending
<1>4. \A i \in Nat : ListCarriers(i)' = ListCarriers(i)
  BY <1>3, CarriersKept
<1>5. FoundSlot'
  BY <1>1 DEF FoundSlot
<1>. QED
  BY <1>1, <1>4, <1>5, CarryQuiet DEF odVars

\* An action that carries nothing on is done.
LEMMA CarryTrOther ==
  ASSUME TypeOK, ObjectIDsUnique, SlotsInv, TrOutput \/ TrRequestMachineData
  PROVE  SlotsInv' /\ (CarryInv => CarryInv')
<1>1. /\ Due
      /\ trPc = "scan"
      /\ trPc' = "clear"
      /\ ItemAction.ActionType \notin {"ObjectTakeOver", "PushOut"}
      /\ UNCHANGED <<sharedVars, odVars, lost, trModule, trAction>>
  BY DEF TrOutput, TrRequestMachineData, Fire
<1>2. Item \in ActionListItem
  BY <1>1, DueItem
<1>3. ~IsCarrier(trModule, Item.ActionNumber)
  BY <1>1 DEF IsCarrier, ItemAction
<1>4. ASSUME NEW i \in Nat PROVE ListCarriers(i)' = ListCarriers(i)
  BY <1>1, <1>2, <1>3, CarriersDone DEF sharedVars
<1>5. FoundSlot'
  BY <1>1 DEF FoundSlot
<1>. QED
  BY <1>1, <1>4, <1>5, CarryQuiet DEF sharedVars, odVars

\* The push-out done, its object has no slot and nothing that carries it.
LEMMA CarryTrFree ==
  ASSUME TypeOK, ObjectIDsUnique, SlotsInv, TrFree
  PROVE  SlotsInv' /\ (CarryInv => CarryInv')
<1>1. /\ trPc = "decided"
      /\ trPc' = "clear"
      /\ Item \in ActionListItem
      /\ UNCHANGED <<ObjectInModuleList, ModuleQueue, GlobalObjectID, odVars, trModule,
                     trAction, object_i>>
  BY DEF TrFree, TypeOK, TrTypeOK
<1>2. PICK id, x : id = Item.ObjectID /\ x = <<trModule, trAction>>
  OBVIOUS
<1>3. IsCarrier(trModule, Item.ActionNumber)
  BY <1>1 DEF SlotsInv, FoundSlot, IsCarrier, ItemAction
<1>4. \A s \in Slots :
        /\ ObjectBuffer'[s].ObjectID = ObjectBuffer[s].ObjectID
        /\ ObjectBuffer'[s].objectAliveFlag =>
             ObjectBuffer[s].objectAliveFlag /\ s # object_i
        /\ s # object_i => ObjectBuffer'[s] = ObjectBuffer[s]
  <2>1. ObjectBuffer \in [Slots -> ObjectInfo]
    BY DEF TypeOK, SharedTypeOK
  <2>2. CASE object_i \in Slots
    <3>1. ObjectBuffer' = [ObjectBuffer EXCEPT ![object_i].objectAliveFlag = FALSE]
      BY <2>2 DEF TrFree, Freed
    <3>. QED
      BY <2>1, <3>1 DEF ObjectInfo
  <2>3. CASE object_i \notin Slots
    BY <2>3 DEF TrFree
  <2>. QED
    BY <2>2, <2>3
<1>5. ASSUME NEW i \in Nat
      PROVE  /\ ListCarriers(i)' = ListCarriers(i) \ {x}
             /\ x \in ListCarriers(i) <=> i = id
             /\ QueuedIn(i)' = QueuedIn(i)
             /\ BeingCreated(i)' <=> BeingCreated(i)
  <2>1. /\ ListCarriers(i)' = ListCarriers(i) \ {x}
        /\ x \in ListCarriers(i) <=> i = id
    BY <1>1, <1>2, <1>3, CarriersDone
  <2>2. BeingCreated(i)' <=> BeingCreated(i)
    BY <1>1, <1>4 DEF BeingCreated, odVars, TypeOK, OdTypeOK
  <2>. QED
    BY <1>1, <2>1, <2>2, QueuedKept
<1>6. PICK more :
        /\ lost' = lost \cup more
        /\ \A y \in more : y[2] = "freed by another"
        /\ object_i \in Slots /\ ObjectBuffer[object_i].ObjectID # id
             => <<ObjectBuffer[object_i].ObjectID, "freed by another">> \in more
  <2>1. PICK o, r : o = ObjectBuffer[object_i].ObjectID /\ r = "freed by another"
    OBVIOUS
  <2>2. \E more :
          /\ lost' = lost \cup more
          /\ \A y \in more : y[2] = r
          /\ object_i \in Slots /\ o # id => <<o, r>> \in more
    <3>1. CASE object_i \in Slots /\ o # id
      <4>1. lost' = lost \cup {<<o, r>>}
        BY <1>2, <2>1, <3>1 DEF TrFree
      <4>2. \A y \in {<<o, r>>} : y[2] = r
        OBVIOUS
      <4>. QED
        BY <4>1, <4>2
    <3>2. CASE ~(object_i \in Slots /\ o # id)
      <4>1. lost' = lost \cup {}
        BY <1>2, <2>1, <3>2 DEF TrFree
      <4>2. PICK none : none = {}
        OBVIOUS
      <4>3. lost' = lost \cup none /\ \A y \in none : y[2] = r
        BY <4>1, <4>2
      <4>. QED
        BY <3>2, <4>3
    <3>. QED
      BY <3>1, <3>2
  <2>. QED
    BY <2>1, <2>2
<1>7. FirstIsAlive' /\ SlotsNumbered'
  <2>1. FirstIsAlive /\ SlotsNumbered /\ GlobalObjectCount' = GlobalObjectCount
    BY <1>1 DEF SlotsInv, odVars
  <2>. QED
    BY <1>1, <1>4, <2>1, SlotsQuiet
<1>8. /\ \A i : HasSlot(i)' => HasSlot(i)
      /\ ~HasSlot(id)'
  <2>1. \A s \in AliveSlots' : s \in AliveSlots /\ s # object_i
    BY <1>4 DEF AliveSlots
  <2>2. \A s \in AliveSlots : s \in Slots /\ (ObjectBuffer[s].ObjectID = id => s = object_i)
    BY <1>1, <1>2 DEF SlotsInv, FoundSlot, AliveSlots
  <2>. QED
    BY <1>4, <2>1, <2>2 DEF HasSlot
<1>9. FoundSlot' /\ QueuesBounded'
  BY <1>1 DEF FoundSlot, SlotsInv, QueuesBounded
<1>10. AliveCarried'
  <2>1. ASSUME NEW i \in Nat, HasSlot(i)'
        PROVE  HasSlot(i) /\ (Carried(i) => Carried(i)')
    <3>1. i # id
      BY <1>8, <2>1
    <3>. QED
      BY <1>5, <1>8, <2>1, <3>1 DEF Carried
  <2>. QED
    BY <1>6, <2>1, AliveCarriedStep DEF SlotsInv
<1>11. ASSUME CarryInv PROVE CarryInv'
  <2>1. LostNumbered'
    BY <1>1, <1>6, <1>11, LostNumberedStep DEF CarryInv, DropReasons
  <2>2. ASSUME NEW i \in Nat PROVE CarryOf(i)'
    <3>1. CarryOf(i)
      BY <1>11, CarryInvParts
    <3>2. CASE i # id
      <4>1. HasSlot(i) => HasSlot(i)' \/ Stolen(i)'
        <5>1. ASSUME NEW s \in AliveSlots, ObjectBuffer[s].ObjectID = i
              PROVE  HasSlot(i)' \/ Stolen(i)'
          <6>1. s \in Slots
            BY DEF AliveSlots
          <6>2. CASE s # object_i
            <7>1. s \in AliveSlots' /\ ObjectBuffer'[s].ObjectID = i
              BY <1>4, <5>1, <6>1, <6>2 DEF AliveSlots
            <7>. QED
              BY <7>1 DEF HasSlot
          <6>3. CASE s = object_i
            <7>1. <<i, "freed by another">> \in more
              BY <1>6, <3>2, <5>1, <6>1, <6>3
            <7>2. \E y \in more : y[1] = i /\ y[2] \in StolenReasons
              BY <7>1 DEF StolenReasons
            <7>. QED
              BY <1>6, <7>2, LostGrows
          <6>. QED
            BY <6>2, <6>3
        <5>. QED
          BY <5>1 DEF HasSlot
      <4>2. Dropped(i)' => Dropped(i)
        BY <1>6, LostGrows DEF DropReasons
      <4>. QED
        BY <1>5, <1>6, <3>1, <3>2, <4>1, <4>2, CarryStays
    <3>3. CASE i = id
      <4>1. /\ ListCarriers(i) = {x}
            /\ QueuedIn(i) = {}
            /\ ~BeingCreated(i)
        BY <1>5, <3>1, <3>3 DEF CarryOf, OnePlace
      <4>2. ListCarriers(i)' = {} /\ QueuedIn(i)' = {} /\ ~BeingCreated(i)'
        BY <1>5, <4>1
      <4>. QED
        BY <4>2 DEF CarryOf, OnePlace, Carried
    <3>. QED
      BY <3>2, <3>3
  <2>3. CarryInv' <=> LostNumbered' /\ \A i \in Nat : CarryOf(i)'
    BY DEF CarryInv, CarryOf
  <2>. QED
    BY <2>1, <2>2, <2>3
<1>. QED
  BY <1>7, <1>9, <1>10, <1>11 DEF SlotsInv

\* The take-over moves its object from the list to a queue, or drops it.
LEMMA CarryTrTakeOver ==
  ASSUME TypeOK, ObjectIDsUnique, SlotsInv, TrTakeOver
  PROVE  SlotsInv' /\ (CarryInv => CarryInv')
<1>1. PICK id, d, x, item :
        /\ id = Item.ObjectID
        /\ d = ItemAction.DestinationModule
        /\ x = <<trModule, trAction>>
        /\ item = [DelieverdObjectID |-> Item.ObjectID,
                   DelieverdEncoderNum |-> trEncoder[ModuleConfig[d].Encoder]]
  OBVIOUS
<1>2. /\ Due
      /\ trPc = "scan"
      /\ trPc' = "clear"
      /\ ItemAction.ActionType = "ObjectTakeOver"
      /\ UNCHANGED <<ObjectBuffer, ObjectInModuleList, GlobalObjectID, odVars, trModule,
                     trAction>>
      /\ \/ /\ Len(ModuleQueue[d]) < moduleQueueDepth
            /\ ModuleQueue' = [ModuleQueue EXCEPT ![d] = Append(@, item)]
            /\ UNCHANGED lost
         \/ UNCHANGED ModuleQueue /\ lost' = lost \cup {<<id, "queue full">>}
  BY <1>1 DEF TrTakeOver, Fire
<1>3. /\ Item \in ActionListItem
      /\ id \in Nat
      /\ item.DelieverdObjectID = id
      /\ d \in Modules
      /\ id < GlobalObjectID
  <2>1. Item \in ActionListItem /\ Item # NoAction /\ trModule \in Modules /\ trAction \in Slots
    BY <1>2, DueItem, ConfigAssumption DEF TypeOK, TrTypeOK
  <2>2. id \in Nat /\ item.DelieverdObjectID = id
    BY <1>1, <2>1 DEF ActionListItem
  <2>3. id < GlobalObjectID
    BY <1>1, <2>1 DEF Item, ObjectIDsUnique, NumberedEntries
  <2>4. d \in Modules
    BY <1>1, <1>2, ItemActionType, DueItem DEF ActionInstance
  <2>. QED
    BY <2>1, <2>2, <2>3, <2>4
<1>4. IsCarrier(trModule, Item.ActionNumber)
  BY <1>2 DEF IsCarrier, ItemAction
<1>5. ASSUME NEW i \in Nat
      PROVE  /\ ListCarriers(i)' = ListCarriers(i) \ {x}
             /\ x \in ListCarriers(i) <=> i = id
             /\ BeingCreated(i)' <=> BeingCreated(i)
             /\ HasSlot(i)' <=> HasSlot(i)
             /\ i # id => QueuedIn(i)' = QueuedIn(i)
  <2>1. /\ ListCarriers(i)' = ListCarriers(i) \ {x}
        /\ x \in ListCarriers(i) <=> i = id
    BY <1>1, <1>2, <1>3, <1>4, CarriersDone
  <2>2. BeingCreated(i)' <=> BeingCreated(i)
    BY <1>2 DEF BeingCreated, odVars
  <2>3. HasSlot(i)' <=> HasSlot(i)
    BY <1>2 DEF HasSlot, AliveSlots
  <2>4. i # id => QueuedIn(i)' = QueuedIn(i)
    BY <1>2, <1>3, QueuedSent, QueuedKept
  <2>. QED
    BY <2>1, <2>2, <2>3, <2>4
<1>6. \/ QueuedIn(id)' = QueuedIn(id) \cup {d} /\ UNCHANGED lost
      \/ QueuedIn(id)' = QueuedIn(id) /\ lost' = lost \cup {<<id, "queue full">>}
  BY <1>2, <1>3, QueuedSent, QueuedKept
<1>7. PICK more :
        /\ lost' = lost \cup more
        /\ \A y \in more : y[1] = id
        /\ \/ more = {} /\ QueuedIn(id)' = QueuedIn(id) \cup {d}
           \/ QueuedIn(id)' = QueuedIn(id) /\ \E y \in more : y[1] = id /\ y[2] \in DropReasons
  <2>1. CASE QueuedIn(id)' = QueuedIn(id) \cup {d} /\ UNCHANGED lost
    <3>1. PICK none : none = {}
      OBVIOUS
    <3>2. lost' = lost \cup none /\ \A y \in none : y[1] = id
      BY <2>1, <3>1
    <3>. QED
      BY <2>1, <3>1, <3>2
  <2>2. CASE QueuedIn(id)' = QueuedIn(id) /\ lost' = lost \cup {<<id, "queue full">>}
    <3>1. PICK r : r = "queue full"
      OBVIOUS
    <3>2. r \in DropReasons
      BY <3>1 DEF DropReasons
    <3>3. /\ \A y \in {<<id, r>>} : y[1] = id
          /\ \E y \in {<<id, r>>} : y[1] = id /\ y[2] \in DropReasons
      BY <3>2
    <3>. QED
      BY <2>2, <3>1, <3>3
  <2>. QED
    BY <1>6, <2>1, <2>2
<1>8. FirstIsAlive' /\ SlotsNumbered'
  <2>1. FirstIsAlive /\ SlotsNumbered /\ GlobalObjectCount' = GlobalObjectCount
    BY <1>2 DEF SlotsInv, odVars
  <2>. QED
    BY <1>2, <2>1, SlotsQuiet
<1>9. FoundSlot'
  BY <1>2 DEF FoundSlot
<1>10. QueuesBounded'
  <2>1. CASE UNCHANGED ModuleQueue
    BY <2>1 DEF SlotsInv, QueuesBounded
  <2>2. CASE /\ Len(ModuleQueue[d]) < moduleQueueDepth
             /\ ModuleQueue' = [ModuleQueue EXCEPT ![d] = Append(@, item)]
    <3>1. /\ ModuleQueue \in [Modules -> Seq(ModuleQueueItem)]
          /\ ModuleQueue[d] \in Seq(ModuleQueueItem)
          /\ Len(ModuleQueue[d]) \in Nat
          /\ moduleQueueDepth \in Nat
      BY <1>3, ConfigAssumption DEF TypeOK, SharedTypeOK
    <3>2. \A n \in Modules : IF n = d THEN Len(ModuleQueue'[n]) = Len(ModuleQueue[d]) + 1
                                      ELSE ModuleQueue'[n] = ModuleQueue[n]
      BY <2>2, <3>1
    <3>. QED
      BY <2>2, <3>1, <3>2 DEF SlotsInv, QueuesBounded
  <2>. QED
    BY <1>2, <2>1, <2>2
<1>11. AliveCarried'
  <2>1. ASSUME NEW i \in Nat, HasSlot(i)'
        PROVE  Carried(i)' \/ (HasSlot(i) /\ (Carried(i) => Dropped(i)'))
    <3>1. CASE i # id
      BY <1>5, <2>1, <3>1 DEF Carried
    <3>2. CASE i = id
      <4>1. CASE QueuedIn(id)' = QueuedIn(id) \cup {d}
        BY <3>2, <4>1 DEF Carried
      <4>2. CASE \E y \in more : y[1] = id /\ y[2] \in DropReasons
        BY <1>5, <1>7, <2>1, <3>2, <4>2, LostGrows
      <4>. QED
        BY <1>7, <4>1, <4>2
    <3>. QED
      BY <3>1, <3>2
  <2>. QED
    BY <1>7, <2>1, AliveCarriedStep DEF SlotsInv
<1>12. ASSUME CarryInv PROVE CarryInv'
  <2>1. LostNumbered'
    BY <1>2, <1>3, <1>7, <1>12, LostNumberedStep DEF CarryInv
  <2>2. ASSUME NEW i \in Nat PROVE CarryOf(i)'
    <3>1. CarryOf(i)
      BY <1>12, CarryInvParts
    <3>2. CASE i # id
      <4>1. Dropped(i)' => Dropped(i)
        BY <1>7, <3>2, LostGrows
      <4>2. ListCarriers(i)' = ListCarriers(i) /\ QueuedIn(i)' = QueuedIn(i)
        BY <1>5, <3>2
      <4>. QED
        BY <1>5, <1>7, <3>1, <4>1, <4>2, CarryStays
    <3>3. CASE i = id
      <4>1. /\ ListCarriers(i) = {x}
            /\ QueuedIn(i) = {}
            /\ ~BeingCreated(i)
            /\ Carried(i)
        BY <1>5, <3>1, <3>3 DEF CarryOf, OnePlace, Carried
      <4>2. ListCarriers(i)' = {} /\ ~BeingCreated(i)'
        BY <1>5, <4>1
      <4>3. CASE more = {} /\ QueuedIn(id)' = QueuedIn(id) \cup {d}
        <5>1. QueuedIn(i)' = {d}
          BY <3>3, <4>1, <4>3
        <5>2. OnePlace(i)'
          BY <4>2, <5>1 DEF OnePlace
        <5>3. lost' = lost
          BY <1>7, <4>3
        <5>4. ~Dropped(i)' /\ (HasSlot(i)' \/ Stolen(i)')
          BY <1>5, <3>1, <4>1, <5>3 DEF CarryOf, Dropped, Stolen, LostFor
        <5>. QED
          BY <5>2, <5>4 DEF CarryOf
      <4>4. CASE QueuedIn(id)' = QueuedIn(id)
        <5>1. QueuedIn(i)' = {}
          BY <3>3, <4>1, <4>4
        <5>. QED
          BY <4>2, <5>1 DEF CarryOf, OnePlace, Carried
      <4>. QED
        BY <1>7, <4>3, <4>4
    <3>. QED
      BY <3>2, <3>3
  <2>3. CarryInv' <=> LostNumbered' /\ \A i \in Nat : CarryOf(i)'
    BY DEF CarryInv, CarryOf
  <2>. QED
    BY <2>1, <2>2, <2>3
<1>. QED
  BY <1>8, <1>9, <1>10, <1>11, <1>12 DEF SlotsInv

\* One object is taken up: it gains entries that carry it on, or is dropped.
LEMMA CarryTakenUp ==
  ASSUME TypeOK, AliveCarried, NEW id \in Nat, id < GlobalObjectID, UNCHANGED GlobalObjectID,
         \A i \in Nat : HasSlot(i)' <=> HasSlot(i),
         \A i \in Nat : i # id => /\ ListCarriers(i)' = ListCarriers(i)
                                  /\ QueuedIn(i)' = QueuedIn(i)
                                  /\ BeingCreated(i)' <=> BeingCreated(i),
         NEW more, lost' = lost \cup more, \A y \in more : y[1] = id,
         \/ Gained(id) # {} /\ more = {}
         \/ Gained(id) = {} /\ \E y \in more : y[1] = id /\ y[2] \in DropReasons,
         OneCarrierLine => \A x, y \in Gained(id) : x = y,
         CarryInv => /\ Carried(id)
                     /\ ListCarriers(id) = {}
                     /\ QueuedIn(id)' = {}
                     /\ ~BeingCreated(id)'
  PROVE  AliveCarried' /\ (OneCarrierLine /\ CarryInv => CarryInv')
<1>1. Gained(id) \subseteq ListCarriers(id)'
  BY DEF Gained
<1>2. (\E y \in more : y[1] = id /\ y[2] \in DropReasons) => Dropped(id)'
  BY LostGrows
<1>3. AliveCarried'
  <2>1. ASSUME NEW i \in Nat, HasSlot(i)'
        PROVE  Carried(i)' \/ (HasSlot(i) /\ (Carried(i) => Dropped(i)'))
    <3>1. CASE i # id
      BY <2>1, <3>1 DEF Carried
    <3>2. CASE i = id
      BY <1>1, <1>2, <2>1, <3>2 DEF Carried
    <3>. QED
      BY <3>1, <3>2
  <2>. QED
    BY <2>1, AliveCarriedStep
<1>4. ASSUME OneCarrierLine, CarryInv PROVE CarryInv'
  <2>1. LostNumbered'
    BY <1>4, LostNumberedStep DEF CarryInv
  <2>2. ASSUME NEW i \in Nat PROVE CarryOf(i)'
    <3>1. CarryOf(i)
      BY <1>4, CarryInvParts
    <3>2. CASE i # id
      <4>1. Dropped(i)' => Dropped(i)
        BY <3>2, LostGrows
      <4>. QED
        BY <3>1, <3>2, <4>1, CarryStays
    <3>3. CASE i = id
      <4>1. /\ Carried(i)
            /\ ListCarriers(i)' = Gained(i)
            /\ QueuedIn(i)' = {}
            /\ ~BeingCreated(i)'
        BY <1>4, <3>3 DEF Gained
      <4>2. CASE Gained(id) # {} /\ more = {}
        <5>1. OnePlace(i)'
          BY <1>4, <3>3, <4>1 DEF OnePlace
        <5>2. lost' = lost
          BY <4>2
        <5>3. ~Dropped(i)' /\ (HasSlot(i)' \/ Stolen(i)')
          BY <3>1, <4>1, <5>2 DEF CarryOf, Dropped, Stolen, LostFor
        <5>. QED
          BY <5>1, <5>3 DEF CarryOf
      <4>3. CASE Gained(id) = {}
        BY <3>3, <4>1, <4>3 DEF CarryOf, OnePlace, Carried
      <4>. QED
        BY <4>2, <4>3
    <3>. QED
      BY <3>2, <3>3
  <2>3. CarryInv' <=> LostNumbered' /\ \A i \in Nat : CarryOf(i)'
    BY DEF CarryInv, CarryOf
  <2>. QED
    BY <2>1, <2>2, <2>3
<1>. QED
  BY <1>3, <1>4

\* A delivery taken from the head of a queue.
LEMMA ReceivedFacts ==
  ASSUME TypeOK, ObjectIDsUnique, NEW m \in Modules, Delivered(m)
  PROVE  DeliveredID(m) \in Nat /\ DeliveredID(m) < GlobalObjectID
<1>1. ModuleQueue[m] \in Seq(ModuleQueueItem) /\ ModuleQueue[m] # <<>>
  BY DEF TypeOK, SharedTypeOK, Delivered
<1>2. 1 \in 1 .. Len(ModuleQueue[m]) /\ DeliveredID(m) = ModuleQueue[m][1].DelieverdObjectID
  BY <1>1 DEF DeliveredID
<1>. QED
  BY <1>2, DeliveredType DEF ObjectIDsUnique, NumberedDeliveries

\* Received and not taken up: the object is dropped.
LEMMA CarryOdDrop ==
  ASSUME TypeOK, ObjectIDsUnique, RepeatInv, SlotsInv, OdDrop
  PROVE  SlotsInv' /\ (OneCarrierLine /\ CarryInv => CarryInv')
<1>1. PICK m, id, r : m = odModule /\ id = DeliveredID(odModule) /\ r = DropReason(odModule)
  OBVIOUS
<1>2. /\ m \in Modules
      /\ odPc = "scan"
      /\ Delivered(m)
      /\ ModuleQueue' = Received(m)
      /\ lost' = lost \cup {<<id, r>>}
      /\ NextModule
      /\ UNCHANGED <<ObjectBuffer, ObjectInModuleList, GlobalObjectID, GlobalObjectCount,
                     trVars>>
  BY <1>1 DEF OdDrop, TypeOK, OdTypeOK
<1>3. odPc' \in {"delay", "scan"}
  BY <1>2, NextModuleType
<1>4. id = DeliveredID(m) /\ id \in Nat /\ id < GlobalObjectID
  BY <1>1, <1>2, ReceivedFacts
<1>5. r \in DropReasons
  BY <1>1 DEF DropReason, DropReasons
<1>6. /\ m \in QueuedIn(id)
      /\ \A i : i # id => QueuedIn(i)' = QueuedIn(i)
      /\ QueuedIn(id)' = QueuedIn(id) \ {m}
  BY <1>2, <1>4, QueuedReceived DEF RepeatInv
<1>7. ASSUME NEW i \in Nat
      PROVE  /\ ListCarriers(i)' = ListCarriers(i)
             /\ HasSlot(i)' <=> HasSlot(i)
             /\ ~BeingCreated(i) /\ ~BeingCreated(i)'
  <2>1. ListCarriers(i)' = ListCarriers(i)
    BY <1>2, CarriersUnmoved DEF trVars
  <2>2. HasSlot(i)' <=> HasSlot(i)
    BY <1>2 DEF HasSlot, AliveSlots
  <2>. QED
    BY <1>2, <1>3, <2>1, <2>2 DEF BeingCreated
<1>8. FirstIsAlive' /\ SlotsNumbered'
  <2>1. FirstIsAlive /\ SlotsNumbered
    BY DEF SlotsInv
  <2>. QED
    BY <1>2, <2>1, SlotsQuiet
<1>9. FoundSlot'
  <2>1. \A s \in AliveSlots' :
          s \in AliveSlots /\ ObjectBuffer'[s].ObjectID = ObjectBuffer[s].ObjectID
    BY <1>2 DEF AliveSlots
  <2>. QED
    BY <1>2, <2>1, FoundKept DEF SlotsInv
<1>10. QueuesBounded'
  BY <1>2, ReceivedBounded DEF SlotsInv
<1>11. AliveCarried' /\ (OneCarrierLine /\ CarryInv => CarryInv')
  <2>1. PICK more : more = {<<id, r>>}
    OBVIOUS
  <2>2. /\ lost' = lost \cup more
        /\ \A y \in more : y[1] = id
        /\ \E y \in more : y[1] = id /\ y[2] \in DropReasons
    BY <1>2, <1>5, <2>1
  <2>3. Gained(id) = {}
    BY <1>4, <1>7 DEF Gained
  <2>4. ASSUME CarryInv
        PROVE  /\ Carried(id)
               /\ ListCarriers(id) = {}
               /\ QueuedIn(id)' = {}
               /\ ~BeingCreated(id)'
    <3>1. OnePlace(id)
      BY <1>4, <2>4 DEF CarryInv
    <3>. QED
      BY <1>4, <1>6, <1>7, <3>1 DEF OnePlace, Carried
  <2>. QED
    BY <1>2, <1>4, <1>6, <1>7, <2>2, <2>3, <2>4, CarryTakenUp DEF SlotsInv
<1>. QED
  BY <1>8, <1>9, <1>10, <1>11 DEF SlotsInv

\* The actions of an object its module has not begun with are added.
LEMMA CarryAdd ==
  ASSUME TypeOK, TypeOK', ObjectIDsUnique, SlotsInv, UNCHANGED trVars,
         NEW m \in Modules, NEW id \in Nat, id < GlobalObjectID, NEW list,
         NEW reason \in DropReasons,
         Untouched(id, m),
         ObjectInModuleList' = [ObjectInModuleList EXCEPT ![m] = list],
         AddedOnce(ObjectInModuleList[m], list, id),
         lost' = lost \cup LostUnlessCarried(list, m, id, reason),
         UNCHANGED <<ObjectBuffer, GlobalObjectID>>,
         GlobalObjectCount' = GlobalObjectCount \/ GlobalObjectID # 0,
         QueuesBounded',
         \A i \in Nat : i # id => /\ QueuedIn(i)' = QueuedIn(i)
                                  /\ BeingCreated(i)' <=> BeingCreated(i),
         CarryInv => /\ Carried(id)
                     /\ ListCarriers(id) = {}
                     /\ QueuedIn(id)' = {}
                     /\ ~BeingCreated(id)'
  PROVE  SlotsInv' /\ (OneCarrierLine /\ CarryInv => CarryInv')
<1>1. FirstIsAlive' /\ SlotsNumbered'
  <2>1. FirstIsAlive /\ SlotsNumbered
    BY DEF SlotsInv
  <2>. QED
    BY <2>1, SlotsQuiet
<1>2. FoundSlot'
  <2>1. \A s \in AliveSlots' :
          s \in AliveSlots /\ ObjectBuffer'[s].ObjectID = ObjectBuffer[s].ObjectID
    BY DEF AliveSlots
  <2>2. \A n \in Modules, s \in Slots :
          \/ ObjectInModuleList'[n][s] = ObjectInModuleList[n][s]
          \/ ObjectInModuleList[n][s] = NoAction
    BY DEF AddedOnce, TypeOK, SharedTypeOK
  <2>. QED
    BY <2>1, <2>2, FoundKept DEF SlotsInv
<1>3. \A i \in Nat : HasSlot(i)' <=> HasSlot(i)
  BY DEF HasSlot, AliveSlots
<1>4. /\ \A i : i # id => ListCarriers(i)' = ListCarriers(i)
      /\ OneCarrierLine => \A x, y \in Gained(id) : x = y
      /\ Gained(id) # {} <=> \E s \in Slots : /\ list[s] # NoAction
                                             /\ list[s].ObjectID = id
                                             /\ IsCarrier(m, list[s].ActionNumber)
  BY CarriersAdded
<1>5. PICK more : more = LostUnlessCarried(list, m, id, reason)
  OBVIOUS
<1>6. /\ lost' = lost \cup more
      /\ \A y \in more : y[1] = id
      /\ \/ Gained(id) # {} /\ more = {}
         \/ Gained(id) = {} /\ \E y \in more : y[1] = id /\ y[2] \in DropReasons
  <2>1. CASE Gained(id) # {} /\ more = {}
    BY <1>5, <2>1
  <2>2. CASE Gained(id) = {} /\ more = {<<id, reason>>}
    <3>1. /\ \A y \in more : y[1] = id
          /\ \E y \in more : y[1] = id /\ y[2] \in DropReasons
      BY <2>2
    <3>. QED
      BY <1>5, <2>2, <3>1
  <2>. QED
    BY <1>4, <1>5, <2>1, <2>2 DEF LostUnlessCarried
<1>7. AliveCarried' /\ (OneCarrierLine /\ CarryInv => CarryInv')
  BY <1>3, <1>4, <1>6, CarryTakenUp DEF SlotsInv
<1>. QED
  BY <1>1, <1>2, <1>7 DEF SlotsInv

\* Module m adds actions for object id, which nothing carries but its delivery
\* or creation, both at an end; the reason is recorded if none carries it on.
AddsActions(m, id, list, reason) ==
  /\ m \in Modules
  /\ id \in Nat
  /\ id < GlobalObjectID
  /\ reason \in DropReasons
  /\ Untouched(id, m)
  /\ ObjectInModuleList' = [ObjectInModuleList EXCEPT ![m] = list]
  /\ AddedOnce(ObjectInModuleList[m], list, id)
  /\ lost' = lost \cup LostUnlessCarried(list, m, id, reason)
  /\ UNCHANGED <<ObjectBuffer, GlobalObjectID>>
  /\ UNCHANGED trVars
  /\ GlobalObjectCount' = GlobalObjectCount \/ GlobalObjectID # 0
  /\ QueuesBounded'
  /\ \A i \in Nat : i # id => /\ QueuedIn(i)' = QueuedIn(i)
                             /\ ~BeingCreated(i)
                             /\ ~BeingCreated(i)'
  /\ CarryInv => /\ Carried(id)
                 /\ ListCarriers(id) = {}
                 /\ QueuedIn(id)' = {}
                 /\ ~BeingCreated(id)'

\* Received and taken up.
LEMMA AcceptAdds ==
  ASSUME TypeOK, ObjectIDsUnique, RepeatInv, SlotsInv, OdAccept
  PROVE  \E m, id, list, reason : /\ AddsActions(m, id, list, reason)
                                  /\ m \in QueuedIn(id)
<1>1. PICK m, id : m = odModule /\ id = DeliveredID(odModule)
  OBVIOUS
<1>2. PICK list : list = AddAllActions(ObjectInModuleList[m], m, id, Now(m))
  OBVIOUS
<1>3. PICK reason : reason = "list full"
  OBVIOUS
<1>4. /\ m \in Modules
      /\ odPc = "scan"
      /\ Delivered(m)
      /\ ModuleQueue' = Received(m)
      /\ ObjectInModuleList' = [ObjectInModuleList EXCEPT ![m] = list]
      /\ lost' = lost \cup LostUnlessCarried(list, m, id, reason)
      /\ NextModule
      /\ UNCHANGED <<ObjectBuffer, GlobalObjectID, GlobalObjectCount, trVars>>
  BY <1>1, <1>2, <1>3 DEF OdAccept, TypeOK, OdTypeOK
<1>5. odPc' \in {"delay", "scan"}
  BY <1>4, NextModuleType
<1>6. id = DeliveredID(m) /\ id \in Nat /\ id < GlobalObjectID /\ reason \in DropReasons
  BY <1>1, <1>3, <1>4, ReceivedFacts DEF DropReasons
<1>7. /\ m \in QueuedIn(id)
      /\ \A i : i # id => QueuedIn(i)' = QueuedIn(i)
      /\ QueuedIn(id)' = QueuedIn(id) \ {m}
  BY <1>4, <1>6, QueuedReceived DEF RepeatInv
<1>8. Untouched(id, m)
  <2>1. ModuleQueue[m] \in Seq(ModuleQueueItem) /\ ModuleQueue[m] # <<>>
    BY <1>4 DEF TypeOK, SharedTypeOK, Delivered
  <2>2. 1 \in 1 .. Len(ModuleQueue[m]) /\ id = ModuleQueue[m][1].DelieverdObjectID
    BY <1>6, <2>1 DEF DeliveredID
  <2>. QED
    BY <1>4, <2>2 DEF RepeatInv, DeliveriesFresh
<1>9. AddedOnce(ObjectInModuleList[m], list, id)
  <2>1. /\ ObjectInModuleList[m] \in [Slots -> ActionListItem \cup {NoAction}]
        /\ Now(m) \in Nat
    BY <1>4, NowType DEF TypeOK, SharedTypeOK
  <2>. QED
    BY <1>2, <1>4, <1>6, <2>1, AddAllOnce
<1>10. \A i : ~BeingCreated(i) /\ ~BeingCreated(i)'
  BY <1>4, <1>5 DEF BeingCreated
<1>11. QueuesBounded'
  BY <1>4, ReceivedBounded DEF SlotsInv
<1>12. ASSUME CarryInv
       PROVE  /\ Carried(id)
              /\ ListCarriers(id) = {}
              /\ QueuedIn(id)' = {}
              /\ ~BeingCreated(id)'
  <2>1. OnePlace(id)
    BY <1>6, <1>12 DEF CarryInv
  <2>. QED
    BY <1>7, <1>10, <2>1 DEF OnePlace, Carried
<1>13. AddsActions(m, id, list, reason)
  BY <1>4, <1>6, <1>7, <1>8, <1>9, <1>10, <1>11, <1>12 DEF AddsActions
<1>. QED
  BY <1>7, <1>13

\* The object created gets its actions.
LEMMA CreationAdds ==
  ASSUME TypeOK, ObjectIDsUnique, RepeatInv, SlotsInv, OdAddActions
  PROVE  \E m, id, list, reason : /\ AddsActions(m, id, list, reason)
                                  /\ m = odModule
                                  /\ BeingCreated(id)
<1>1. PICK m, id : m = odModule /\ id = ObjectBuffer[GlobalObjectCount].ObjectID
  OBVIOUS
<1>2. PICK list, reason :
        /\ list = IF addAll
                    THEN AddAllActions(ObjectInModuleList[m], m, id, Now(m))
                    ELSE AddOneAction(ObjectInModuleList[m], m, id, Now(m), Action_i + 1)
        /\ reason = IF addAll THEN "list full" ELSE "stale action"
  OBVIOUS
<1>3. /\ odPc = "sending"
      /\ ObjectInModuleList' = [ObjectInModuleList EXCEPT ![m] = list]
      /\ lost' = lost \cup LostUnlessCarried(list, m, id, reason)
      /\ NextModule
      /\ UNCHANGED <<ObjectBuffer, ModuleQueue, GlobalObjectID, trVars>>
  BY <1>1, <1>2 DEF OdAddActions
<1>4. odPc' \in {"delay", "scan"}
  BY <1>3, NextModuleType
<1>5. /\ m \in Modules
      /\ GlobalObjectCount \in Slots
      /\ Action_i + 1 \in Nat
      /\ id \in Nat
      /\ Now(m) \in Nat
      /\ ObjectInModuleList[m] \in [Slots -> ActionListItem \cup {NoAction}]
  BY <1>1, <1>3, NowType DEF TypeOK, OdTypeOK, SharedTypeOK, ObjectInfo
<1>6. id < GlobalObjectID /\ GlobalObjectID # 0
  <2>1. id < GlobalObjectID /\ GlobalObjectID \in Nat
    BY <1>1, <1>3 DEF ObjectIDsUnique, NumberedSlots, TypeOK, SharedTypeOK
  <2>. QED
    BY <1>5, <2>1
<1>7. Untouched(id, m)
  BY <1>1, <1>3 DEF RepeatInv, CreationOnce
<1>8. AddedOnce(ObjectInModuleList[m], list, id)
  <2>1. CASE addAll
    BY <1>2, <1>5, <2>1, AddAllOnce
  <2>2. CASE ~addAll
    BY <1>2, <1>5, <2>2, AddOneOnce
  <2>. QED
    BY <2>1, <2>2
<1>9. reason \in DropReasons
  BY <1>2 DEF DropReasons
<1>10. /\ BeingCreated(id)
       /\ \A i : i # id => ~BeingCreated(i)
       /\ \A i : ~BeingCreated(i)'
       /\ \A i : QueuedIn(i)' = QueuedIn(i)
  BY <1>1, <1>3, <1>4, QueuedKept DEF BeingCreated
<1>11. QueuesBounded'
  BY <1>3 DEF SlotsInv, QueuesBounded
<1>12. ASSUME CarryInv
       PROVE  /\ Carried(id)
              /\ ListCarriers(id) = {}
              /\ QueuedIn(id)' = {}
              /\ ~BeingCreated(id)'
  <2>1. OnePlace(id)
    BY <1>5, <1>12 DEF CarryInv
  <2>. QED
    BY <1>10, <2>1 DEF OnePlace, Carried
<1>13. AddsActions(m, id, list, reason)
  BY <1>3, <1>5, <1>6, <1>7, <1>8, <1>9, <1>10, <1>11, <1>12 DEF AddsActions
<1>. QED
  BY <1>1, <1>10, <1>13

LEMMA CarryOdAdds ==
  ASSUME TypeOK, TypeOK', ObjectIDsUnique, RepeatInv, SlotsInv, OdAccept \/ OdAddActions
  PROVE  SlotsInv' /\ (OneCarrierLine /\ CarryInv => CarryInv')
<1>1. PICK m, id, list, reason : AddsActions(m, id, list, reason)
  BY AcceptAdds, CreationAdds
<1>. QED
  BY <1>1, CarryAdd DEF AddsActions

\* A new object is created, after the delivery of another one was dropped or
\* when there was none.
LEMMA CarryCreated ==
  ASSUME TypeOK, ObjectIDsUnique, SlotsInv, NEW m \in Modules, NEW dropped,
         CreateObject(m, dropped),
         UNCHANGED <<ObjectInModuleList, trVars>>,
         odPc = "scan", odPc' = "sending",
         QueuesBounded',
         \A y \in dropped : y[1] \in Nat /\ y[1] < GlobalObjectID,
         \A i \in Nat :
           \/ QueuedIn(i)' = QueuedIn(i) /\ \A y \in dropped : y[1] # i
           \/ /\ \E y \in dropped : y[1] = i /\ y[2] \in DropReasons
              /\ QueuedIn(i)' \subseteq QueuedIn(i)
              /\ QueuedIn(i) # {}
              /\ OnePlace(i) => QueuedIn(i)' = {}
  PROVE  SlotsInv' /\ (CarryInv => CarryInv')
<1>1. PICK g : g = GlobalObjectID
  OBVIOUS
<1>2. g \in Nat /\ GlobalObjectID' = g + 1
  <2>1. GlobalObjectID' = NextID
    BY DEF CreateObject
  <2>. QED
    BY <1>1, <2>1 DEF NextID, TypeOK, SharedTypeOK
<1>3. FirstIsAlive /\ SlotsNumbered
  BY DEF SlotsInv
<1>4. /\ FirstIsAlive'
      /\ SlotsNumbered'
      /\ ObjectBuffer'[GlobalObjectCount'].ObjectID = g
      /\ HasSlot(g)'
      /\ \A i : HasSlot(i)' => HasSlot(i) \/ i = g
  BY <1>1, <1>3, CreatedSlot
<1>5. PICK more :
        /\ lost' = lost \cup more
        /\ dropped \subseteq more
        /\ \A y \in more : y \in dropped \/ y[2] = "overwritten"
        /\ \A i : HasSlot(i) => HasSlot(i)' \/ <<i, "overwritten">> \in more
  BY <1>1, <1>3, CreatedSlot
<1>6. \A i : BeingCreated(i)' <=> i = g
  BY <1>4 DEF BeingCreated
<1>7. \A i : ~BeingCreated(i)
  BY DEF BeingCreated
<1>8. \A i \in Nat : ListCarriers(i)' = ListCarriers(i)
  BY CarriersUnmoved DEF trVars
<1>9. ListCarriers(g) = {} /\ QueuedIn(g) = {}
  <2>1. ~(g < g)
    BY <1>2
  <2>2. ListCarriers(g) = {}
    BY <1>1, <2>1 DEF ListCarriers, Pending, ObjectIDsUnique, NumberedEntries
  <2>3. QueuedIn(g) = {}
    BY <1>1, <2>1 DEF QueuedIn, NotQueued, ObjectIDsUnique, NumberedDeliveries
  <2>. QED
    BY <2>2, <2>3
<1>10. FoundSlot'
  <2>1. \A s \in AliveSlots' :
          \/ s \in AliveSlots /\ ObjectBuffer'[s].ObjectID = ObjectBuffer[s].ObjectID
          \/ ObjectBuffer'[s].ObjectID = GlobalObjectID
    BY DEF CreateObject, NewObject, AliveSlots, TypeOK, SharedTypeOK
  <2>. QED
    BY <2>1, FoundKept DEF SlotsInv
<1>11. AliveCarried'
  <2>1. ASSUME NEW i \in Nat, HasSlot(i)'
        PROVE  Carried(i)' \/ (HasSlot(i) /\ (Carried(i) => Dropped(i)'))
    <3>1. CASE i = g
      BY <1>6, <3>1 DEF Carried
    <3>2. CASE i # g
      <4>1. CASE \E y \in dropped : y[1] = i /\ y[2] \in DropReasons
        BY <1>4, <1>5, <2>1, <3>2, <4>1, LostGrows
      <4>2. CASE QueuedIn(i)' = QueuedIn(i)
        BY <1>4, <1>7, <1>8, <2>1, <3>2, <4>2 DEF Carried
      <4>. QED
        BY <4>1, <4>2
    <3>. QED
      BY <3>1, <3>2
  <2>. QED
    BY <1>5, <2>1, AliveCarriedStep DEF SlotsInv
<1>12. ASSUME CarryInv PROVE CarryInv'
  <2>1. LostNumbered'
    <3>1. \A y \in more : y[2] \in DropReasons => y[1] \in Nat /\ y[1] < GlobalObjectID
      BY <1>5 DEF DropReasons
    <3>2. GlobalObjectID' \in {GlobalObjectID, GlobalObjectID + 1}
      BY <1>1, <1>2
    <3>. QED
      BY <1>5, <1>12, <3>1, <3>2, LostNumberedStep DEF CarryInv
  <2>2. ASSUME NEW i \in Nat PROVE CarryOf(i)'
    <3>1. CarryOf(i)
      BY <1>12, CarryInvParts
    <3>2. CASE i = g
      <4>1. QueuedIn(i)' = {} /\ ListCarriers(i)' = {}
        BY <1>8, <1>9, <3>2
      <4>2. ~Dropped(i)'
        <5>1. ~(g < g)
          BY <1>2
        <5>2. ~Dropped(i)
          BY <1>1, <1>12, <3>2, <5>1 DEF CarryInv, LostNumbered, Dropped, LostFor
        <5>3. \A y \in more : ~(y[1] = i /\ y[2] \in DropReasons)
          BY <1>1, <1>5, <3>2, <5>1, ZenonT(40) DEF DropReasons
        <5>. QED
          BY <1>5, <5>2, <5>3, LostGrows
      <4>3. OnePlace(i)'
        BY <4>1 DEF OnePlace
      <4>. QED
        BY <1>4, <3>2, <4>2, <4>3 DEF CarryOf
    <3>3. CASE i # g /\ QueuedIn(i)' = QueuedIn(i) /\ \A y \in dropped : y[1] # i
      <4>1. HasSlot(i) => HasSlot(i)' \/ Stolen(i)'
        <5>1. <<i, "overwritten">> \in more => \E y \in more : y[1] = i /\ y[2] \in StolenReasons
          BY DEF StolenReasons
        <5>. QED
          BY <1>5, <5>1, LostGrows
      <4>2. Dropped(i)' => Dropped(i)
        <5>1. \A y \in more : ~(y[1] = i /\ y[2] \in DropReasons)
          BY <1>5, <3>3 DEF DropReasons
        <5>. QED
          BY <1>5, <5>1, LostGrows
      <4>. QED
        BY <1>5, <1>6, <1>7, <1>8, <3>1, <3>3, <4>1, <4>2, CarryStays
    <3>4. CASE i # g /\ QueuedIn(i) # {} /\ (OnePlace(i) => QueuedIn(i)' = {})
      <4>1. ListCarriers(i) = {} /\ QueuedIn(i)' = {}
        BY <3>1, <3>4 DEF CarryOf, OnePlace
      <4>2. ListCarriers(i)' = {} /\ ~BeingCreated(i)'
        BY <1>6, <1>8, <3>4, <4>1
      <4>. QED
        BY <4>1, <4>2 DEF CarryOf, OnePlace, Carried
    <3>. QED
      BY <3>2, <3>3, <3>4
  <2>3. CarryInv' <=> LostNumbered' /\ \A i \in Nat : CarryOf(i)'
    BY DEF CarryInv, CarryOf
  <2>. QED
    BY <2>1, <2>2, <2>3
<1>. QED
  BY <1>4, <1>10, <1>11, <1>12 DEF SlotsInv

LEMMA CarryOdDetect ==
  ASSUME TypeOK, ObjectIDsUnique, SlotsInv, OdDetect
  PROVE  SlotsInv' /\ (CarryInv => CarryInv')
<1>1. PICK m, none : m = odModule /\ none = {}
  OBVIOUS
<1>2. /\ m \in Modules
      /\ CreateObject(m, none)
      /\ odPc = "scan"
      /\ odPc' = "sending"
      /\ UNCHANGED <<ObjectInModuleList, ModuleQueue, trVars>>
  BY <1>1 DEF OdDetect, TypeOK, OdTypeOK
<1>3. QueuesBounded'
  BY <1>2 DEF SlotsInv, QueuesBounded
<1>4. \A i \in Nat : QueuedIn(i)' = QueuedIn(i)
  BY <1>2, QueuedKept
<1>5. \A y : y \notin none
  BY <1>1
<1>. QED
  BY <1>2, <1>3, <1>4, <1>5, CarryCreated

LEMMA CarryOdReplace ==
  ASSUME TypeOK, ObjectIDsUnique, RepeatInv, SlotsInv, OdReplace
  PROVE  SlotsInv' /\ (CarryInv => CarryInv')
<1>1. PICK m, id, dropped :
        /\ m = odModule
        /\ id = DeliveredID(odModule)
        /\ dropped = {<<DeliveredID(odModule), "window">>}
  OBVIOUS
<1>2. /\ m \in Modules
      /\ Delivered(m)
      /\ ModuleQueue' = Received(m)
      /\ CreateObject(m, dropped)
      /\ odPc = "scan"
      /\ odPc' = "sending"
      /\ UNCHANGED <<ObjectInModuleList, trVars>>
  BY <1>1 DEF OdReplace, TypeOK, OdTypeOK
<1>3. id = DeliveredID(m) /\ id \in Nat /\ id < GlobalObjectID
  BY <1>1, <1>2, ReceivedFacts
<1>4. /\ m \in QueuedIn(id)
      /\ \A i : i # id => QueuedIn(i)' = QueuedIn(i)
      /\ QueuedIn(id)' = QueuedIn(id) \ {m}
  BY <1>2, <1>3, QueuedReceived DEF RepeatInv
<1>5. QueuesBounded'
  BY <1>2, ReceivedBounded DEF SlotsInv
<1>6. /\ \A y \in dropped : y[1] = id
      /\ \E y \in dropped : y[1] = id /\ y[2] \in DropReasons
  BY <1>1 DEF DropReasons
<1>7. OnePlace(id) => QueuedIn(id)' = {}
  BY <1>4 DEF OnePlace
<1>. QED
  BY <1>2, <1>3, <1>4, <1>5, <1>6, <1>7, CarryCreated

LEMMA InitCarry == Init => SlotsInv /\ CarryInv
<1>. SUFFICES ASSUME Init PROVE SlotsInv /\ CarryInv
  OBVIOUS
<1>1. /\ AliveSlots = {}
      /\ lost = {}
      /\ odPc = "delay"
      /\ trPc = "delay"
      /\ GlobalObjectID = 0
      /\ GlobalObjectCount = 0
      /\ \A s \in Slots : ObjectBuffer[s].ObjectID = 0
      /\ \A m \in Modules : ModuleQueue[m] = <<>>
      /\ \A m \in Modules, s \in Slots : ObjectInModuleList[m][s] = NoAction
  BY DEF Init, AliveSlots
<1>2. \A i : ListCarriers(i) = {} /\ QueuedIn(i) = {} /\ ~BeingCreated(i) /\ ~HasSlot(i)
  BY <1>1 DEF ListCarriers, Pending, QueuedIn, NotQueued, BeingCreated, HasSlot
<1>3. FirstIsAlive /\ SlotsNumbered /\ FoundSlot
  BY <1>1 DEF FirstIsAlive, SlotsNumbered, FoundSlot
<1>4. QueuesBounded
  BY <1>1, ConfigAssumption DEF QueuesBounded
<1>5. AliveCarried /\ CarryInv
  BY <1>1, <1>2 DEF AliveCarried, CarryInv, LostNumbered, OnePlace, Carried
<1>. QED
  BY <1>3, <1>4, <1>5 DEF SlotsInv

LEMMA NextCarry ==
  ASSUME TypeOK, TypeOK', ObjectIDsUnique, RepeatInv, SlotsInv, [Next]_vars
  PROVE  SlotsInv' /\ (OneCarrierLine /\ CarryInv => CarryInv')
<1>1. CASE World
  <2>1. UNCHANGED <<sharedVars, odVars, trVars, lost>>
    BY <1>1 DEF World, Move, Capture, ClientsChange, history
  <2>. QED
    BY <2>1, CarryFrame DEF sharedVars, odVars
<1>2. CASE ObjectDetectionThread
  <2>1. CASE OdStart
    <3>1. /\ UNCHANGED <<sharedVars, GlobalObjectCount, trVars, lost>>
          /\ odPc' # "sending"
          /\ odPc # "sending"
      BY <2>1 DEF OdStart, history
    <3>. QED
      BY <3>1, CarryFrame DEF sharedVars
  <2>2. CASE OdSkip
    <3>1. /\ UNCHANGED <<sharedVars, GlobalObjectCount, trVars, lost>>
          /\ odPc' # "sending"
          /\ odPc # "sending"
      BY <2>2, NextModuleType DEF OdSkip, history
    <3>. QED
      BY <3>1, CarryFrame DEF sharedVars
  <2>. QED
    BY <1>2, <2>1, <2>2, CarryOdAdds, CarryOdDrop, CarryOdDetect, CarryOdReplace
    DEF ObjectDetectionThread
<1>3. CASE TrackingThread
  BY <1>3, CarryTrStep, CarryTrOther, CarryTrTakeOver, CarryTrFree, CarryTrClear
  DEF TrackingThread
<1>4. ASSUME NEW id \in 0 .. GlobalObjectID - 1, STM32GetPushResult(id)
      PROVE  SlotsInv' /\ (OneCarrierLine /\ CarryInv => CarryInv')
  <2>1. /\ \/ UNCHANGED ObjectBuffer
           \/ \E s \in Slots :
                ObjectBuffer' = [ObjectBuffer EXCEPT ![s].ProcessedResult = FALSE]
        /\ UNCHANGED <<ObjectInModuleList, ModuleQueue, GlobalObjectID, odVars, trVars,
                       lost>>
    BY <1>4 DEF STM32GetPushResult
  <2>2. \A s \in Slots :
          /\ ObjectBuffer'[s].ObjectID = ObjectBuffer[s].ObjectID
          /\ ObjectBuffer'[s].objectAliveFlag <=> ObjectBuffer[s].objectAliveFlag
    BY <2>1 DEF TypeOK, SharedTypeOK, ObjectInfo
  <2>. QED
    BY <2>1, <2>2, CarryFrame DEF odVars
<1>5. CASE ActionExecuteThread
  BY <1>5, CarryFrame DEF ActionExecuteThread, sharedVars, odVars, history
<1>6. CASE UNCHANGED vars
  BY <1>6, CarryFrame DEF vars, sharedVars, odVars, history
<1>. QED
  BY <1>1, <1>2, <1>3, <1>4, <1>5, <1>6 DEF Next

-----------------------------------------------------------------------------
(* The number of places that carry an object.                              *)

LEMMA AtMostOne ==
  ASSUME NEW S, IsFiniteSet(S)
  PROVE  /\ Cardinality(S) \in Nat
         /\ Cardinality(S) = 0 <=> S = {}
         /\ (\A x, y \in S : x = y) => Cardinality(S) <= 1
<1>1. Cardinality(S) \in Nat /\ (Cardinality(S) = 0 <=> S = {})
  BY FS_CardinalityType, FS_EmptySet
<1>2. ASSUME NEW z \in S, \A x, y \in S : x = y
      PROVE  Cardinality(S) <= 1
  <2>1. S = {z}
    BY <1>2
  <2>. QED
    BY <2>1, FS_Singleton
<1>. QED
  BY <1>1, <1>2

\* The deliveries of an object, by the places in the queues and by the modules.
LEMMA QueueCarriersOf ==
  ASSUME TypeOK, QueuesBounded, NEW i
  PROVE  /\ \A x \in QueueCarriers(i) :
              /\ x[1] \in QueuedIn(i)
              /\ x = <<x[1], x[2]>>
              /\ x[2] \in 1 .. Len(ModuleQueue[x[1]])
              /\ ModuleQueue[x[1]][x[2]].DelieverdObjectID = i
         /\ QueueCarriers(i) = {} <=> QueuedIn(i) = {}
<1>1. ASSUME NEW x \in QueueCarriers(i)
      PROVE  /\ x[1] \in QueuedIn(i)
             /\ x = <<x[1], x[2]>>
             /\ x[2] \in 1 .. Len(ModuleQueue[x[1]])
             /\ ModuleQueue[x[1]][x[2]].DelieverdObjectID = i
  <2>1. x \in Modules \X (1 .. moduleQueueDepth)
    BY DEF QueueCarriers
  <2>2. /\ x[1] \in Modules
        /\ x[2] \in 1 .. moduleQueueDepth
        /\ x = <<x[1], x[2]>>
    BY <2>1
  <2>3. x[2] <= Len(ModuleQueue[x[1]]) /\ ModuleQueue[x[1]][x[2]].DelieverdObjectID = i
    BY DEF QueueCarriers
  <2>4. Len(ModuleQueue[x[1]]) \in Nat
    BY <2>2 DEF TypeOK, SharedTypeOK
  <2>5. x[2] \in 1 .. Len(ModuleQueue[x[1]])
    BY <2>2, <2>3, <2>4, ConfigAssumption
  <2>. QED
    BY <2>2, <2>3, <2>5 DEF QueuedIn, NotQueued
<1>2. QueueCarriers(i) = {} <=> QueuedIn(i) = {}
  <2>1. ASSUME NEW m \in QueuedIn(i) PROVE QueueCarriers(i) # {}
    <3>1. m \in Modules
      BY DEF QueuedIn
    <3>2. PICK q \in 1 .. Len(ModuleQueue[m]) : ModuleQueue[m][q].DelieverdObjectID = i
      BY DEF QueuedIn, NotQueued
    <3>3. Len(ModuleQueue[m]) \in Nat /\ Len(ModuleQueue[m]) <= moduleQueueDepth
      BY <3>1 DEF TypeOK, SharedTypeOK, QueuesBounded
    <3>4. q \in 1 .. moduleQueueDepth /\ q <= Len(ModuleQueue[m])
      BY <3>2, <3>3, ConfigAssumption
    <3>5. <<m, q>> \in QueueCarriers(i)
      BY <3>1, <3>2, <3>4 DEF QueueCarriers
    <3>. QED
      BY <3>5
  <2>. QED
    BY <1>1, <2>1
<1>. QED
  BY <1>1, <1>2

LEMMA CountCarriers ==
  ASSUME TypeOK, DeliveriesDistinct, QueuesBounded, NEW i
  PROVE  /\ Carriers(i) \in Nat
         /\ Carriers(i) > 0 <=> Carried(i)
         /\ OnePlace(i) => Carriers(i) <= 1
<1>1. IsFiniteSet(ListCarriers(i)) /\ IsFiniteSet(QueueCarriers(i))
  <2>1. /\ IsFiniteSet(Modules)
        /\ IsFiniteSet(Slots)
        /\ IsFiniteSet(1 .. moduleQueueDepth)
    BY FS_Interval, ConfigAssumption, SMTT(20) DEF Modules, Slots
  <2>2. IsFiniteSet(Modules \X Slots) /\ IsFiniteSet(Modules \X (1 .. moduleQueueDepth))
    BY <2>1, FS_Product
  <2>3. /\ ListCarriers(i) \in SUBSET (Modules \X Slots)
        /\ QueueCarriers(i) \in SUBSET (Modules \X (1 .. moduleQueueDepth))
    BY DEF ListCarriers, QueueCarriers
  <2>. QED
    BY <2>2, <2>3, FS_Subset
<1>2. \A x \in QueueCarriers(i) :
        /\ x[1] \in QueuedIn(i)
        /\ x = <<x[1], x[2]>>
        /\ x[2] \in 1 .. Len(ModuleQueue[x[1]])
        /\ ModuleQueue[x[1]][x[2]].DelieverdObjectID = i
  BY QueueCarriersOf
<1>3. QueueCarriers(i) = {} <=> QueuedIn(i) = {}
  BY QueueCarriersOf
<1>4. ASSUME \A m, n \in QueuedIn(i) : m = n, NEW x \in QueueCarriers(i), NEW y \in QueueCarriers(i)
      PROVE  x = y
  <2>1. x[1] = y[1] /\ x[1] \in Modules
    BY <1>2, <1>4 DEF QueuedIn
  <2>2. x[2] = y[2]
    BY <1>2, <2>1 DEF DeliveriesDistinct
  <2>. QED
    BY <1>2, <2>1, <2>2
<1>5. PICK l, q :
        /\ l = Cardinality(ListCarriers(i))
        /\ q = Cardinality(QueueCarriers(i))
  OBVIOUS
<1>6. Carriers(i) = l + q + IF BeingCreated(i) THEN 1 ELSE 0
  BY <1>5 DEF Carriers
<1>7. /\ l \in Nat /\ (l = 0 <=> ListCarriers(i) = {})
      /\ q \in Nat /\ (q = 0 <=> QueuedIn(i) = {})
  BY <1>1, <1>3, <1>5, AtMostOne
<1>8. OnePlace(i) => l <= 1 /\ q <= 1
  <2>. SUFFICES ASSUME OnePlace(i) PROVE l <= 1 /\ q <= 1
    OBVIOUS
  <2>1. \A x, y \in ListCarriers(i) : x = y
    BY DEF OnePlace
  <2>2. \A x, y \in QueueCarriers(i) : x = y
    BY <1>4 DEF OnePlace
  <2>. QED
    BY <1>1, <1>5, <2>1, <2>2, AtMostOne
<1>9. Carriers(i) \in Nat /\ (Carriers(i) > 0 <=> Carried(i))
  BY <1>6, <1>7 DEF Carried
<1>10. OnePlace(i) => Carriers(i) <= 1
  BY <1>6, <1>7, <1>8 DEF OnePlace
<1>. QED
  BY <1>9, <1>10

-----------------------------------------------------------------------------

\* On a line that runs one way a slot stays occupied only for an object that
\* something still carries on, or that was dropped at one of the places the
\* model names (readme.txt:139 reports the leak after "no light"): a take-over
\* that finds room puts its object into the next queue (Tracking.c:99-113), a
\* push-out frees the slot of its own object (Tracking.c:114-147).
THEOREM SlotsAreCarried ==
  ASSUME OneWayLine
  PROVE  Spec => []AliveIsCarriedOrDropped
<1>1. Init => SlotsInv
  BY InitCarry
<1>2. TypeOK /\ TypeOK' /\ ObjectIDsUnique /\ RepeatInv /\ SlotsInv /\ [Next]_vars
        => SlotsInv'
  BY NextCarry
<1>3. TypeOK /\ RepeatInv /\ SlotsInv => AliveIsCarriedOrDropped
  <2>. SUFFICES ASSUME TypeOK, RepeatInv, SlotsInv, NEW s \in AliveSlots, NEW id,
                       id = ObjectBuffer[s].ObjectID
                PROVE  Carriers(id) > 0 \/ id \in LostFor(DropReasons)
    BY DEF AliveIsCarriedOrDropped
  <2>1. id \in Nat
    BY DEF AliveSlots, TypeOK, SharedTypeOK, ObjectInfo
  <2>2. Carried(id) \/ Dropped(id)
    BY <2>1 DEF HasSlot, SlotsInv, AliveCarried
  <2>3. Carriers(id) > 0 <=> Carried(id)
    BY CountCarriers DEF RepeatInv, SlotsInv
  <2>. QED
    BY <2>2, <2>3 DEF Dropped
<1>4. TypeOK /\ TypeOK' /\ ObjectIDsUnique /\ ReachedInv /\ RepeatInv /\ [Next]_vars
        => RepeatInv'
  BY NextRepeat
<1>. QED
  BY <1>1, <1>2, <1>3, <1>4, InitType, NextType, InitIDs, NextIDs, InitReached,
     NextReached, InitRepeat, PTL DEF Spec

\* Where every section also has one action at most that carries objects on,
\* the list, the queues and ObjectBuffer agree on each object: it is in one
\* place, not after it was dropped, and has its slot unless CreateObject
\* overwrote it (ObjectDetection.c:251) or another object's push-out freed it
\* (Tracking.c:132).
THEOREM CarriedKeepSlots ==
  ASSUME OneWayLine, OneCarrierLine
  PROVE  Spec => []CarriedHasSlot
<1>1. Init => SlotsInv /\ CarryInv
  BY InitCarry
<1>2. TypeOK /\ TypeOK' /\ ObjectIDsUnique /\ RepeatInv /\ SlotsInv /\ CarryInv
        /\ [Next]_vars
        => SlotsInv' /\ CarryInv'
  BY NextCarry
<1>3. TypeOK /\ RepeatInv /\ SlotsInv /\ CarryInv => CarriedHasSlot
  <2>. SUFFICES ASSUME TypeOK, RepeatInv, SlotsInv, CarryInv,
                       NEW id \in 0 .. GlobalObjectID - 1
                PROVE  /\ Carriers(id) <= 1
                       /\ Carriers(id) = 1 =>
                            /\ id \notin LostFor(DropReasons)
                            /\ \/ \E s \in AliveSlots : ObjectBuffer[s].ObjectID = id
                               \/ id \in LostFor(StolenReasons)
    BY DEF CarriedHasSlot
  <2>1. id \in Nat
    BY DEF TypeOK, SharedTypeOK
  <2>2. OnePlace(id) /\ (Carried(id) => ~Dropped(id) /\ (HasSlot(id) \/ Stolen(id)))
    BY <2>1 DEF CarryInv
  <2>3. /\ Carriers(id) <= 1
        /\ Carriers(id) = 1 => Carried(id)
    <3>1. /\ Carriers(id) \in Nat
          /\ Carriers(id) > 0 <=> Carried(id)
          /\ OnePlace(id) => Carriers(id) <= 1
      BY CountCarriers DEF RepeatInv, SlotsInv
    <3>. QED
      BY <2>2, <3>1
  <2>. QED
    BY <2>2, <2>3 DEF Dropped, Stolen, HasSlot
<1>4. TypeOK /\ TypeOK' /\ ObjectIDsUnique /\ ReachedInv /\ RepeatInv /\ [Next]_vars
        => RepeatInv'
  BY NextRepeat
<1>. QED
  BY <1>1, <1>2, <1>3, <1>4, InitType, NextType, InitIDs, NextIDs, InitReached,
     NextReached, InitRepeat, PTL DEF Spec

-----------------------------------------------------------------------------
(* What a push-out goes by: the slot of its object, and in it the result.  *)

\* A live slot says what the PC has said of its object.
ResultsKept ==
  \A s \in AliveSlots :
    ObjectBuffer[s].ProcessedResult = (ObjectBuffer[s].ObjectID \notin requested)

RequestedNumbered == \A i \in requested : i \in Nat /\ i < GlobalObjectID

\* The push-out is the end of an object.
PushedDone ==
  \A i \in pushed :
    /\ i \in Nat
    /\ i < GlobalObjectID
    /\ Carried(i) => trPc = "decided" /\ Item.ObjectID = i

NoneFreed ==
  LostFor({"overwritten"}) = {} => \A y \in lost : y[2] # "freed by another"

PushInv ==
  /\ ResultsKept
  /\ RequestedNumbered
  /\ PushedDone
  /\ NoneFreed

\* Only a new object comes to be carried.
NewlyCarried == \A i \in Nat : Carried(i)' => Carried(i) \/ i = GlobalObjectID

LEMMA CarriedFrame ==
  ASSUME TypeOK,
         UNCHANGED ModuleQueue,
         \A i \in Nat : ListCarriers(i)' \subseteq ListCarriers(i),
         odPc' = "sending" => odPc = "sending",
         UNCHANGED GlobalObjectCount,
         \A s \in Slots : ObjectBuffer'[s].ObjectID = ObjectBuffer[s].ObjectID
  PROVE  NewlyCarried
<1>1. \A i \in Nat : BeingCreated(i)' => BeingCreated(i)
  BY DEF BeingCreated, TypeOK, OdTypeOK
<1>. QED
  BY <1>1, QueuedKept DEF NewlyCarried, Carried

\* Whatever list has that old has not is for object id.
OnlyFor(old, list, id) == \A s \in Slots : list[s] = old[s] \/ list[s].ObjectID = id

\* Entries added for one object leave what carries the others.
LEMMA CarriersOfOthers ==
  ASSUME TypeOK, UNCHANGED trVars, NEW m \in Modules, NEW id, NEW list,
         ObjectInModuleList' = [ObjectInModuleList EXCEPT ![m] = list],
         OnlyFor(ObjectInModuleList[m], list, id)
  PROVE  \A i : i # id => ListCarriers(i)' \subseteq ListCarriers(i)
<1>. SUFFICES ASSUME NEW i, i # id
              PROVE  ListCarriers(i)' \subseteq ListCarriers(i)
  OBVIOUS
<1>1. /\ ObjectInModuleList'[m] = list
      /\ \A n \in Modules \ {m} : ObjectInModuleList'[n] = ObjectInModuleList[n]
  BY DEF TypeOK, SharedTypeOK
<1>2. ASSUME NEW x \in Modules \X Slots, x \in ListCarriers(i)'
      PROVE  x \in ListCarriers(i)
  <2>1. x[1] \in Modules /\ x[2] \in Slots
    OBVIOUS
  <2>2. /\ Pending(x[1], x[2])'
        /\ ObjectInModuleList'[x[1]][x[2]].ObjectID = i
        /\ IsCarrier(x[1], ObjectInModuleList'[x[1]][x[2]].ActionNumber)
    BY <1>2 DEF ListCarriers
  <2>3. ObjectInModuleList'[x[1]][x[2]] = ObjectInModuleList[x[1]][x[2]]
    BY <1>1, <2>1, <2>2 DEF OnlyFor
  <2>4. Pending(x[1], x[2])
    BY <2>2, <2>3 DEF Pending, trVars
  <2>. QED
    BY <2>2, <2>3, <2>4 DEF ListCarriers
<1>3. ListCarriers(i)' \subseteq Modules \X Slots
  BY DEF ListCarriers
<1>. QED
  BY <1>2, <1>3

LEMMA CarriedTracking ==
  ASSUME TypeOK, ObjectIDsUnique, SlotsInv, TrackingThread
  PROVE  NewlyCarried
<1>1. UNCHANGED <<GlobalObjectCount, odPc>>
  BY DEF TrackingThread, TrStart, TrPass, TrOutput, TrRequestMachineData, TrTakeOver,
         TrFindObject, TrPush, TrPushOutOfBounds, TrFree, TrClear, Fire, odVars
<1>2. CASE TrStart \/ TrPass \/ TrFindObject \/ TrPush \/ TrPushOutOfBounds
  <2>1. UNCHANGED sharedVars /\ trPc # "clear" /\ trPc' # "clear"
    BY <1>2 DEF TrStart, TrPass, TrFindObject, TrPush, TrPushOutOfBounds, NextEntry
  <2>2. \A i \in Nat : ListCarriers(i)' = ListCarriers(i)
    BY <2>1, CarriersUnmoved DEF sharedVars
  <2>. QED
    BY <1>1, <2>1, <2>2, CarriedFrame DEF sharedVars
<1>3. CASE TrOutput \/ TrRequestMachineData
  <2>1. /\ Due
        /\ trPc = "scan"
        /\ trPc' = "clear"
        /\ UNCHANGED <<sharedVars, trModule, trAction>>
    BY <1>3 DEF TrOutput, TrRequestMachineData, Fire
  <2>2. \A i \in Nat : ListCarriers(i)' \subseteq ListCarriers(i)
    BY <2>1, DueItem, CarriersDone DEF sharedVars
  <2>. QED
    BY <1>1, <2>1, <2>2, CarriedFrame DEF sharedVars
<1>4. CASE TrFree
  <2>1. /\ trPc = "decided"
        /\ trPc' = "clear"
        /\ Item \in ActionListItem
        /\ UNCHANGED <<ObjectInModuleList, ModuleQueue, trModule, trAction>>
    BY <1>4 DEF TrFree, TypeOK, TrTypeOK
  <2>2. \A i \in Nat : ListCarriers(i)' \subseteq ListCarriers(i)
    BY <2>1, CarriersDone
  <2>3. \A s \in Slots : ObjectBuffer'[s].ObjectID = ObjectBuffer[s].ObjectID
    <3>1. ObjectBuffer \in [Slots -> ObjectInfo]
      BY DEF TypeOK, SharedTypeOK
    <3>2. \/ UNCHANGED ObjectBuffer
          \/ ObjectBuffer' = [ObjectBuffer EXCEPT ![object_i].objectAliveFlag = FALSE]
      BY <1>4 DEF TrFree, Freed
    <3>. QED
      BY <3>1, <3>2 DEF ObjectInfo
  <2>. QED
    BY <1>1, <2>1, <2>2, <2>3, CarriedFrame
<1>5. CASE TrClear
  <2>1. UNCHANGED <<ObjectBuffer, ModuleQueue>> /\ trPc = "clear" /\ trPc' \in {"scan", "delay"}
    BY <1>5 DEF TrClear, NextEntry
  <2>2. \A m \in Modules, s \in Slots :
          IF m = trModule /\ s = trAction
            THEN ObjectInModuleList'[m][s] = NoAction
            ELSE ObjectInModuleList'[m][s] = ObjectInModuleList[m][s]
    BY <1>5 DEF TrClear, Cleared, TypeOK, SharedTypeOK, TrTypeOK
  <2>3. \A m \in Modules, s \in Slots :
          /\ Pending(m, s)' <=> Pending(m, s)
          /\ Pending(m, s) => ObjectInModuleList'[m][s] = ObjectInModuleList[m][s]
    BY <2>1, <2>2 DEF Pending
  <2>4. \A i \in Nat : ListCarriers(i)' = ListCarriers(i)
    BY <2>3, CarriersKept
  <2>. QED
    BY <1>1, <2>1, <2>4, CarriedFrame
<1>6. CASE TrTakeOver
  <2>1. PICK id, d, item :
          /\ id = Item.ObjectID
          /\ d = ItemAction.DestinationModule
          /\ item = [DelieverdObjectID |-> Item.ObjectID,
                     DelieverdEncoderNum |-> trEncoder[ModuleConfig[d].Encoder]]
    OBVIOUS
  <2>2. /\ Due
        /\ trPc = "scan"
        /\ trPc' = "clear"
        /\ ItemAction.ActionType = "ObjectTakeOver"
        /\ UNCHANGED <<ObjectBuffer, ObjectInModuleList, trModule, trAction>>
        /\ \/ ModuleQueue' = [ModuleQueue EXCEPT ![d] = Append(@, item)]
           \/ UNCHANGED ModuleQueue
    BY <1>6, <2>1 DEF TrTakeOver, Fire
  <2>3. /\ Item \in ActionListItem
        /\ item.DelieverdObjectID = id
        /\ d \in Modules
    BY <2>1, <2>2, ItemActionType, DueItem DEF ActionInstance
  <2>4. \A i \in Nat : ListCarriers(i)' \subseteq ListCarriers(i)
    BY <2>2, <2>3, CarriersDone
  <2>5. \A i : i # id => QueuedIn(i)' = QueuedIn(i)
    BY <2>2, <2>3, QueuedSent, QueuedKept
  <2>6. ListCarriers(id) # {}
    <3>1. IsCarrier(trModule, Item.ActionNumber)
      BY <2>2 DEF IsCarrier, ItemAction
    <3>. QED
      BY <2>1, <2>2, <2>3, <3>1, CarriersDone
  <2>7. \A i : BeingCreated(i)' <=> BeingCreated(i)
    BY <1>1, <2>2 DEF BeingCreated
  <2>. QED
    BY <2>4, <2>5, <2>6, <2>7 DEF NewlyCarried, Carried
<1>. QED
  BY <1>2, <1>3, <1>4, <1>5, <1>6 DEF TrackingThread

LEMMA CarriedDetection ==
  ASSUME TypeOK, ObjectIDsUnique, RepeatInv, SlotsInv, ObjectDetectionThread
  PROVE  NewlyCarried
<1>1. PICK m, id : m = odModule /\ id = DeliveredID(odModule)
  OBVIOUS
<1>2. m \in Modules /\ UNCHANGED trVars
  BY <1>1 DEF TypeOK, OdTypeOK, ObjectDetectionThread, OdStart, OdAccept, OdDrop, OdDetect,
              OdReplace, OdAddActions, OdSkip
<1>3. CASE OdStart \/ OdSkip
  <2>1. UNCHANGED <<sharedVars, GlobalObjectCount>> /\ odPc' # "sending"
    BY <1>3, NextModuleType DEF OdStart, OdSkip
  <2>2. \A i \in Nat : ListCarriers(i)' = ListCarriers(i)
    BY <1>2, <2>1, CarriersUnmoved DEF sharedVars, trVars
  <2>. QED
    BY <2>1, <2>2, CarriedFrame DEF sharedVars
<1>4. CASE OdAccept \/ OdDrop
  <2>1. /\ Delivered(m)
        /\ ModuleQueue' = Received(m)
        /\ NextModule
    BY <1>1, <1>4 DEF OdAccept, OdDrop
  <2>2. odPc' # "sending"
    BY <2>1, NextModuleType
  <2>3. /\ m \in QueuedIn(id)
        /\ \A i : QueuedIn(i)' \subseteq QueuedIn(i)
    <3>1. id = DeliveredID(m)
      BY <1>1
    <3>. QED
      BY <1>2, <2>1, <3>1, QueuedReceived DEF RepeatInv
  <2>4. ASSUME NEW i \in Nat, i # id PROVE ListCarriers(i)' \subseteq ListCarriers(i)
    <3>1. CASE OdDrop
      <4>1. UNCHANGED ObjectInModuleList
        BY <3>1 DEF OdDrop
      <4>. QED
        BY <1>2, <4>1, CarriersUnmoved DEF trVars
    <3>2. CASE OdAccept
      <4>1. PICK list : list = AddAllActions(ObjectInModuleList[m], m, id, Now(m))
        OBVIOUS
      <4>2. ObjectInModuleList' = [ObjectInModuleList EXCEPT ![m] = list]
        BY <1>1, <3>2, <4>1 DEF OdAccept
      <4>3. OnlyFor(ObjectInModuleList[m], list, id)
        BY <4>1 DEF OnlyFor, AddAllActions, ListItem
      <4>. QED
        BY <1>2, <2>4, <4>2, <4>3, CarriersOfOthers
    <3>. QED
      BY <1>4, <3>1, <3>2
  <2>. QED
    BY <2>2, <2>3, <2>4 DEF NewlyCarried, Carried, BeingCreated
<1>5. CASE OdDetect \/ OdReplace
  <2>1. \E dropped : CreateObject(m, dropped)
    BY <1>1, <1>5 DEF OdDetect, OdReplace
  <2>2. UNCHANGED ObjectInModuleList
    BY <1>5 DEF OdDetect, OdReplace
  <2>3. \A i : BeingCreated(i)' => i = GlobalObjectID
    <3>1. PICK g : g = GlobalObjectID
      OBVIOUS
    <3>2. ObjectBuffer'[GlobalObjectCount'].ObjectID = g
      <4>1. FirstIsAlive /\ SlotsNumbered
        BY DEF SlotsInv
      <4>. QED
        BY <1>2, <2>1, <3>1, <4>1, CreatedSlot
    <3>. QED
      BY <3>1, <3>2 DEF BeingCreated
  <2>4. \A i : ListCarriers(i)' = ListCarriers(i)
    BY <1>2, <2>2, CarriersUnmoved DEF trVars
  <2>5. \A i : QueuedIn(i)' \subseteq QueuedIn(i)
    <3>1. CASE OdDetect
      <4>1. UNCHANGED ModuleQueue
        BY <3>1 DEF OdDetect
      <4>. QED
        BY <4>1, QueuedKept
    <3>2. CASE OdReplace
      <4>1. Delivered(m) /\ ModuleQueue' = Received(m) /\ id = DeliveredID(m)
        BY <1>1, <3>2 DEF OdReplace
      <4>. QED
        BY <1>2, <4>1, QueuedReceived DEF RepeatInv
    <3>. QED
      BY <1>5, <3>1, <3>2
  <2>. QED
    BY <2>3, <2>4, <2>5 DEF NewlyCarried, Carried
<1>6. CASE OdAddActions
  <2>1. PICK new : new = ObjectBuffer[GlobalObjectCount].ObjectID
    OBVIOUS
  <2>2. PICK list :
          list = IF addAll
                   THEN AddAllActions(ObjectInModuleList[m], m, new, Now(m))
                   ELSE AddOneAction(ObjectInModuleList[m], m, new, Now(m), Action_i + 1)
    OBVIOUS
  <2>3. /\ odPc = "sending"
        /\ ObjectInModuleList' = [ObjectInModuleList EXCEPT ![m] = list]
        /\ UNCHANGED ModuleQueue
        /\ NextModule
    BY <1>1, <1>6, <2>1, <2>2 DEF OdAddActions
  <2>4. odPc' # "sending"
    BY <2>3, NextModuleType
  <2>5. OnlyFor(ObjectInModuleList[m], list, new)
    BY <2>2 DEF OnlyFor, AddAllActions, AddOneAction, ListItem
  <2>6. \A i : i # new => ListCarriers(i)' \subseteq ListCarriers(i)
    BY <1>2, <2>3, <2>5, CarriersOfOthers
  <2>7. BeingCreated(new)
    BY <2>1, <2>3 DEF BeingCreated
  <2>. QED
    BY <2>3, <2>4, <2>6, <2>7, QueuedKept DEF NewlyCarried, Carried, BeingCreated
<1>. QED
  BY <1>3, <1>4, <1>5, <1>6 DEF ObjectDetectionThread

LEMMA CarriedNext ==
  ASSUME TypeOK, ObjectIDsUnique, RepeatInv, SlotsInv, [Next]_vars
  PROVE  NewlyCarried
<1>1. CASE ObjectDetectionThread
  BY <1>1, CarriedDetection
<1>2. CASE TrackingThread
  BY <1>2, CarriedTracking
<1>3. CASE /\ UNCHANGED <<ObjectInModuleList, ModuleQueue, odVars, trVars>>
           /\ \/ UNCHANGED ObjectBuffer
              \/ \E s \in Slots :
                   ObjectBuffer' = [ObjectBuffer EXCEPT ![s].ProcessedResult = FALSE]
  <2>1. \A i \in Nat : ListCarriers(i)' = ListCarriers(i)
    BY <1>3, CarriersUnmoved DEF trVars
  <2>2. \A s \in Slots : ObjectBuffer'[s].ObjectID = ObjectBuffer[s].ObjectID
    <3>1. ObjectBuffer \in [Slots -> ObjectInfo]
      BY DEF TypeOK, SharedTypeOK
    <3>2. CASE \E s \in Slots :
                 ObjectBuffer' = [ObjectBuffer EXCEPT ![s].ProcessedResult = FALSE]
      BY <3>1, <3>2 DEF ObjectInfo
    <3>3. CASE UNCHANGED ObjectBuffer
      BY <3>3
    <3>. QED
      BY <1>3, <3>2, <3>3
  <2>. QED
    BY <1>3, <2>1, <2>2, CarriedFrame DEF odVars
<1>4. World \/ ActionExecuteThread \/ UNCHANGED vars
        => UNCHANGED <<ObjectBuffer, ObjectInModuleList, ModuleQueue, odVars, trVars>>
  BY DEF World, Move, Capture, ClientsChange, ActionExecuteThread, sharedVars, vars
<1>5. (\E i \in 0 .. GlobalObjectID - 1 : STM32GetPushResult(i))
        => /\ UNCHANGED <<ObjectInModuleList, ModuleQueue, odVars, trVars>>
           /\ \/ UNCHANGED ObjectBuffer
              \/ \E s \in Slots :
                   ObjectBuffer' = [ObjectBuffer EXCEPT ![s].ProcessedResult = FALSE]
  BY DEF STM32GetPushResult
<1>. QED
  BY <1>1, <1>2, <1>3, <1>4, <1>5 DEF Next

\* The result of a live object is set once, by the PC.
LEMMA RequestKept ==
  ASSUME TypeOK, ObjectIDsUnique, SlotsInv, ResultsKept, RequestedNumbered,
         NEW id \in 0 .. GlobalObjectID - 1, STM32GetPushResult(id)
  PROVE  ResultsKept' /\ RequestedNumbered'
<1>1. ObjectBuffer \in [Slots -> ObjectInfo] /\ GlobalObjectID \in Nat
  BY DEF TypeOK, SharedTypeOK
<1>2. RequestedNumbered'
  BY <1>1 DEF STM32GetPushResult, RequestedNumbered
<1>3. PICK o \in 0 .. maxTrackingObjects :
        /\ FoundAt(id, o)
        /\ requested' = requested \cup {id}
        /\ IF o \in Slots
             THEN ObjectBuffer' = [ObjectBuffer EXCEPT ![o].ProcessedResult = FALSE]
             ELSE UNCHANGED ObjectBuffer
  BY DEF STM32GetPushResult
<1>4. \A s \in Slots :
        /\ ObjectBuffer'[s].ObjectID = ObjectBuffer[s].ObjectID
        /\ ObjectBuffer'[s].objectAliveFlag <=> ObjectBuffer[s].objectAliveFlag
        /\ s = o => ObjectBuffer'[s].ProcessedResult = FALSE
        /\ s # o => ObjectBuffer'[s] = ObjectBuffer[s]
  <2>1. CASE o \in Slots
    <3>1. ObjectBuffer' = [ObjectBuffer EXCEPT ![o].ProcessedResult = FALSE]
      BY <1>3, <2>1
    <3>. QED
      BY <1>1, <2>1, <3>1 DEF ObjectInfo
  <2>2. CASE o \notin Slots
    BY <1>3, <2>2
  <2>. QED
    BY <2>1, <2>2
<1>5. ASSUME NEW s \in AliveSlots
      PROVE  s \in Slots /\ (s = o <=> ObjectBuffer[s].ObjectID = id)
  <2>1. s \in Slots /\ s \in Nat /\ o \in Nat
    BY ModuleFacts, ConfigAssumption DEF AliveSlots
  <2>2. s = o => ObjectBuffer[s].ObjectID = id
    BY <1>3, <2>1, ConfigAssumption DEF FoundAt, Slots
  <2>3. ASSUME ObjectBuffer[s].ObjectID = id PROVE s = o
    <3>1. /\ o \in Slots
          /\ ObjectBuffer[o].ObjectID = id
          /\ \A t \in 0 .. o - 1 : ObjectBuffer[t].ObjectID # id
      BY <1>3, <2>1, <2>3 DEF FoundAt
    <3>2. ~(o < s)
      BY <2>3, <3>1 DEF SlotsInv, FirstIsAlive
    <3>3. s < o => s \in 0 .. o - 1
      BY <2>1
    <3>. QED
      BY <2>1, <2>3, <3>1, <3>2, <3>3
  <2>. QED
    BY <2>1, <2>2, <2>3
<1>6. AliveSlots' = AliveSlots
  BY <1>4 DEF AliveSlots
<1>7. ASSUME NEW s \in AliveSlots'
      PROVE  ObjectBuffer'[s].ProcessedResult = (ObjectBuffer'[s].ObjectID \notin requested')
  <2>1. /\ s \in AliveSlots
        /\ s \in Slots
        /\ s = o <=> ObjectBuffer[s].ObjectID = id
        /\ ObjectBuffer[s].ProcessedResult = (ObjectBuffer[s].ObjectID \notin requested)
    BY <1>5, <1>6 DEF ResultsKept
  <2>2. CASE s = o
    BY <1>3, <1>4, <2>1, <2>2
  <2>3. CASE s # o
    BY <1>3, <1>4, <2>1, <2>3
  <2>. QED
    BY <2>2, <2>3
<1>. QED
  BY <1>2, <1>7 DEF ResultsKept

\* No result has come yet for an object that is new.
LEMMA CreatedResult ==
  ASSUME TypeOK, ResultsKept, RequestedNumbered, NEW m, NEW dropped,
         CreateObject(m, dropped), UNCHANGED requested
  PROVE  ResultsKept' /\ RequestedNumbered'
<1>1. PICK s \in Slots :
        /\ ObjectBuffer' = [ObjectBuffer EXCEPT ![s] = NewObject(GlobalObjectID)]
        /\ GlobalObjectID' = NextID
  BY DEF CreateObject
<1>2. /\ ObjectBuffer \in [Slots -> ObjectInfo]
      /\ GlobalObjectID \in Nat
      /\ GlobalObjectID' = GlobalObjectID + 1
  BY <1>1 DEF TypeOK, SharedTypeOK, NextID
<1>3. RequestedNumbered'
  BY <1>2 DEF RequestedNumbered
<1>4. GlobalObjectID \notin requested
  BY <1>2 DEF RequestedNumbered
<1>5. ASSUME NEW t \in AliveSlots'
      PROVE  ObjectBuffer'[t].ProcessedResult = (ObjectBuffer'[t].ObjectID \notin requested')
  <2>1. t \in Slots /\ ObjectBuffer'[t].objectAliveFlag
    BY DEF AliveSlots
  <2>2. CASE t = s
    <3>1. /\ ObjectBuffer'[t].ProcessedResult = TRUE
          /\ ObjectBuffer'[t].ObjectID = GlobalObjectID
      BY <1>1, <1>2, <2>2 DEF NewObject
    <3>. QED
      BY <1>4, <3>1
  <2>3. CASE t # s
    <3>1. ObjectBuffer'[t] = ObjectBuffer[t]
      BY <1>1, <1>2, <2>1, <2>3
    <3>2. t \in AliveSlots
      BY <2>1, <3>1 DEF AliveSlots
    <3>. QED
      BY <3>1, <3>2 DEF ResultsKept
  <2>. QED
    BY <2>2, <2>3
<1>. QED
  BY <1>3, <1>5 DEF ResultsKept

LEMMA NextResults ==
  ASSUME TypeOK, ObjectIDsUnique, SlotsInv, ResultsKept, RequestedNumbered, [Next]_vars
  PROVE  ResultsKept' /\ RequestedNumbered'
<1>1. CASE UNCHANGED <<ObjectBuffer, GlobalObjectID, requested>>
  BY <1>1 DEF ResultsKept, RequestedNumbered, AliveSlots
<1>2. CASE World \/ ActionExecuteThread \/ UNCHANGED vars
  BY <1>1, <1>2 DEF World, Move, Capture, ClientsChange, ActionExecuteThread, sharedVars,
                    history, vars
<1>3. CASE ObjectDetectionThread
  <2>1. CASE OdDetect \/ OdReplace
    <3>1. (\E m, dropped : CreateObject(m, dropped)) /\ UNCHANGED requested
      BY <2>1 DEF OdDetect, OdReplace
    <3>. QED
      BY <3>1, CreatedResult
  <2>2. CASE OdStart \/ OdSkip
    BY <1>1, <2>2 DEF OdStart, OdSkip, sharedVars, history
  <2>3. CASE OdAccept \/ OdDrop \/ OdAddActions
    BY <1>1, <2>3 DEF OdAccept, OdDrop, OdAddActions
  <2>. QED
    BY <1>3, <2>1, <2>2, <2>3 DEF ObjectDetectionThread
<1>4. CASE TrackingThread
  <2>1. CASE TrFree
    <3>1. ObjectBuffer \in [Slots -> ObjectInfo]
      BY DEF TypeOK, SharedTypeOK
    <3>2. /\ \/ UNCHANGED ObjectBuffer
             \/ ObjectBuffer' = [ObjectBuffer EXCEPT ![object_i].objectAliveFlag = FALSE]
          /\ UNCHANGED <<GlobalObjectID, requested>>
      BY <2>1 DEF TrFree, Freed
    <3>3. \A s \in Slots :
            /\ ObjectBuffer'[s].ObjectID = ObjectBuffer[s].ObjectID
            /\ ObjectBuffer'[s].ProcessedResult = ObjectBuffer[s].ProcessedResult
            /\ ObjectBuffer'[s].objectAliveFlag => ObjectBuffer[s].objectAliveFlag
      BY <3>1, <3>2 DEF ObjectInfo
    <3>. QED
      BY <3>2, <3>3 DEF ResultsKept, RequestedNumbered, AliveSlots
  <2>2. CASE ~TrFree
    BY <1>1, <1>4, <2>2
    DEF TrackingThread, TrStart, TrPass, TrOutput, TrRequestMachineData, TrTakeOver,
        TrFindObject, TrPush, TrPushOutOfBounds, TrClear, sharedVars, history
  <2>. QED
    BY <2>1, <2>2
<1>5. CASE \E id \in 0 .. GlobalObjectID - 1 : STM32GetPushResult(id)
  BY <1>5, RequestKept
<1>. QED
  BY <1>2, <1>3, <1>4, <1>5 DEF Next

\* The object whose push-out is under way is carried by its entry.
LEMMA ItemCarried ==
  ASSUME TypeOK, ObjectIDsUnique, SlotsInv, trPc \in {"found", "decided"}
  PROVE  /\ Item.ObjectID \in Nat
         /\ Item.ObjectID < GlobalObjectID
         /\ <<trModule, trAction>> \in ListCarriers(Item.ObjectID)
<1>1. /\ trModule \in Modules
      /\ trAction \in Slots
      /\ Item = ObjectInModuleList[trModule][trAction]
      /\ Item \in ActionListItem
      /\ Item # NoAction
  BY ConfigAssumption DEF TypeOK, TrTypeOK, Item
<1>2. Item.ObjectID \in Nat /\ Item.ObjectID < GlobalObjectID
  BY <1>1 DEF ActionListItem, ObjectIDsUnique, NumberedEntries
<1>3. Pending(trModule, trAction)
  BY <1>1 DEF Pending
<1>4. IsCarrier(trModule, Item.ActionNumber)
  BY DEF SlotsInv, FoundSlot, IsCarrier, ItemAction
<1>. QED
  BY <1>1, <1>2, <1>3, <1>4 DEF ListCarriers

\* Where no slot was overwritten, the slot found is the object's own.
LEMMA OwnSlot ==
  ASSUME TypeOK, ObjectIDsUnique, SlotsInv, CarryInv, NoneFreed,
         trPc \in {"found", "decided"}, LostFor({"overwritten"}) = {}
  PROVE  object_i \in AliveSlots /\ ObjectBuffer[object_i].ObjectID = Item.ObjectID
<1>1. Item.ObjectID \in Nat /\ Carried(Item.ObjectID)
  BY ItemCarried DEF Carried
<1>2. ~Stolen(Item.ObjectID)
  BY DEF NoneFreed, Stolen, LostFor, StolenReasons
<1>3. HasSlot(Item.ObjectID)
  BY <1>1, <1>2 DEF CarryInv
<1>. QED
  BY <1>3 DEF HasSlot, SlotsInv, FoundSlot

\* A step that records an object as lost, for a reason of its own.
LEMMA LostOne ==
  ASSUME NEW id, NEW r, NEW more, more \subseteq {<<id, r>>}, lost' = lost \cup more
  PROVE  /\ lost \subseteq lost'
         /\ \A y \in lost' \ lost : y[2] = r
OBVIOUS

\* What a step adds to lost, other than the push-out of another object.
LEMMA LostOtherwise ==
  ASSUME TypeOK, SlotsInv, [Next]_vars, ~TrFree
  PROVE  /\ lost \subseteq lost'
         /\ \A y \in lost' \ lost : y[2] # "freed by another"
<1>1. CASE UNCHANGED lost
  BY <1>1
<1>2. CASE World \/ ActionExecuteThread \/ UNCHANGED vars
  BY <1>1, <1>2 DEF World, Move, Capture, ClientsChange, ActionExecuteThread, history, vars
<1>3. CASE ObjectDetectionThread
  <2>1. CASE OdStart \/ OdSkip
    BY <1>1, <2>1 DEF OdStart, OdSkip, history
  <2>2. CASE OdDetect \/ OdReplace
    <3>1. PICK m, id, r :
            m = odModule /\ id = DeliveredID(odModule) /\ r = "window"
      OBVIOUS
    <3>2. PICK dropped : /\ CreateObject(m, dropped)
                         /\ \A y \in dropped : y[2] = r
      <4>1. CASE OdDetect
        <5>1. PICK none : none = {}
          OBVIOUS
        <5>2. CreateObject(m, none)
          BY <3>1, <4>1, <5>1 DEF OdDetect
        <5>. QED
          BY <5>1, <5>2
      <4>2. CASE OdReplace
        <5>1. CreateObject(m, {<<id, r>>})
          BY <3>1, <4>2 DEF OdReplace
        <5>2. \A y \in {<<id, r>>} : y[2] = r
          OBVIOUS
        <5>. QED
          BY <5>1, <5>2
      <4>. QED
        BY <2>2, <4>1, <4>2
    <3>3. m \in Modules /\ FirstIsAlive /\ SlotsNumbered
      BY <3>1 DEF TypeOK, OdTypeOK, SlotsInv
    <3>4. PICK g : g = GlobalObjectID
      OBVIOUS
    <3>5. \E more : /\ lost' = lost \cup more
                    /\ \A y \in more : y \in dropped \/ y[2] = "overwritten"
      BY <3>2, <3>3, <3>4, CreatedSlot
    <3>. QED
      BY <3>1, <3>2, <3>5
  <2>3. CASE OdDrop \/ OdAccept \/ OdAddActions
    <3>1. \E id, r, more :
            /\ r # "freed by another"
            /\ more \subseteq {<<id, r>>}
            /\ lost' = lost \cup more
      <4>1. CASE OdDrop
        <5>1. PICK id, r : id = DeliveredID(odModule) /\ r = DropReason(odModule)
          OBVIOUS
        <5>2. lost' = lost \cup {<<id, r>>}
          BY <4>1, <5>1 DEF OdDrop
        <5>3. r # "freed by another"
          BY <5>1 DEF DropReason
        <5>. QED
          BY <5>2, <5>3
      <4>2. CASE OdAccept
        <5>1. PICK id, r : id = DeliveredID(odModule) /\ r = "list full"
          OBVIOUS
        <5>2. \E list : lost' = lost \cup LostUnlessCarried(list, odModule, id, r)
          BY <4>2, <5>1 DEF OdAccept
        <5>3. \A list : LostUnlessCarried(list, odModule, id, r) \subseteq {<<id, r>>}
          BY DEF LostUnlessCarried
        <5>4. r # "freed by another"
          BY <5>1
        <5>. QED
          BY <5>2, <5>3, <5>4
      <4>3. CASE OdAddActions
        <5>1. PICK id, r :
                /\ id = ObjectBuffer[GlobalObjectCount].ObjectID
                /\ r = IF addAll THEN "list full" ELSE "stale action"
          OBVIOUS
        <5>2. \E list : lost' = lost \cup LostUnlessCarried(list, odModule, id, r)
          BY <4>3, <5>1 DEF OdAddActions
        <5>3. \A list : LostUnlessCarried(list, odModule, id, r) \subseteq {<<id, r>>}
          BY DEF LostUnlessCarried
        <5>4. r # "freed by another"
          BY <5>1
        <5>. QED
          BY <5>2, <5>3, <5>4
      <4>. QED
        BY <2>3, <4>1, <4>2, <4>3
    <3>. QED
      BY <3>1, LostOne
  <2>. QED
    BY <1>3, <2>1, <2>2, <2>3 DEF ObjectDetectionThread
<1>4. CASE TrackingThread
  <2>1. CASE TrTakeOver
    <3>1. PICK id, r : id = Item.ObjectID /\ r = "queue full"
      OBVIOUS
    <3>2. UNCHANGED lost \/ lost' = lost \cup {<<id, r>>}
      BY <2>1, <3>1 DEF TrTakeOver
    <3>3. r # "freed by another"
      BY <3>1
    <3>. QED
      BY <3>2, <3>3, LostOne
  <2>2. CASE ~TrTakeOver
    BY <1>1, <1>4, <2>2
    DEF TrackingThread, TrStart, TrPass, TrOutput, TrRequestMachineData, TrFindObject,
        TrPush, TrPushOutOfBounds, TrClear, history
  <2>. QED
    BY <2>1, <2>2
<1>5. CASE \E id \in 0 .. GlobalObjectID - 1 : STM32GetPushResult(id)
  BY <1>1, <1>5 DEF STM32GetPushResult
<1>. QED
  BY <1>2, <1>3, <1>4, <1>5 DEF Next

LEMMA NextFreed ==
  ASSUME TypeOK, ObjectIDsUnique, SlotsInv, CarryInv, NoneFreed, [Next]_vars
  PROVE  NoneFreed'
<1>1. CASE TrFree
  <2>1. ASSUME LostFor({"overwritten"}) = {} PROVE UNCHANGED lost
    <3>1. /\ object_i \in Slots
          /\ ObjectBuffer[object_i].ObjectID = Item.ObjectID
      <4>1. trPc \in {"found", "decided"}
        BY <1>1 DEF TrFree
      <4>. QED
        BY <2>1, <4>1, OwnSlot DEF AliveSlots
    <3>. QED
      BY <1>1, <3>1 DEF TrFree
  <2>2. lost \subseteq lost'
    BY <1>1 DEF TrFree
  <2>. QED
    BY <2>1, <2>2 DEF NoneFreed, LostFor
<1>2. CASE ~TrFree
  <2>1. lost \subseteq lost' /\ \A y \in lost' \ lost : y[2] # "freed by another"
    BY <1>2, LostOtherwise
  <2>. QED
    BY <2>1 DEF NoneFreed, LostFor
<1>. QED
  BY <1>1, <1>2

\* Steps that leave Tracking in the middle of a push-out where it is.
LEMMA PushStays ==
  ASSUME TypeOK, [Next]_vars, trPc = "decided", ~TrFree
  PROVE  trPc' = "decided" /\ Item' = Item
<1>1. ~TrackingThread
  BY DEF TrackingThread, TrStart, TrPass, TrOutput, TrRequestMachineData, TrTakeOver, Fire,
         TrFindObject, TrPush, TrPushOutOfBounds, TrClear
<1>2. UNCHANGED trVars
  BY <1>1 DEF Next, World, Move, Capture, ClientsChange, ObjectDetectionThread, OdStart,
              OdAccept, OdDrop, OdDetect, OdReplace, OdAddActions, OdSkip,
              STM32GetPushResult, ActionExecuteThread, vars
<1>3. \A m \in Modules, s \in Slots :
        \/ ObjectInModuleList'[m][s] = ObjectInModuleList[m][s]
        \/ ObjectInModuleList[m][s] = NoAction
  <2>1. CASE UNCHANGED ObjectInModuleList
    BY <2>1
  <2>2. CASE OdAccept
    <3>1. PICK list :
            /\ ObjectInModuleList' = [ObjectInModuleList EXCEPT ![odModule] = list]
            /\ \A s \in Slots :
                 \/ list[s] = ObjectInModuleList[odModule][s]
                 \/ ObjectInModuleList[odModule][s] = NoAction
      BY <2>2 DEF OdAccept, AddAllActions
    <3>. QED
      BY <3>1 DEF TypeOK, SharedTypeOK
  <2>3. CASE OdAddActions
    <3>1. PICK list :
            /\ ObjectInModuleList' = [ObjectInModuleList EXCEPT ![odModule] = list]
            /\ \A s \in Slots :
                 \/ list[s] = ObjectInModuleList[odModule][s]
                 \/ ObjectInModuleList[odModule][s] = NoAction
      BY <2>3 DEF OdAddActions, AddAllActions, AddOneAction
    <3>. QED
      BY <3>1 DEF TypeOK, SharedTypeOK
  <2>. QED
    BY <1>1, <2>1, <2>2, <2>3
    DEF Next, World, Move, Capture, ClientsChange, ObjectDetectionThread, OdStart, OdDrop,
        OdDetect, OdReplace, OdSkip, STM32GetPushResult, ActionExecuteThread, sharedVars, vars
<1>. QED
  BY <1>2, <1>3, ItemStays DEF trVars

\* Once its push-out is done, nothing carries an object.
LEMMA FreedUncarried ==
  ASSUME TypeOK, ObjectIDsUnique, SlotsInv, CarryInv, TrFree, NEW id, id = Item.ObjectID
  PROVE  ~Carried(id)'
<1>1. PICK x : x = <<trModule, trAction>>
  OBVIOUS
<1>2. /\ trPc = "decided"
      /\ trPc' = "clear"
      /\ Item \in ActionListItem
      /\ UNCHANGED <<ObjectInModuleList, ModuleQueue, odPc, GlobalObjectCount, trModule,
                     trAction>>
  BY DEF TrFree, odVars, TypeOK, TrTypeOK
<1>3. id \in Nat /\ x \in ListCarriers(id) /\ OnePlace(id)
  BY <1>1, <1>2, ItemCarried DEF CarryInv
<1>4. ListCarriers(id)' = {}
  <2>1. ListCarriers(id)' = ListCarriers(id) \ {x}
    BY <1>1, <1>2, CarriersDone
  <2>. QED
    BY <1>3, <2>1 DEF OnePlace
<1>5. QueuedIn(id)' = {}
  BY <1>2, <1>3, QueuedKept DEF OnePlace
<1>6. ~BeingCreated(id)'
  <2>1. ObjectBuffer \in [Slots -> ObjectInfo]
    BY DEF TypeOK, SharedTypeOK
  <2>2. \/ UNCHANGED ObjectBuffer
        \/ ObjectBuffer' = [ObjectBuffer EXCEPT ![object_i].objectAliveFlag = FALSE]
    BY DEF TrFree, Freed
  <2>3. \A s \in Slots : ObjectBuffer'[s].ObjectID = ObjectBuffer[s].ObjectID
    BY <2>1, <2>2 DEF ObjectInfo
  <2>4. ~BeingCreated(id)
    BY <1>3 DEF OnePlace
  <2>. QED
    BY <1>2, <2>3, <2>4 DEF BeingCreated, TypeOK, OdTypeOK
<1>. QED
  BY <1>4, <1>5, <1>6 DEF Carried

LEMMA NextPushed ==
  ASSUME TypeOK, TypeOK', ObjectIDsUnique, RepeatInv, SlotsInv, CarryInv, PushedDone,
         [Next]_vars
  PROVE  PushedDone'
<1>1. NewlyCarried
  BY CarriedNext
<1>2. /\ GlobalObjectID \in Nat
      /\ GlobalObjectID' \in {GlobalObjectID, GlobalObjectID + 1}
  <2>1. GlobalObjectID' \in {GlobalObjectID, NextID}
    BY DEF Next, World, Move, Capture, ClientsChange, ObjectDetectionThread, OdStart,
           OdAccept, OdDrop, OdDetect, OdReplace, OdAddActions, OdSkip, CreateObject,
           TrackingThread, TrStart, TrPass, TrOutput, TrRequestMachineData, TrTakeOver,
           TrFindObject, TrPush, TrPushOutOfBounds, TrFree, TrClear, STM32GetPushResult,
           ActionExecuteThread, sharedVars, vars
  <2>. QED
    BY <2>1 DEF NextID, TypeOK, SharedTypeOK
<1>3. CASE TrPush \/ TrPushOutOfBounds
  <2>1. /\ trPc = "found"
        /\ trPc' = "decided"
        /\ UNCHANGED Item
        /\ pushed' \subseteq pushed \cup {Item.ObjectID}
    BY <1>3 DEF TrPush, TrPushOutOfBounds, sharedVars, Item
  <2>2. Item.ObjectID \in Nat /\ Item.ObjectID < GlobalObjectID
    BY <2>1, ItemCarried
  <2>3. ASSUME NEW i \in pushed'
        PROVE  /\ i \in Nat
               /\ i < GlobalObjectID'
               /\ Carried(i)' => trPc' = "decided" /\ Item'.ObjectID = i
    <3>1. CASE i = Item.ObjectID
      BY <1>2, <2>1, <2>2, <3>1
    <3>2. CASE i \in pushed
      <4>1. i \in Nat /\ i < GlobalObjectID /\ ~Carried(i)
        BY <2>1, <3>2 DEF PushedDone
      <4>2. i < GlobalObjectID' /\ i # GlobalObjectID
        BY <1>2, <4>1
      <4>. QED
        BY <1>1, <4>1, <4>2 DEF NewlyCarried
    <3>. QED
      BY <2>1, <2>3, <3>1, <3>2
  <2>. QED
    BY <2>3 DEF PushedDone
<1>4. CASE ~TrPush /\ ~TrPushOutOfBounds
  <2>1. UNCHANGED pushed
    BY <1>4 DEF Next, World, Move, Capture, ClientsChange, ObjectDetectionThread, OdStart,
           OdAccept, OdDrop, OdDetect, OdReplace, OdAddActions, OdSkip, CreateObject,
           TrackingThread, TrStart, TrPass, TrOutput, TrRequestMachineData, TrTakeOver,
           TrFindObject, TrFree, TrClear, STM32GetPushResult,
           ActionExecuteThread, history, vars
  <2>2. ASSUME NEW i \in pushed
        PROVE  /\ i \in Nat
               /\ i < GlobalObjectID'
               /\ Carried(i)' => trPc' = "decided" /\ Item'.ObjectID = i
    <3>1. /\ i \in Nat
          /\ i < GlobalObjectID
          /\ Carried(i) => trPc = "decided" /\ Item.ObjectID = i
      BY <2>2 DEF PushedDone
    <3>2. i < GlobalObjectID' /\ i # GlobalObjectID
      BY <1>2, <3>1
    <3>3. ASSUME Carried(i)' PROVE trPc' = "decided" /\ Item'.ObjectID = i
      <4>1. trPc = "decided" /\ Item.ObjectID = i
        BY <1>1, <3>1, <3>2, <3>3 DEF NewlyCarried
      <4>2. ~TrFree
        BY <3>3, <4>1, FreedUncarried
      <4>. QED
        BY <4>1, <4>2, PushStays
    <3>. QED
      BY <3>1, <3>2, <3>3
  <2>. QED
    BY <2>1, <2>2 DEF PushedDone
<1>. QED
  BY <1>3, <1>4

\* The result found is that of the object, when no slot was overwritten.
LEMMA PushDecided ==
  ASSUME TypeOK, ObjectIDsUnique, SlotsInv, CarryInv, PushInv, [Next]_vars,
         trPc = "found", trPc' = "decided", LostFor({"overwritten"}) = {}
  PROVE  Item.ObjectID \in pushed' <=> Item.ObjectID \in requested
<1>1. PICK id : id = Item.ObjectID
  OBVIOUS
<1>2. object_i \in AliveSlots /\ object_i \in Slots /\ ObjectBuffer[object_i].ObjectID = id
  BY <1>1, OwnSlot DEF PushInv, AliveSlots
<1>3. id \notin pushed
  <2>1. id \in Nat /\ Carried(id)
    BY <1>1, ItemCarried DEF Carried
  <2>. QED
    BY <2>1 DEF PushInv, PushedDone
<1>4. object_i # maxTrackingObjects
  BY <1>2, ConfigAssumption DEF Slots
<1>5. TrPush
  BY <1>4 DEF Next, World, Move, Capture, ClientsChange, ObjectDetectionThread, OdStart,
         OdAccept, OdDrop, OdDetect, OdReplace, OdAddActions, OdSkip, TrackingThread,
         TrStart, TrPass, TrOutput, TrRequestMachineData, TrTakeOver, Fire, TrFindObject,
         TrPushOutOfBounds, TrFree, TrClear, STM32GetPushResult, ActionExecuteThread,
         trVars, vars
<1>6. ObjectBuffer[object_i].ProcessedResult = (id \notin requested)
  BY <1>2 DEF PushInv, ResultsKept
<1>7. pushed' = IF id \in requested THEN pushed \cup {id} ELSE pushed
  BY <1>1, <1>5, <1>6 DEF TrPush
<1>. QED
  BY <1>1, <1>3, <1>7

LEMMA InitPush == Init => PushInv
BY DEF Init, PushInv, ResultsKept, RequestedNumbered, PushedDone, NoneFreed, AliveSlots

\* Where every section has one action at most that carries objects on, the
\* pusher is commanded for an object exactly when the PC's result for it had
\* come (DataProcess.c:129, Tracking.c:132-140), as long as CreateObject has
\* overwritten no live slot: the search by ObjectID ends at the object's own
\* slot, and no object comes to its push-out twice.
THEOREM PushesCorrect ==
  ASSUME OneWayLine, OneCarrierLine
  PROVE  Spec => PushFollowsResult
<1>1. Init => SlotsInv /\ CarryInv /\ PushInv
  BY InitCarry, InitPush
<1>2. TypeOK /\ TypeOK' /\ ObjectIDsUnique /\ RepeatInv /\ SlotsInv /\ CarryInv
        /\ [Next]_vars
        => SlotsInv' /\ CarryInv'
  BY NextCarry
<1>3. TypeOK /\ TypeOK' /\ ObjectIDsUnique /\ RepeatInv /\ SlotsInv /\ CarryInv /\ PushInv
        /\ [Next]_vars
        => PushInv'
  BY NextResults, NextPushed, NextFreed DEF PushInv
<1>4. TypeOK /\ ObjectIDsUnique /\ SlotsInv /\ CarryInv /\ PushInv /\ [Next]_vars
        => [(trPc = "found" /\ trPc' = "decided" /\ LostFor({"overwritten"}) = {})
              => (Item.ObjectID \in pushed' <=> Item.ObjectID \in requested)]_vars
  BY PushDecided
<1>5. TypeOK /\ TypeOK' /\ ObjectIDsUnique /\ ReachedInv /\ RepeatInv /\ [Next]_vars
        => RepeatInv'
  BY NextRepeat
<1>. QED
  BY <1>1, <1>2, <1>3, <1>4, <1>5, InitType, NextType, InitIDs, NextIDs, InitReached,
     NextReached, InitRepeat, PTL DEF Spec, PushFollowsResult

-----------------------------------------------------------------------------
(* The places of ConveyorLine.                                             *)

\* The place of object o, by what carries it.
PlaceIs(o) ==
  IF o < GlobalObjectID
    THEN /\ BeingCreated(o) => PlaceOf(o) = <<"at", odModule>>
         /\ \A x \in ListCarriers(o) : PlaceOf(o) = <<"at", x[1]>>
         /\ \A m \in QueuedIn(o) : PlaceOf(o) = <<"on the way", m>>
         /\ ~Carried(o) => PlaceOf(o) = IF Dropped(o) THEN <<"lost">> ELSE <<"pushed out">>
    ELSE PlaceOf(o) = <<"unborn">>

PlacesKnown == \A o \in Nat : OnePlace(o) /\ PlaceIs(o)

PlacesTyped ==
  \A o \in Nat : /\ PlaceOf(o) \in Line!Places
                 /\ o < GlobalObjectID => PlaceOf(o) # <<"unborn">>

LEMMA PlacesDistinct ==
  ASSUME NEW m
  PROVE  /\ <<"at", m>> \notin {<<"unborn">>, <<"lost">>, <<"pushed out">>}
         /\ <<"on the way", m>> \notin {<<"unborn">>, <<"lost">>, <<"pushed out">>}
         /\ <<"unborn">> \notin {<<"lost">>, <<"pushed out">>}
OBVIOUS

LEMMA PlaceFacts ==
  TypeOK /\ QueuesBounded /\ CarryInv => PlacesKnown /\ PlacesTyped
<1>. SUFFICES ASSUME TypeOK, QueuesBounded, CarryInv, NEW o \in Nat
              PROVE  /\ OnePlace(o)
                     /\ PlaceIs(o)
                     /\ PlaceOf(o) \in Line!Places
                     /\ o < GlobalObjectID => PlaceOf(o) # <<"unborn">>
  BY DEF PlacesKnown, PlacesTyped
<1>1. OnePlace(o) /\ GlobalObjectID \in Nat /\ odModule \in Modules
  BY DEF CarryInv, TypeOK, SharedTypeOK, OdTypeOK
<1>2. \A m \in Modules : <<"at", m>> \in Line!Places /\ <<"on the way", m>> \in Line!Places
  BY DEF Line!Places, Line!At, Line!On
<1>3. /\ <<"unborn">> \in Line!Places
      /\ <<"lost">> \in Line!Places
      /\ <<"pushed out">> \in Line!Places
  BY DEF Line!Places, Line!Gone, Line!Unborn, Line!Lost, Line!PushedOut
<1>4. CASE ~(o < GlobalObjectID)
  <2>1. PlaceOf(o) = <<"unborn">>
    <3>1. o >= GlobalObjectID
      BY <1>1, <1>4
    <3>. QED
      BY <3>1, Zenon DEF PlaceOf
  <2>. QED
    BY <1>1, <1>3, <1>4, <2>1 DEF PlaceIs
<1>5. CASE o < GlobalObjectID /\ BeingCreated(o)
  <2>1. PlaceOf(o) = <<"at", odModule>>
    BY <1>1, <1>5 DEF PlaceOf
  <2>2. ListCarriers(o) = {} /\ QueuedIn(o) = {} /\ Carried(o)
    BY <1>1, <1>5 DEF OnePlace, Carried
  <2>3. PlaceIs(o)
    BY <1>5, <2>1, <2>2 DEF PlaceIs
  <2>. QED
    BY <1>1, <1>2, <2>1, <2>3, PlacesDistinct
<1>6. CASE o < GlobalObjectID /\ ~BeingCreated(o) /\ ListCarriers(o) # {}
  <2>1. PICK y : y = CHOOSE x \in ListCarriers(o) : TRUE
    OBVIOUS
  <2>2. y \in ListCarriers(o)
    BY <1>6, <2>1
  <2>3. PlaceOf(o) = <<"at", y[1]>>
    BY <1>1, <1>6, <2>1 DEF PlaceOf
  <2>4. \A x \in ListCarriers(o) : PlaceOf(o) = <<"at", x[1]>>
    <3>1. \A x \in ListCarriers(o) : x = y
      BY <1>1, <2>2 DEF OnePlace
    <3>. QED
      BY <2>3, <3>1
  <2>5. QueuedIn(o) = {} /\ Carried(o)
    BY <1>1, <1>6 DEF OnePlace, Carried
  <2>6. PlaceIs(o)
    BY <1>6, <2>4, <2>5 DEF PlaceIs
  <2>7. y[1] \in Modules
    BY <2>2 DEF ListCarriers
  <2>. QED
    BY <1>1, <1>2, <2>3, <2>6, <2>7, PlacesDistinct
<1>7. CASE /\ o < GlobalObjectID /\ ~BeingCreated(o) /\ ListCarriers(o) = {}
           /\ QueueCarriers(o) # {}
  <2>1. PICK y : y = CHOOSE x \in QueueCarriers(o) : TRUE
    OBVIOUS
  <2>2. y[1] \in QueuedIn(o)
    BY <1>7, <2>1, QueueCarriersOf
  <2>3. PlaceOf(o) = <<"on the way", y[1]>>
    <3>1. ~(o >= GlobalObjectID)
      BY <1>1, <1>7
    <3>. QED
      BY <1>7, <2>1, <3>1, Zenon DEF PlaceOf
  <2>4. \A m \in QueuedIn(o) : PlaceOf(o) = <<"on the way", m>>
    <3>1. \A m \in QueuedIn(o) : m = y[1]
      BY <1>1, <2>2 DEF OnePlace
    <3>. QED
      BY <2>3, <3>1
  <2>5. Carried(o)
    BY <2>2 DEF Carried
  <2>6. PlaceIs(o)
    BY <1>7, <2>4, <2>5 DEF PlaceIs
  <2>7. y[1] \in Modules
    BY <2>2 DEF QueuedIn
  <2>. QED
    BY <1>1, <1>2, <2>3, <2>6, <2>7, PlacesDistinct
<1>8. CASE /\ o < GlobalObjectID /\ ~BeingCreated(o) /\ ListCarriers(o) = {}
           /\ QueueCarriers(o) = {}
  <2>1. PlaceOf(o) = IF Dropped(o) THEN <<"lost">> ELSE <<"pushed out">>
    <3>1. ~(o >= GlobalObjectID)
      BY <1>1, <1>8
    <3>. QED
      BY <1>8, <3>1, Zenon DEF PlaceOf, Dropped
  <2>2. QueuedIn(o) = {}
    BY <1>8, QueueCarriersOf
  <2>3. PlaceIs(o)
    BY <1>8, <2>1, <2>2 DEF PlaceIs
  <2>4. PlaceOf(o) # <<"unborn">>
    BY <2>1, PlacesDistinct
  <2>. QED
    BY <1>1, <1>3, <2>1, <2>3, <2>4
<1>. QED
  BY <1>4, <1>5, <1>6, <1>7, <1>8

LEMMA PlaceFactsNext ==
  TypeOK' /\ QueuesBounded' /\ CarryInv' => PlacesKnown' /\ PlacesTyped'
BY PlaceFacts, PTL

\* What carries object o, and where it would be if nothing did, is the same.
SameCarriers(o) ==
  /\ ListCarriers(o)' = ListCarriers(o)
  /\ QueuedIn(o)' = QueuedIn(o)
  /\ BeingCreated(o)' <=> BeingCreated(o)
  /\ BeingCreated(o) => odModule' = odModule
  /\ Dropped(o)' <=> Dropped(o)
  /\ o < GlobalObjectID' <=> o < GlobalObjectID

Stays(o) == PlaceOf(o)' = PlaceOf(o)

LEMMA PlaceStays ==
  ASSUME PlacesKnown, PlacesKnown', NEW o \in Nat, SameCarriers(o)
  PROVE  Stays(o)
<1>1. PlaceIs(o) /\ PlaceIs(o)'
  BY DEF PlacesKnown
<1>2. CASE ~(o < GlobalObjectID)
  BY <1>1, <1>2 DEF SameCarriers, PlaceIs, Stays
<1>3. CASE o < GlobalObjectID /\ ~Carried(o)
  BY <1>1, <1>3 DEF SameCarriers, PlaceIs, Stays, Carried
<1>4. CASE o < GlobalObjectID /\ BeingCreated(o)
  BY <1>1, <1>4 DEF SameCarriers, PlaceIs, Stays
<1>5. CASE o < GlobalObjectID /\ ListCarriers(o) # {}
  <2>1. PICK x \in ListCarriers(o) : TRUE
    BY <1>5
  <2>2. PlaceOf(o) = <<"at", x[1]>> /\ PlaceOf(o)' = <<"at", x[1]>>
    BY <1>1, <1>5, <2>1 DEF SameCarriers, PlaceIs
  <2>. QED
    BY <2>2 DEF Stays
<1>6. CASE o < GlobalObjectID /\ QueuedIn(o) # {}
  <2>1. PICK m \in QueuedIn(o) : TRUE
    BY <1>6
  <2>2. PlaceOf(o) = <<"on the way", m>> /\ PlaceOf(o)' = <<"on the way", m>>
    BY <1>1, <1>6, <2>1 DEF SameCarriers, PlaceIs
  <2>. QED
    BY <2>2 DEF Stays
<1>. QED
  BY <1>2, <1>3, <1>4, <1>5, <1>6 DEF Carried

LEMMA DroppedSame ==
  ASSUME NEW o, lost \subseteq lost',
         \A y \in lost' \ lost : y[1] # o \/ y[2] \notin DropReasons
  PROVE  Dropped(o)' <=> Dropped(o)
BY DEF Dropped, LostFor

-----------------------------------------------------------------------------
(* How a step moves the objects.                                           *)

Moves(o, here, there) == PlaceOf(o) = here /\ PlaceOf(o)' = there

Appears(o, m) ==
  /\ Moves(o, <<"unborn">>, <<"at", m>>)
  /\ \A p \in Nat : p < o => PlaceOf(p) # <<"unborn">>

Moved(o) ==
  \/ \E m \in Modules : Appears(o, m)
  \/ \E x \in TakeOvers : Moves(o, <<"at", x[1]>>, <<"on the way", x[2]>>)
  \/ \E m \in Modules : Moves(o, <<"on the way", m>>, <<"at", m>>)
  \/ \E m \in Pushers : Moves(o, <<"at", m>>, <<"pushed out">>)
  \/ \E m \in Modules : \/ Moves(o, <<"at", m>>, <<"lost">>)
                        \/ Moves(o, <<"on the way", m>>, <<"lost">>)

\* Only object id moves, if any.
OneMoves(id) == \A o \in Nat : o # id \/ ~Moved(o) => Stays(o)

\* Section m takes what it sees for object new, and gives up object id.
Replaced(id, new, m) ==
  /\ \A o \in Nat : o # id /\ o # new => Stays(o)
  /\ Moves(id, <<"on the way", m>>, <<"lost">>)
  /\ Appears(new, m)

LineStep ==
  \/ \E id : OneMoves(id)
  \/ \E id, new : \E m \in Modules : Replaced(id, new, m)

LEMMA OneMoved ==
  ASSUME PlacesKnown, PlacesKnown', NEW id,
         \A o \in Nat : o # id => SameCarriers(o),
         Stays(id) \/ Moved(id)
  PROVE  LineStep
<1>1. \A o \in Nat : o # id => Stays(o)
  BY PlaceStays
<1>2. OneMoves(id)
  BY <1>1 DEF OneMoves
<1>. QED
  BY <1>2 DEF LineStep

LEMMA NoneMoved ==
  ASSUME PlacesKnown, PlacesKnown', \A o \in Nat : SameCarriers(o)
  PROVE  LineStep
<1>1. PICK id : id = GlobalObjectID
  OBVIOUS
<1>2. OneMoves(id)
  BY PlaceStays DEF OneMoves
<1>. QED
  BY <1>2 DEF LineStep

\* A configured action of a module is one of ConveyorLine's constants.
LEMMA ActionConfigured ==
  ASSUME TypeOK, Item \in ActionListItem
  PROVE  /\ ItemAction.ActionType = "PushOut" => trModule \in Pushers
         /\ ItemAction.ActionType = "ObjectTakeOver"
              => <<trModule, ItemAction.DestinationModule>> \in TakeOvers
<1>1. trModule \in Modules
  BY DEF TypeOK, TrTypeOK
<1>2. PICK k : k = Item.ActionNumber
  OBVIOUS
<1>3. ItemAction.ActionType \in {"PushOut", "ObjectTakeOver"}
        => ItemAction \in ActionsOf(trModule)
  BY <1>2 DEF ItemAction, ActionAt, ActionsOf
<1>4. ItemAction.DestinationModule \in Modules
  BY ItemActionType DEF ActionInstance
<1>5. ASSUME ItemAction.ActionType = "ObjectTakeOver"
      PROVE  <<trModule, ItemAction.DestinationModule>> \in TakeOvers
  BY <1>1, <1>3, <1>4, <1>5 DEF TakeOvers
<1>. QED
  BY <1>1, <1>3, <1>5 DEF Pushers

LEMMA LineQuiet ==
  ASSUME TypeOK, PlacesKnown, PlacesKnown',
         UNCHANGED <<ModuleQueue, GlobalObjectID, GlobalObjectCount, lost>>,
         \A i \in Nat : ListCarriers(i)' = ListCarriers(i),
         odPc' = "sending" <=> odPc = "sending",
         odPc = "sending" => odModule' = odModule,
         \A s \in Slots : ObjectBuffer'[s].ObjectID = ObjectBuffer[s].ObjectID
  PROVE  LineStep
<1>1. ASSUME NEW i \in Nat PROVE SameCarriers(i)
  <2>1. /\ BeingCreated(i)' <=> BeingCreated(i)
        /\ BeingCreated(i) => odModule' = odModule
    BY DEF BeingCreated, TypeOK, OdTypeOK
  <2>2. Dropped(i)' <=> Dropped(i)
    BY DEF Dropped, LostFor
  <2>. QED
    BY <2>1, <2>2, QueuedKept DEF SameCarriers
<1>. QED
  BY <1>1, NoneMoved

\* Steps that neither add an entry nor carry one out that carries an object.
LEMMA LineFrame ==
  ASSUME TypeOK, PlacesKnown, PlacesKnown',
         UNCHANGED <<ObjectInModuleList, ModuleQueue, GlobalObjectID, GlobalObjectCount,
                     lost>>,
         UNCHANGED trVars,
         odPc' = "sending" <=> odPc = "sending",
         odPc = "sending" => odModule' = odModule,
         \A s \in Slots : ObjectBuffer'[s].ObjectID = ObjectBuffer[s].ObjectID
  PROVE  LineStep
<1>1. \A i \in Nat : ListCarriers(i)' = ListCarriers(i)
  BY CarriersUnmoved DEF trVars
<1>. QED
  BY <1>1, LineQuiet

LEMMA LineTrQuiet ==
  ASSUME TypeOK, SlotsInv, PlacesKnown, PlacesKnown', TrackingThread,
         ~TrTakeOver, ~TrFree
  PROVE  LineStep
<1>1. UNCHANGED <<ObjectBuffer, ModuleQueue, GlobalObjectID, odVars, lost>>
  BY DEF TrackingThread, TrStart, TrPass, TrOutput, TrRequestMachineData,
         TrFindObject, TrPush, TrPushOutOfBounds, TrClear, sharedVars, history
<1>2. CASE TrStart \/ TrPass \/ TrFindObject \/ TrPush \/ TrPushOutOfBounds
  <2>1. UNCHANGED ObjectInModuleList /\ trPc # "clear" /\ trPc' # "clear"
    BY <1>2 DEF TrStart, TrPass, TrFindObject, TrPush, TrPushOutOfBounds, NextEntry, sharedVars
  <2>2. \A i \in Nat : ListCarriers(i)' = ListCarriers(i)
    BY <2>1, CarriersUnmoved
  <2>. QED
    BY <1>1, <2>2, LineQuiet DEF odVars
<1>3. CASE TrOutput \/ TrRequestMachineData
  <2>1. /\ Due
        /\ trPc = "scan"
        /\ trPc' = "clear"
        /\ ItemAction.ActionType \notin {"ObjectTakeOver", "PushOut"}
        /\ UNCHANGED <<ObjectInModuleList, trModule, trAction>>
    BY <1>3 DEF TrOutput, TrRequestMachineData, Fire, sharedVars
  <2>2. Item \in ActionListItem
    BY <2>1, DueItem
  <2>3. ~IsCarrier(trModule, Item.ActionNumber)
    BY <2>1 DEF IsCarrier, ItemAction
  <2>4. ASSUME NEW i \in Nat PROVE ListCarriers(i)' = ListCarriers(i)
    BY <2>1, <2>2, <2>3, CarriersDone
  <2>. QED
    BY <1>1, <2>4, LineQuiet DEF odVars
<1>4. CASE TrClear
  <2>1. trPc = "clear" /\ trPc' \in {"scan", "delay"}
    BY <1>4 DEF TrClear, NextEntry
  <2>2. \A m \in Modules, s \in Slots :
          IF m = trModule /\ s = trAction
            THEN ObjectInModuleList'[m][s] = NoAction
            ELSE ObjectInModuleList'[m][s] = ObjectInModuleList[m][s]
    BY <1>4 DEF TrClear, Cleared, TypeOK, SharedTypeOK, TrTypeOK
  <2>3. \A m \in Modules, s \in Slots :
          /\ Pending(m, s)' <=> Pending(m, s)
          /\ Pending(m, s) => ObjectInModuleList'[m][s] = ObjectInModuleList[m][s]
    BY <2>1, <2>2 DEF Pending
  <2>4. \A i \in Nat : ListCarriers(i)' = ListCarriers(i)
    BY <2>3, CarriersKept
  <2>. QED
    BY <1>1, <2>4, LineQuiet DEF odVars
<1>. QED
  BY <1>2, <1>3, <1>4 DEF TrackingThread

\* The push-out moves its object off the line.
LEMMA LineTrFree ==
  ASSUME TypeOK, ObjectIDsUnique, SlotsInv, CarryInv, PlacesKnown, PlacesKnown', TrFree
  PROVE  LineStep
<1>1. PICK id, x, r :
        /\ id = Item.ObjectID
        /\ x = <<trModule, trAction>>
        /\ r = "freed by another"
  OBVIOUS
<1>2. /\ trPc = "decided"
      /\ trPc' = "clear"
      /\ Item \in ActionListItem
      /\ UNCHANGED <<ObjectInModuleList, ModuleQueue, GlobalObjectID, odVars, trModule,
                     trAction>>
  BY DEF TrFree, TypeOK, TrTypeOK
<1>3. id \in Nat /\ id < GlobalObjectID /\ x \in ListCarriers(id) /\ x[1] = trModule
  BY <1>1, <1>2, ItemCarried
<1>4. ItemAction.ActionType = "PushOut"
  BY <1>2 DEF SlotsInv, FoundSlot
<1>5. /\ lost \subseteq lost'
      /\ \A y \in lost' \ lost : y[2] = r
  <2>1. \E i, more : more \subseteq {<<i, r>>} /\ lost' = lost \cup more
    <3>1. PICK i, none : i = ObjectBuffer[object_i].ObjectID /\ none = {}
      OBVIOUS
    <3>2. lost' = lost \cup none \/ lost' = lost \cup {<<i, r>>}
      BY <1>1, <3>1 DEF TrFree
    <3>. QED
      BY <3>1, <3>2
  <2>. QED
    BY <2>1, LostOne
<1>6. r \notin DropReasons
  BY <1>1 DEF DropReasons
<1>7. \A o : Dropped(o)' <=> Dropped(o)
  BY <1>5, <1>6, DroppedSame
<1>8. \A s \in Slots : ObjectBuffer'[s].ObjectID = ObjectBuffer[s].ObjectID
  <2>1. ObjectBuffer \in [Slots -> ObjectInfo]
    BY DEF TypeOK, SharedTypeOK
  <2>2. \/ UNCHANGED ObjectBuffer
        \/ ObjectBuffer' = [ObjectBuffer EXCEPT ![object_i].objectAliveFlag = FALSE]
    BY DEF TrFree, Freed
  <2>. QED
    BY <2>1, <2>2 DEF ObjectInfo
<1>9. ASSUME NEW o \in Nat, o # id PROVE SameCarriers(o)
  <2>1. ListCarriers(o)' = ListCarriers(o)
    <3>1. /\ ListCarriers(o)' = ListCarriers(o) \ {x}
          /\ x \in ListCarriers(o) => Item.ObjectID = o
      BY <1>1, <1>2, CarriersDone
    <3>. QED
      BY <1>1, <1>9, <3>1
  <2>2. BeingCreated(o)' <=> BeingCreated(o)
    BY <1>2, <1>8 DEF BeingCreated, odVars, TypeOK, OdTypeOK
  <2>. QED
    BY <1>2, <1>7, <2>1, <2>2, QueuedKept DEF SameCarriers, odVars
<1>10. Moves(id, <<"at", trModule>>, <<"pushed out">>)
  <2>1. PlaceOf(id) = <<"at", trModule>>
    BY <1>3 DEF PlacesKnown, PlaceIs
  <2>2. ~Carried(id)' /\ ~Dropped(id)'
    <3>1. Carried(id)
      BY <1>3 DEF Carried
    <3>. QED
      BY <1>1, <1>3, <1>7, <3>1, FreedUncarried DEF CarryInv
  <2>3. PlaceOf(id)' = <<"pushed out">>
    BY <1>2, <1>3, <2>2 DEF PlacesKnown, PlaceIs
  <2>. QED
    BY <2>1, <2>3 DEF Moves
<1>11. Moved(id)
  <2>1. trModule \in Pushers
    BY <1>2, <1>4, ActionConfigured
  <2>. QED
    BY <1>10, <2>1 DEF Moved
<1>. QED
  BY <1>9, <1>11, OneMoved

\* The take-over sends its object on, or gives it up.
LEMMA LineTrTakeOver ==
  ASSUME TypeOK, ObjectIDsUnique, CarryInv, PlacesKnown, PlacesKnown', TrTakeOver
  PROVE  LineStep
<1>1. PICK id, d, x, item, r :
        /\ id = Item.ObjectID
        /\ d = ItemAction.DestinationModule
        /\ x = <<trModule, trAction>>
        /\ item = [DelieverdObjectID |-> Item.ObjectID,
                   DelieverdEncoderNum |-> trEncoder[ModuleConfig[d].Encoder]]
        /\ r = "queue full"
  OBVIOUS
<1>2. /\ Due
      /\ trPc = "scan"
      /\ trPc' = "clear"
      /\ ItemAction.ActionType = "ObjectTakeOver"
      /\ UNCHANGED <<ObjectBuffer, ObjectInModuleList, GlobalObjectID, odVars, trModule,
                     trAction>>
      /\ \/ /\ ModuleQueue' = [ModuleQueue EXCEPT ![d] = Append(@, item)]
            /\ UNCHANGED lost
         \/ UNCHANGED ModuleQueue /\ lost' = lost \cup {<<id, r>>}
  BY <1>1 DEF TrTakeOver, Fire
<1>3. /\ Item \in ActionListItem
      /\ id \in Nat
      /\ id < GlobalObjectID
      /\ item.DelieverdObjectID = id
      /\ d \in Modules
      /\ trModule \in Modules
  <2>1. Item \in ActionListItem /\ Item # NoAction /\ trModule \in Modules /\ trAction \in Slots
    BY <1>2, DueItem, ConfigAssumption DEF TypeOK, TrTypeOK
  <2>2. id \in Nat /\ item.DelieverdObjectID = id
    BY <1>1, <2>1 DEF ActionListItem
  <2>3. id < GlobalObjectID
    BY <1>1, <2>1 DEF Item, ObjectIDsUnique, NumberedEntries
  <2>4. d \in Modules
    BY <1>1, <1>2, ItemActionType, DueItem DEF ActionInstance
  <2>. QED
    BY <2>1, <2>2, <2>3, <2>4
<1>4. /\ x \in ListCarriers(id)
      /\ x[1] = trModule
      /\ \A o : ListCarriers(o)' = ListCarriers(o) \ {x}
      /\ \A o : o # id => x \notin ListCarriers(o)
  <2>1. IsCarrier(trModule, Item.ActionNumber)
    BY <1>2 DEF IsCarrier, ItemAction
  <2>2. ASSUME NEW o
        PROVE  /\ ListCarriers(o)' = ListCarriers(o) \ {x}
               /\ x \in ListCarriers(o) <=> o = id
    BY <1>1, <1>2, <1>3, <2>1, CarriersDone
  <2>. QED
    BY <1>1, <2>2
<1>5. r \in DropReasons
  BY <1>1 DEF DropReasons
<1>6. ASSUME NEW o \in Nat, o # id PROVE SameCarriers(o)
  <2>1. QueuedIn(o)' = QueuedIn(o)
    BY <1>2, <1>3, <1>6, QueuedSent, QueuedKept
  <2>2. BeingCreated(o)' <=> BeingCreated(o)
    BY <1>2 DEF BeingCreated, odVars
  <2>3. Dropped(o)' <=> Dropped(o)
    BY <1>2, <1>6, DroppedSame
  <2>. QED
    BY <1>2, <1>4, <1>6, <2>1, <2>2, <2>3 DEF SameCarriers, odVars
<1>7. PlaceOf(id) = <<"at", trModule>> /\ OnePlace(id)
  BY <1>3, <1>4 DEF PlacesKnown, PlaceIs
<1>8. CASE /\ ModuleQueue' = [ModuleQueue EXCEPT ![d] = Append(@, item)]
           /\ UNCHANGED lost
  <2>1. d \in QueuedIn(id)'
    BY <1>3, <1>8, QueuedSent, ZenonT(40)
  <2>2. PlaceOf(id)' = <<"on the way", d>>
    BY <1>2, <1>3, <2>1 DEF PlacesKnown, PlaceIs
  <2>3. Moves(id, <<"at", trModule>>, <<"on the way", d>>)
    BY <1>7, <2>2 DEF Moves
  <2>4. PICK y \in TakeOvers : y[1] = trModule /\ y[2] = d
    <3>1. <<trModule, d>> \in TakeOvers
      BY <1>1, <1>2, <1>3, ActionConfigured
    <3>. QED
      BY <3>1
  <2>5. Moved(id)
    BY <2>3, <2>4 DEF Moved
  <2>. QED
    BY <1>6, <2>5, OneMoved
<1>9. CASE UNCHANGED ModuleQueue /\ lost' = lost \cup {<<id, r>>}
  <2>1. ~Carried(id)'
    <3>1. ListCarriers(id)' = {}
      BY <1>4, <1>7 DEF OnePlace
    <3>2. QueuedIn(id)' = {}
      BY <1>4, <1>7, <1>9, QueuedKept DEF OnePlace
    <3>3. ~BeingCreated(id)'
      <4>1. ~BeingCreated(id)
        BY <1>4, <1>7 DEF OnePlace
      <4>. QED
        BY <1>2, <4>1 DEF BeingCreated, odVars
    <3>. QED
      BY <3>1, <3>2, <3>3 DEF Carried
  <2>2. Dropped(id)'
    <3>1. \E y \in {<<id, r>>} : y[1] = id /\ y[2] \in DropReasons
      BY <1>5
    <3>. QED
      BY <1>9, <3>1, LostGrows
  <2>3. PlaceOf(id)' = <<"lost">>
    BY <1>2, <1>3, <2>1, <2>2 DEF PlacesKnown, PlaceIs
  <2>4. Moves(id, <<"at", trModule>>, <<"lost">>)
    BY <1>7, <2>3 DEF Moves
  <2>5. Moved(id)
    BY <1>3, <2>4 DEF Moved
  <2>. QED
    BY <1>6, <2>5, OneMoved
<1>. QED
  BY <1>2, <1>8, <1>9

\* A delivery that is received and not taken up.
LEMMA LineOdDrop ==
  ASSUME TypeOK, ObjectIDsUnique, RepeatInv, PlacesKnown, PlacesKnown', OdDrop
  PROVE  LineStep
<1>1. PICK m, id, r : m = odModule /\ id = DeliveredID(odModule) /\ r = DropReason(odModule)
  OBVIOUS
<1>2. /\ m \in Modules
      /\ odPc = "scan"
      /\ Delivered(m)
      /\ ModuleQueue' = Received(m)
      /\ lost' = lost \cup {<<id, r>>}
      /\ NextModule
      /\ UNCHANGED <<ObjectInModuleList, GlobalObjectID, trVars>>
  BY <1>1 DEF OdDrop, TypeOK, OdTypeOK
<1>3. odPc' \in {"delay", "scan"}
  BY <1>2, NextModuleType
<1>4. id = DeliveredID(m) /\ id \in Nat /\ id < GlobalObjectID
  BY <1>1, <1>2, ReceivedFacts
<1>5. r \in DropReasons
  BY <1>1 DEF DropReason, DropReasons
<1>6. /\ m \in QueuedIn(id)
      /\ \A i : i # id => QueuedIn(i)' = QueuedIn(i)
      /\ QueuedIn(id)' = QueuedIn(id) \ {m}
  BY <1>2, <1>4, QueuedReceived DEF RepeatInv
<1>7. \A i : /\ ListCarriers(i)' = ListCarriers(i)
             /\ ~BeingCreated(i)
             /\ ~BeingCreated(i)'
  BY <1>2, <1>3, CarriersUnmoved DEF trVars, BeingCreated
<1>8. ASSUME NEW o \in Nat, o # id PROVE SameCarriers(o)
  <2>1. Dropped(o)' <=> Dropped(o)
    BY <1>2, <1>8, DroppedSame
  <2>. QED
    BY <1>2, <1>6, <1>7, <1>8, <2>1 DEF SameCarriers
<1>9. PlaceOf(id) = <<"on the way", m>> /\ OnePlace(id)
  BY <1>4, <1>6 DEF PlacesKnown, PlaceIs
<1>10. ~Carried(id)' /\ Dropped(id)'
  <2>1. ~Carried(id)'
    BY <1>6, <1>7, <1>9 DEF OnePlace, Carried
  <2>2. \E y \in {<<id, r>>} : y[1] = id /\ y[2] \in DropReasons
    BY <1>5
  <2>. QED
    BY <1>2, <2>1, <2>2, LostGrows
<1>11. PlaceOf(id)' = <<"lost">>
  BY <1>2, <1>4, <1>10 DEF PlacesKnown, PlaceIs
<1>12. Moved(id)
  BY <1>2, <1>9, <1>11 DEF Moves, Moved
<1>. QED
  BY <1>8, <1>12, OneMoved

\* A delivery that is taken up, or a new object that gets its actions: the
\* object is at the section, or lost.
LEMMA LineOdAdds ==
  ASSUME TypeOK, TypeOK', ObjectIDsUnique, RepeatInv, SlotsInv, CarryInv, PlacesKnown,
         PlacesKnown', OdAccept \/ OdAddActions
  PROVE  LineStep
<1>1. PICK m, id, list, reason :
        /\ AddsActions(m, id, list, reason)
        /\ m \in QueuedIn(id) \/ (m = odModule /\ BeingCreated(id))
  BY AcceptAdds, CreationAdds
<1>2. /\ m \in Modules
      /\ id \in Nat
      /\ id < GlobalObjectID
      /\ UNCHANGED GlobalObjectID
      /\ reason \in DropReasons
      /\ lost' = lost \cup LostUnlessCarried(list, m, id, reason)
      /\ ListCarriers(id) = {}
      /\ QueuedIn(id)' = {}
      /\ ~BeingCreated(id)'
  BY <1>1 DEF AddsActions
<1>3. /\ \A i : i # id => ListCarriers(i)' = ListCarriers(i)
      /\ \A x \in Gained(id) : x[1] = m
      /\ Gained(id) # {} <=> \E s \in Slots : /\ list[s] # NoAction
                                             /\ list[s].ObjectID = id
                                             /\ IsCarrier(m, list[s].ActionNumber)
  BY <1>1, CarriersAdded DEF AddsActions
<1>4. ListCarriers(id)' = Gained(id)
  BY <1>2 DEF Gained
<1>5. PICK more : more = LostUnlessCarried(list, m, id, reason)
  OBVIOUS
<1>6. /\ lost' = lost \cup more
      /\ \/ Gained(id) # {} /\ more = {}
         \/ Gained(id) = {} /\ more = {<<id, reason>>}
  BY <1>2, <1>3, <1>5 DEF LostUnlessCarried
<1>7. \A y \in more : y[1] = id
  BY <1>6
<1>8. ASSUME NEW o \in Nat, o # id PROVE SameCarriers(o)
  <2>1. Dropped(o)' <=> Dropped(o)
    BY <1>6, <1>7, <1>8, DroppedSame
  <2>2. QueuedIn(o)' = QueuedIn(o) /\ ~BeingCreated(o) /\ ~BeingCreated(o)'
    BY <1>1, <1>8 DEF AddsActions
  <2>. QED
    BY <1>2, <1>3, <1>8, <2>1, <2>2 DEF SameCarriers
<1>9. PlaceOf(id) \in {<<"at", m>>, <<"on the way", m>>}
  BY <1>1, <1>2 DEF PlacesKnown, PlaceIs
<1>10. CASE Gained(id) # {}
  <2>1. PICK x \in ListCarriers(id)' : x[1] = m
    BY <1>3, <1>4, <1>10
  <2>2. PlaceOf(id)' = <<"at", m>>
    BY <1>2, <2>1 DEF PlacesKnown, PlaceIs
  <2>3. Stays(id) \/ Moved(id)
    BY <1>2, <1>9, <2>2 DEF Stays, Moved, Moves
  <2>. QED
    BY <1>8, <2>3, OneMoved
<1>11. CASE Gained(id) = {}
  <2>1. ~Carried(id)'
    BY <1>2, <1>4, <1>11 DEF Carried
  <2>2. \E y \in more : y[1] = id /\ y[2] \in DropReasons
    <3>1. \E y \in {<<id, reason>>} : y[1] = id /\ y[2] \in DropReasons
      BY <1>2
    <3>2. more = {<<id, reason>>}
      BY <1>6, <1>11
    <3>. QED
      BY <3>1, <3>2
  <2>3. Dropped(id)'
    BY <1>6, <2>2, LostGrows
  <2>4. PlaceOf(id)' = <<"lost">>
    BY <1>2, <2>1, <2>3 DEF PlacesKnown, PlaceIs
  <2>5. Moved(id)
    BY <1>2, <1>9, <2>4 DEF Moved, Moves
  <2>. QED
    BY <1>8, <2>5, OneMoved
<1>. QED
  BY <1>10, <1>11

\* A new object appears, in the place of one that was on the way or not.
LEMMA LineOdCreates ==
  ASSUME TypeOK, TypeOK', ObjectIDsUnique, RepeatInv, SlotsInv, PlacesKnown, PlacesKnown',
         PlacesTyped, OdDetect \/ OdReplace
  PROVE  LineStep
<1>1. PICK m, g, id, r :
        /\ m = odModule
        /\ g = GlobalObjectID
        /\ id = DeliveredID(odModule)
        /\ r = "window"
  OBVIOUS
<1>2. /\ m \in Modules
      /\ odPc = "scan"
      /\ odPc' = "sending"
      /\ odModule' = m
      /\ UNCHANGED <<ObjectInModuleList, trVars>>
      /\ g \in Nat
  BY <1>1 DEF OdDetect, OdReplace, TypeOK, OdTypeOK, SharedTypeOK
<1>3. PICK dropped :
        /\ CreateObject(m, dropped)
        /\ OdDetect => dropped = {}
        /\ OdReplace => dropped = {<<id, r>>}
  <2>1. CASE OdDetect
    <3>1. PICK none : none = {}
      OBVIOUS
    <3>2. CreateObject(m, none)
      BY <1>1, <2>1, <3>1 DEF OdDetect
    <3>3. ~OdReplace
      BY <2>1 DEF OdDetect, OdReplace
    <3>. QED
      BY <3>1, <3>2, <3>3
  <2>2. CASE OdReplace
    <3>1. CreateObject(m, {<<id, r>>})
      BY <1>1, <2>2 DEF OdReplace
    <3>2. ~OdDetect
      BY <2>2 DEF OdDetect, OdReplace
    <3>. QED
      BY <3>1, <3>2
  <2>. QED
    BY <2>1, <2>2
<1>4. GlobalObjectID' = g + 1
  BY <1>1, <1>2, <1>3 DEF CreateObject, NextID
<1>5. PICK more :
        /\ ObjectBuffer'[GlobalObjectCount'].ObjectID = g
        /\ lost' = lost \cup more
        /\ dropped \subseteq more
        /\ \A y \in more : y \in dropped \/ y[2] = "overwritten"
  <2>1. FirstIsAlive /\ SlotsNumbered
    BY DEF SlotsInv
  <2>. QED
    BY <1>1, <1>2, <1>3, <2>1, CreatedSlot
<1>6. /\ \A i : ListCarriers(i)' = ListCarriers(i)
      /\ \A i : ~BeingCreated(i)
      /\ BeingCreated(g)'
      /\ \A i : i # g => ~BeingCreated(i)'
  BY <1>2, <1>5, CarriersUnmoved DEF trVars, BeingCreated
<1>7. Appears(g, m)
  <2>1. PlaceOf(g) = <<"unborn">>
    <3>1. ~(g < GlobalObjectID)
      BY <1>1, <1>2
    <3>. QED
      BY <1>2, <3>1 DEF PlacesKnown, PlaceIs
  <2>2. PlaceOf(g)' = <<"at", m>>
    <3>1. g < GlobalObjectID'
      BY <1>2, <1>4
    <3>. QED
      BY <1>2, <1>6, <3>1 DEF PlacesKnown, PlaceIs
  <2>3. \A p \in Nat : p < g => PlaceOf(p) # <<"unborn">>
    BY <1>1 DEF PlacesTyped
  <2>. QED
    BY <2>1, <2>2, <2>3 DEF Appears, Moves
<1>8. ASSUME NEW o \in Nat, o # g, QueuedIn(o)' = QueuedIn(o),
             \A y \in dropped : y[1] # o
      PROVE  SameCarriers(o)
  <2>1. o < GlobalObjectID' <=> o < GlobalObjectID
    BY <1>1, <1>2, <1>4, <1>8
  <2>2. Dropped(o)' <=> Dropped(o)
    <3>1. \A y \in lost' \ lost : y[1] # o \/ y[2] \notin DropReasons
      BY <1>5, <1>8 DEF DropReasons
    <3>. QED
      BY <1>5, <3>1, DroppedSame
  <2>. QED
    BY <1>6, <1>8, <2>1, <2>2 DEF SameCarriers
<1>9. CASE OdDetect
  <2>1. UNCHANGED ModuleQueue
    BY <1>9 DEF OdDetect
  <2>2. \A o \in Nat : o # g => SameCarriers(o)
    BY <1>3, <1>8, <1>9, <2>1, QueuedKept
  <2>3. Moved(g)
    BY <1>2, <1>7 DEF Moved
  <2>. QED
    BY <2>2, <2>3, OneMoved
<1>10. CASE OdReplace
  <2>1. Delivered(m) /\ ModuleQueue' = Received(m) /\ id = DeliveredID(m)
    BY <1>1, <1>10 DEF OdReplace
  <2>2. id \in Nat /\ id < g
    BY <1>1, <1>2, <2>1, ReceivedFacts
  <2>3. /\ m \in QueuedIn(id)
        /\ \A i : i # id => QueuedIn(i)' = QueuedIn(i)
        /\ QueuedIn(id)' = QueuedIn(id) \ {m}
    BY <1>2, <2>1, QueuedReceived DEF RepeatInv
  <2>4. dropped = {<<id, r>>} /\ r \in DropReasons
    BY <1>1, <1>3, <1>10 DEF DropReasons
  <2>5. \A o \in Nat : o # id /\ o # g => Stays(o)
    <3>1. \A o \in Nat : o # id /\ o # g => SameCarriers(o)
      BY <1>8, <2>3, <2>4
    <3>. QED
      BY <3>1, PlaceStays
  <2>6. PlaceOf(id) = <<"on the way", m>> /\ OnePlace(id)
    BY <1>1, <2>2, <2>3 DEF PlacesKnown, PlaceIs
  <2>7. ~Carried(id)'
    <3>1. id # g
      BY <1>2, <2>2
    <3>. QED
      BY <1>6, <2>3, <2>6, <3>1 DEF OnePlace, Carried
  <2>8. Dropped(id)'
    <3>1. \E y \in dropped : y[1] = id /\ y[2] \in DropReasons
      BY <2>4
    <3>. QED
      BY <1>5, <3>1, LostGrows
  <2>9. PlaceOf(id)' = <<"lost">>
    <3>1. id < GlobalObjectID'
      BY <1>2, <1>4, <2>2
    <3>. QED
      BY <2>2, <2>7, <2>8, <3>1 DEF PlacesKnown, PlaceIs
  <2>10. Replaced(id, g, m)
    BY <1>7, <2>5, <2>6, <2>9 DEF Replaced, Moves
  <2>. QED
    BY <1>2, <2>10 DEF LineStep
<1>. QED
  BY <1>9, <1>10

LEMMA NextLine ==
  ASSUME TypeOK, TypeOK', ObjectIDsUnique, RepeatInv, SlotsInv, CarryInv, PlacesKnown,
         PlacesKnown', PlacesTyped, [Next]_vars
  PROVE  LineStep
<1>1. CASE World \/ ActionExecuteThread \/ UNCHANGED vars
  <2>1. UNCHANGED <<sharedVars, odVars, trVars, lost>>
    BY <1>1 DEF World, Move, Capture, ClientsChange, ActionExecuteThread, history, vars
  <2>. QED
    BY <2>1, LineFrame DEF sharedVars, odVars
<1>2. CASE ObjectDetectionThread
  <2>1. CASE OdStart \/ OdSkip
    <3>1. /\ UNCHANGED <<sharedVars, GlobalObjectCount, trVars, lost>>
          /\ odPc' # "sending"
          /\ odPc # "sending"
      BY <2>1, NextModuleType DEF OdStart, OdSkip, history
    <3>. QED
      BY <3>1, LineFrame DEF sharedVars
  <2>. QED
    BY <1>2, <2>1, LineOdDrop, LineOdAdds, LineOdCreates DEF ObjectDetectionThread
<1>3. CASE TrackingThread
  BY <1>3, LineTrQuiet, LineTrFree, LineTrTakeOver
<1>4. CASE \E id \in 0 .. GlobalObjectID - 1 : STM32GetPushResult(id)
  <2>1. /\ \/ UNCHANGED ObjectBuffer
           \/ \E s \in Slots :
                ObjectBuffer' = [ObjectBuffer EXCEPT ![s].ProcessedResult = FALSE]
        /\ UNCHANGED <<ObjectInModuleList, ModuleQueue, GlobalObjectID, odVars, trVars,
                       lost>>
    BY <1>4 DEF STM32GetPushResult
  <2>2. ObjectBuffer \in [Slots -> ObjectInfo]
    BY DEF TypeOK, SharedTypeOK
  <2>3. \A s \in Slots : ObjectBuffer'[s].ObjectID = ObjectBuffer[s].ObjectID
    <3>1. CASE UNCHANGED ObjectBuffer
      BY <3>1
    <3>2. CASE \E s \in Slots :
                 ObjectBuffer' = [ObjectBuffer EXCEPT ![s].ProcessedResult = FALSE]
      BY <2>2, <3>2 DEF ObjectInfo
    <3>. QED
      BY <2>1, <3>1, <3>2
  <2>. QED
    BY <2>1, <2>3, LineFrame DEF odVars
<1>. QED
  BY <1>1, <1>2, <1>3, <1>4 DEF Next

LEMMA LineInit == Init => Line!Init
<1>. SUFFICES ASSUME Init, NEW o \in Objects PROVE PlaceOf(o) = <<"unborn">>
  BY DEF Line!Init, Line!Unborn
<1>1. o >= GlobalObjectID
  BY ConfigAssumption DEF Init, Objects
<1>. QED
  BY <1>1, Zenon DEF PlaceOf

\* What an object that moves does is one of ConveyorLine's steps.
LEMMA LineMoves ==
  ASSUME Objects \subseteq Nat, NEW o \in Objects, Moved(o)
  PROVE  \/ \E m \in Modules : Line!Enters(o, m)
         \/ Line!IsHandedOver(o)
         \/ Line!IsAccepted(o)
         \/ Line!IsPushedOut(o)
         \/ Line!IsLost(o)
<1>1. CASE \E m \in Modules : Appears(o, m)
  <2>1. PICK m \in Modules : Appears(o, m)
    BY <1>1
  <2>2. Line!Enters(o, m)
    BY <2>1 DEF Appears, Moves, Line!Enters, Line!Goes, Line!Unborn, Line!At
  <2>. QED
    BY <2>2
<1>2. CASE \E x \in TakeOvers : Moves(o, <<"at", x[1]>>, <<"on the way", x[2]>>)
  BY <1>2 DEF Moves, Line!IsHandedOver, Line!Goes, Line!At, Line!On
<1>3. CASE \E m \in Modules : Moves(o, <<"on the way", m>>, <<"at", m>>)
  BY <1>3 DEF Moves, Line!IsAccepted, Line!Goes, Line!At, Line!On
<1>4. CASE \E m \in Pushers : Moves(o, <<"at", m>>, <<"pushed out">>)
  BY <1>4 DEF Moves, Line!IsPushedOut, Line!Goes, Line!At, Line!PushedOut
<1>5. CASE \E m \in Modules : \/ Moves(o, <<"at", m>>, <<"lost">>)
                              \/ Moves(o, <<"on the way", m>>, <<"lost">>)
  <2>1. PICK m \in Modules : \/ Moves(o, <<"at", m>>, <<"lost">>)
                             \/ Moves(o, <<"on the way", m>>, <<"lost">>)
    BY <1>5
  <2>2. PlaceOf(o) \notin {<<"unborn">>, <<"lost">>, <<"pushed out">>} /\ PlaceOf(o)' = <<"lost">>
    BY <2>1, PlacesDistinct DEF Moves
  <2>. QED
    BY <2>2 DEF Line!IsLost, Line!Gone, Line!Unborn, Line!Lost, Line!PushedOut
<1>. QED
  BY <1>1, <1>2, <1>3, <1>4, <1>5 DEF Moved

LEMMA LineNext ==
  ASSUME PlacesTyped, PlacesTyped', LineStep
  PROVE  Line!Next
<1>1. Objects \subseteq Nat
  BY ConfigAssumption DEF Objects
<1>2. [o \in Objects |-> PlaceOf(o)]' \in [Objects -> Line!Places]
  BY <1>1 DEF PlacesTyped
<1>3. PICK moved : moved = {o \in Objects : ~Stays(o)}
  OBVIOUS
<1>4. moved = {o \in Objects : [p \in Objects |-> PlaceOf(p)]'[o]
                                 # [p \in Objects |-> PlaceOf(p)][o]}
  BY <1>3 DEF Stays
<1>5. /\ \A o \in moved : Moved(o)
      /\ \A o, p \in moved : o # p => Line!IsReplaced(o, p) \/ Line!IsReplaced(p, o)
  <2>1. CASE \E id : OneMoves(id)
    <3>1. PICK id : OneMoves(id)
      BY <2>1
    <3>2. \A o \in moved : o = id /\ Moved(o)
      BY <1>1, <1>3, <3>1 DEF OneMoves
    <3>. QED
      BY <3>2
  <2>2. CASE \E id, new : \E m \in Modules : Replaced(id, new, m)
    <3>1. PICK id, new : \E m \in Modules : Replaced(id, new, m)
      BY <2>2
    <3>2. PICK m \in Modules : Replaced(id, new, m)
      BY <3>1
    <3>3. Moved(id) /\ Moved(new)
      BY <3>2 DEF Replaced, Moved
    <3>4. \A o \in moved : o \in {id, new}
      BY <1>1, <1>3, <3>2 DEF Replaced
    <3>5. id \in Objects /\ new \in Objects => Line!IsReplaced(id, new)
      BY <3>2 DEF Replaced, Appears, Moves, Line!IsReplaced, Line!Goes, Line!On, Line!At,
                  Line!Lost, Line!Unborn
    <3>6. moved \subseteq Objects
      BY <1>3
    <3>. QED
      BY <3>3, <3>4, <3>5, <3>6
  <2>. QED
    BY <2>1, <2>2 DEF LineStep
<1>6. \A o \in moved :
        \/ \E m \in Modules : Line!Enters(o, m)
        \/ Line!IsHandedOver(o)
        \/ Line!IsAccepted(o)
        \/ Line!IsPushedOut(o)
        \/ Line!IsLost(o)
  BY <1>1, <1>3, <1>5, LineMoves
<1>. QED
  BY <1>2, <1>4, <1>5, <1>6 DEF Line!Next

\* On a line that runs one way, and whose sections have one action at most
\* that carries objects on, the tasks move each object as ConveyorLine allows
\* (Tracking.c:68-163, ObjectDetection.c:22-318): it is in one place, enters
\* once, and leaves only by a push-out or where the code gives it up.
THEOREM LineImplemented ==
  ASSUME OneWayLine, OneCarrierLine
  PROVE  Spec => ImplementsLine
<1>1. Init => SlotsInv /\ CarryInv
  BY InitCarry
<1>2. TypeOK /\ TypeOK' /\ ObjectIDsUnique /\ RepeatInv /\ SlotsInv /\ CarryInv
        /\ [Next]_vars
        => SlotsInv' /\ CarryInv'
  BY NextCarry
<1>3. TypeOK /\ TypeOK' /\ ObjectIDsUnique /\ RepeatInv /\ SlotsInv /\ SlotsInv'
        /\ CarryInv /\ CarryInv' /\ [Next]_vars
        => Line!Next
  <2>. SUFFICES ASSUME TypeOK, TypeOK', ObjectIDsUnique, RepeatInv, SlotsInv, SlotsInv',
                       CarryInv, CarryInv', [Next]_vars
                PROVE  Line!Next
    OBVIOUS
  <2>1. PlacesKnown /\ PlacesTyped
    BY PlaceFacts DEF SlotsInv
  <2>2. PlacesKnown' /\ PlacesTyped'
    BY PlaceFactsNext DEF SlotsInv
  <2>3. LineStep
    BY <2>1, <2>2, NextLine
  <2>. QED
    BY <2>1, <2>2, <2>3, LineNext
<1>4. TypeOK /\ TypeOK' /\ ObjectIDsUnique /\ ReachedInv /\ RepeatInv /\ [Next]_vars
        => RepeatInv'
  BY NextRepeat
<1>. QED
  BY <1>1, <1>2, <1>3, <1>4, LineInit, InitType, NextType, InitIDs, NextIDs, InitReached,
     NextReached, InitRepeat, PTL DEF Spec, ImplementsLine, Line!Spec
=============================================================================
