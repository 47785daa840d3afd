---------------------------- MODULE ObjectTracking ----------------------------
(***************************************************************************)
(* The tracking core of the firmware: the ObjectDetection task             *)
(* (TRACK/ObjectDetection.c), the Tracking task (TRACK/Tracking.c), the    *)
(* push-result handler of the DataProcess task (TRACK/DataProcess.c) and   *)
(* the ActionExecute task, over the memory they share without a lock.      *)
(*                                                                         *)
(* A workpiece seen by a photoelectric sensor becomes an object: a slot of *)
(* ObjectBuffer, and one pending action per configured action of the       *)
(* module (conveyor section) that saw it, due when the section's encoder   *)
(* passes a target.  A take-over action hands the object to the next       *)
(* module through a queue; a push-out action ends its life.                *)
(*                                                                         *)
(* Interleaving.  ObjectDetection (priority 5) preempts Tracking (4)       *)
(* between any two of its statements, and is not preempted by it: Tracking *)
(* runs only while ObjectDetection sleeps in vTaskDelay or is blocked in   *)
(* the TCPSendPacket of CreateObject.  DataProcess (6) and the interrupts  *)
(* come in between the steps of both.                                      *)
(***************************************************************************)
EXTENDS ActionExecute, Integers, Sequences, FiniteSets

CONSTANTS
  Encoders,            \* the encoders of the line
  Lights,              \* the photoelectric sensors
  NoLight,             \* ModuleTrigger of a module without a sensor
  Module_Count,        \* modules read from tracking.xml
  ModuleConfig,        \* their configuration, by module number
  maxTrackingObjects,  \* slots of ObjectBuffer and of each action list
  moduleQueueDepth,    \* length of each ModuleQueue
  NoAction,            \* an action list entry that is not alive
  MaxEncoder,          \* bound: where the line stops
  MaxCaptures,         \* bound: sensor pulses
  MaxResults           \* bound: push results from the PC

Modules == 0 .. Module_Count - 1
Slots   == 0 .. maxTrackingObjects - 1

ActionTypes == {"RequestMachineData", "SetOutput", "ObjectTakeOver",
                "TriggerCamera", "TriggerSensor", "PushOut"}

ActionInstance == [ActionType : ActionTypes, TargetValue : Nat,
                   DestinationModule : Modules]

ModuleConfiguration ==
  [Encoder : Encoders, ModuleTrigger : Lights \cup {NoLight},
   CreateObjectFlag : BOOLEAN, Debounce : Nat, DoubleTrigger : Nat,
   TrackingWindow : Nat, Actions : Seq(ActionInstance)]

\* An action list entry whose IsActionAlive is true.
ActionListItem == [ObjectID : Nat, TargetValue : Nat, ActionNumber : Nat]

ModuleQueueItem == [DelieverdObjectID : Nat, DelieverdEncoderNum : Nat]

ObjectInfo == [ObjectID : Nat, ProcessedResult : BOOLEAN,
               objectAliveFlag : BOOLEAN]

ASSUME ConfigAssumption ==
  /\ Module_Count \in Nat \ {0}
  /\ maxTrackingObjects \in Nat \ {0}
  /\ moduleQueueDepth \in Nat \ {0}
  /\ MaxEncoder \in Nat
  /\ MaxCaptures \in Nat
  /\ MaxResults \in Nat
  /\ NoLight \notin Lights
  /\ NoAction \notin ActionListItem
  /\ ModuleConfig \in [Modules -> ModuleConfiguration]

VARIABLES
  \* shared memory
  ObjectBuffer, ObjectInModuleList, ModuleQueue, GlobalObjectID,
  \* the world: encoder counts, capture bits, whether ClientNum > 0
  encoder, captured, captures, connected,
  \* ObjectDetection
  odPc, odModule, odEncoder, GlobalObjectCount, AddActiveFlag,
  triggerInterval, LS_EncoderNumTem, Action_i, addAll,
  \* Tracking
  trPc, trModule, trAction, trEncoder, object_i,
  \* history
  born,         \* the module that created object i, at position i + 1
  fired,        \* the actions carried out: <<object, module, action>>
  lost,         \* objects dropped, with the reason: <<object, reason>>
  requested,    \* objects the PC asked to push out
  pushed,       \* objects for which the pusher was commanded
  outOfBounds   \* whether ObjectBuffer[maxTrackingObjects] was accessed

sharedVars == <<ObjectBuffer, ObjectInModuleList, ModuleQueue, GlobalObjectID>>
worldVars  == <<encoder, captured, captures, connected>>
triggerVars == <<AddActiveFlag, triggerInterval, LS_EncoderNumTem>>
odVars == <<odPc, odModule, odEncoder, GlobalObjectCount, triggerVars,
            Action_i, addAll>>
trVars == <<trPc, trModule, trAction, trEncoder, object_i>>
history == <<born, fired, lost, requested, pushed, outOfBounds>>
vars == <<sharedVars, worldVars, odVars, trVars, history, executeVars>>

-----------------------------------------------------------------------------
(* Configuration and list helpers.                                         *)

Light(m) == ModuleConfig[m].ModuleTrigger

NumberOfActions(m) == Len(ModuleConfig[m].Actions)

\* ActionInstanceConfig[k - 1] of module m.  ModuleConfig is a zeroed global
\* and type 0 is ActRequestMachineData, so that is what an entry beyond the
\* configured ones reads as.
ActionAt(m, k) ==
  IF k \in 1 .. NumberOfActions(m)
    THEN ModuleConfig[m].Actions[k]
    ELSE [ActionType |-> "RequestMachineData", TargetValue |-> 0,
          DestinationModule |-> 0]

\* An object lives on after its take-over and until its push-out: the two
\* actions that carry it.
IsCarrier(m, k) == ActionAt(m, k).ActionType \in {"ObjectTakeOver", "PushOut"}

ListItem(m, id, now, k) ==
  [ObjectID |-> id, TargetValue |-> now + ActionAt(m, k).TargetValue,
   ActionNumber |-> k]

\* The position of slot s among the free slots of an action list.
FreeRank(list, s) == Cardinality({t \in Slots : t <= s /\ list[t] = NoAction})

\* AddActionToList for every action of module m: the k-th finds the k-th
\* free slot, and is dropped when there is none.
AddAllActions(list, m, id, now) ==
  [s \in Slots |->
     IF list[s] = NoAction /\ FreeRank(list, s) \in 1 .. NumberOfActions(m)
       THEN ListItem(m, id, now, FreeRank(list, s))
       ELSE list[s]]

\* AddActionToList for action k alone.
AddOneAction(list, m, id, now, k) ==
  [s \in Slots |->
     IF list[s] = NoAction /\ FreeRank(list, s) = 1
       THEN ListItem(m, id, now, k)
       ELSE list[s]]

\* The reason, if list holds no action of m that carries object id on.
LostUnlessCarried(list, m, id, reason) ==
  IF \E s \in Slots : /\ list[s] # NoAction
                      /\ list[s].ObjectID = id
                      /\ IsCarrier(m, list[s].ActionNumber)
    THEN {}
    ELSE {<<id, reason>>}

-----------------------------------------------------------------------------
Init ==
  /\ ObjectBuffer = [s \in Slots |-> [ObjectID |-> 0, ProcessedResult |-> FALSE,
                                      objectAliveFlag |-> FALSE]]
  /\ ObjectInModuleList = [m \in Modules |-> [s \in Slots |-> NoAction]]
  /\ ModuleQueue = [m \in Modules |-> <<>>]
  /\ GlobalObjectID = 0
  /\ encoder = [e \in Encoders |-> 0]
  /\ captured = [l \in Lights |-> FALSE]
  /\ captures = 0
  /\ connected = FALSE
  /\ odPc = "delay"
  /\ odModule = 0
  /\ odEncoder = [e \in Encoders |-> 0]
  /\ GlobalObjectCount = 0
  /\ AddActiveFlag = FALSE
  /\ triggerInterval = 0
  /\ LS_EncoderNumTem = [l \in Lights |-> 0]
  /\ Action_i = maxTrackingObjects
  /\ addAll = FALSE
  /\ trPc = "delay"
  /\ trModule = 0
  /\ trAction = 0
  /\ trEncoder = [e \in Encoders |-> 0]
  /\ object_i = 0
  /\ born = <<>>
  /\ fired = {}
  /\ lost = {}
  /\ requested = {}
  /\ pushed = {}
  /\ outOfBounds = FALSE
  /\ ExecuteInit

-----------------------------------------------------------------------------
(* The world.                                                              *)

\* The line runs forward and drives every encoder.
Move(e) ==
  /\ encoder[e] < MaxEncoder
  /\ encoder' = [encoder EXCEPT ![e] = @ + 1]
  /\ UNCHANGED <<sharedVars, captured, captures, connected, odVars, trVars,
                 history, executeVars>>

\* The timer interrupt sets the capture bit; further edges are ignored until
\* ObjectDetection clears it.
Capture(l) ==
  /\ captures < MaxCaptures
  /\ ~captured[l]
  /\ captured' = [captured EXCEPT ![l] = TRUE]
  /\ captures' = captures + 1
  /\ UNCHANGED <<sharedVars, encoder, connected, odVars, trVars, history,
                 executeVars>>

\* ClientNum becomes positive, or 0 again.
ClientsChange ==
  /\ connected' = ~connected
  /\ UNCHANGED <<sharedVars, encoder, captured, captures, odVars, trVars,
                 history, executeVars>>

-----------------------------------------------------------------------------
(* ObjectDetection.                                                        *)

Now(m) == odEncoder[ModuleConfig[m].Encoder]

Delivered(m) == ModuleQueue[m] # <<>>

\* Fault: the ID is taken from the last created object, as the creating
\* branches do, and not from the queue item.
DeliveredID_Latest(m) == GlobalObjectID - 1

DeliveredID(m) == Head(ModuleQueue[m]).DelieverdObjectID

\* The queues after xQueueReceive(ModuleQueue[m], ..., 0).
Received(m) == [ModuleQueue EXCEPT ![m] = Tail(@)]

\* The capture bit is consumed: for a delivered object always, for a new one
\* only by a module that may create objects.
LightTaken(m) ==
  /\ Light(m) # NoLight
  /\ captured[Light(m)]
  /\ Delivered(m) \/ ModuleConfig[m].CreateObjectFlag

Interval(m) ==
  IF LightTaken(m) THEN Now(m) - LS_EncoderNumTem[Light(m)]
                   ELSE triggerInterval

\* AddActiveFlag as it stands when the module is tested.
Triggered(m) == Light(m) # NoLight /\ (AddActiveFlag \/ LightTaken(m))

\* Debounce and double-trigger protection.
Accepted(m) ==
  /\ Triggered(m)
  /\ Interval(m) > ModuleConfig[m].Debounce
  /\ Interval(m) > ModuleConfig[m].DoubleTrigger

InWindow(m) ==
  Now(m) - Head(ModuleQueue[m]).DelieverdEncoderNum
    < ModuleConfig[m].TrackingWindow

TakeLight(m) ==
  /\ triggerInterval' = Interval(m)
  /\ IF LightTaken(m)
       THEN /\ captured' = [captured EXCEPT ![Light(m)] = FALSE]
            /\ LS_EncoderNumTem' = [LS_EncoderNumTem EXCEPT ![Light(m)] = Now(m)]
       ELSE UNCHANGED <<captured, LS_EncoderNumTem>>

\* The for loop over the modules, and the vTaskDelay after it.
NextModule ==
  IF odModule + 1 < Module_Count
    THEN odPc' = "scan" /\ odModule' = odModule + 1
    ELSE odPc' = "delay" /\ odModule' = 0

\* One pass of the task's loop starts, and reads the encoders.
OdStart ==
  /\ odPc = "delay"
  /\ connected
  /\ odPc' = "scan"
  /\ odEncoder' = encoder
  /\ UNCHANGED <<sharedVars, worldVars, odModule, GlobalObjectCount,
                 triggerVars, Action_i, addAll, trVars, history, executeVars>>

\* The delivered object gets the module's actions.
OdAccept ==
  LET m    == odModule
      id   == DeliveredID(m)
      list == AddAllActions(ObjectInModuleList[m], m, id, Now(m))
  IN /\ odPc = "scan"
     /\ Delivered(m)
     /\ Light(m) = NoLight \/ Accepted(m)
     /\ InWindow(m)
     /\ ModuleQueue' = Received(m)
     /\ ObjectInModuleList' = [ObjectInModuleList EXCEPT ![m] = list]
     /\ TakeLight(m)
     /\ AddActiveFlag' = (AddActiveFlag /\ Light(m) = NoLight)
     /\ Action_i' = NumberOfActions(m)
     /\ lost' = lost \cup LostUnlessCarried(list, m, id, "list full")
     /\ NextModule
     /\ UNCHANGED <<ObjectBuffer, GlobalObjectID, encoder, captures, connected,
                    odEncoder, GlobalObjectCount, addAll, trVars, born, fired,
                    requested, pushed, outOfBounds, executeVars>>

\* The delivered object was received from the queue and is dropped: its
\* module's sensor has not seen it, saw it too soon after the last pulse, or
\* it is too late.
DropReason(m) ==
  IF Light(m) # NoLight /\ ~Triggered(m) THEN "no light"
  ELSE IF Light(m) # NoLight /\ ~Accepted(m) THEN "bounce"
  ELSE "window"

OdDrop ==
  LET m == odModule
  IN /\ odPc = "scan"
     /\ Delivered(m)
     /\ \/ Light(m) # NoLight /\ ~Accepted(m)
        \/ ~InWindow(m) /\ (Accepted(m) => ~ModuleConfig[m].CreateObjectFlag)
     /\ ModuleQueue' = Received(m)
     /\ TakeLight(m)
     /\ AddActiveFlag' = (AddActiveFlag /\ Light(m) = NoLight)
     /\ lost' = lost \cup {<<DeliveredID(m), DropReason(m)>>}
     /\ NextModule
     /\ UNCHANGED <<ObjectBuffer, ObjectInModuleList, GlobalObjectID, encoder,
                    captures, connected, odEncoder, GlobalObjectCount, Action_i,
                    addAll, trVars, born, fired, requested, pushed,
                    outOfBounds, executeVars>>

\* CreateObject scans up from the cursor for a slot that is not alive; past
\* the end it takes slot 0, alive or not.
StartCursor ==
  IF GlobalObjectCount > maxTrackingObjects - 1 THEN 0 ELSE GlobalObjectCount

ScanStopsAt(s) ==
  \/ /\ s >= StartCursor
     /\ ~ObjectBuffer[s].objectAliveFlag
     /\ \A t \in StartCursor .. s - 1 : ObjectBuffer[t].objectAliveFlag
  \/ /\ s = 0
     /\ \A t \in StartCursor .. maxTrackingObjects - 1 :
          ObjectBuffer[t].objectAliveFlag

\* Fault: the result is left for the PC to set.
NewObject_NoResult(id) ==
  [ObjectID |-> id, ProcessedResult |-> FALSE, objectAliveFlag |-> TRUE]

NewObject(id) ==
  [ObjectID |-> id, ProcessedResult |-> TRUE, objectAliveFlag |-> TRUE]

\* Fault: IDs are reused with the slots.
NextID_Wraps == (GlobalObjectID + 1) % maxTrackingObjects

NextID == GlobalObjectID + 1

\* The part of CreateObject before TCPSendPacket blocks, with the objects
\* already dropped in the same step.
CreateObject(m, dropped) ==
  \E s \in Slots :
    /\ ScanStopsAt(s)
    /\ ObjectBuffer' = [ObjectBuffer EXCEPT ![s] = NewObject(GlobalObjectID)]
    /\ GlobalObjectID' = NextID
    /\ GlobalObjectCount' = s
    /\ born' = Append(born, m)
    /\ lost' = lost \cup dropped \cup
                 IF ObjectBuffer[s].objectAliveFlag
                   THEN {<<ObjectBuffer[s].ObjectID, "overwritten">>}
                   ELSE {}

\* The sensor sees an object and none was delivered: a new one.
OdDetect ==
  LET m == odModule
  IN /\ odPc = "scan"
     /\ ~Delivered(m)
     /\ Accepted(m)
     /\ TakeLight(m)
     /\ CreateObject(m, {})
     /\ odPc' = "sending"
     /\ addAll' = TRUE
     /\ AddActiveFlag' = TRUE
     /\ UNCHANGED <<ObjectInModuleList, ModuleQueue, encoder, captures,
                    connected, odModule, odEncoder, Action_i, trVars, fired,
                    requested, pushed, outOfBounds, executeVars>>

\* The delivered object is too late: the pulse is taken for a new one.
OdReplace ==
  LET m == odModule
  IN /\ odPc = "scan"
     /\ Delivered(m)
     /\ Accepted(m)
     /\ ModuleConfig[m].CreateObjectFlag
     /\ ~InWindow(m)
     /\ ModuleQueue' = Received(m)
     /\ TakeLight(m)
     /\ CreateObject(m, {<<DeliveredID(m), "window">>})
     /\ odPc' = "sending"
     /\ addAll' = FALSE
     /\ AddActiveFlag' = TRUE
     /\ UNCHANGED <<ObjectInModuleList, encoder, captures, connected, odModule,
                    odEncoder, Action_i, trVars, fired, requested, pushed,
                    outOfBounds, executeVars>>

\* TCPSendPacket returns.  A detected object gets all the actions of the
\* module; one that replaces a late object gets the single action the loop
\* variable Action_i still points at.
OdAddActions ==
  LET m    == odModule
      id   == ObjectBuffer[GlobalObjectCount].ObjectID
      list == IF addAll
                THEN AddAllActions(ObjectInModuleList[m], m, id, Now(m))
                ELSE AddOneAction(ObjectInModuleList[m], m, id, Now(m),
                                  Action_i + 1)
  IN /\ odPc = "sending"
     /\ ObjectInModuleList' = [ObjectInModuleList EXCEPT ![m] = list]
     /\ Action_i' = IF addAll THEN NumberOfActions(m) ELSE Action_i
     /\ lost' = lost \cup
                  LostUnlessCarried(list, m, id, IF addAll THEN "list full"
                                                 ELSE "stale action")
     /\ GlobalObjectCount' = GlobalObjectCount + 1
     /\ AddActiveFlag' = FALSE
     /\ NextModule
     /\ UNCHANGED <<ObjectBuffer, ModuleQueue, GlobalObjectID, worldVars,
                    odEncoder, triggerInterval, LS_EncoderNumTem, addAll,
                    trVars, born, fired, requested, pushed, outOfBounds,
                    executeVars>>

\* Nothing delivered and nothing to create.  A pulse that failed the
\* debounce test leaves AddActiveFlag set.
OdSkip ==
  LET m == odModule
  IN /\ odPc = "scan"
     /\ ~Delivered(m)
     /\ ~Accepted(m)
     /\ TakeLight(m)
     /\ AddActiveFlag' = (AddActiveFlag \/ LightTaken(m))
     /\ NextModule
     /\ UNCHANGED <<sharedVars, encoder, captures, connected, odEncoder,
                    GlobalObjectCount, Action_i, addAll, trVars, history,
                    executeVars>>

ObjectDetectionThread ==
  OdStart \/ OdAccept \/ OdDrop \/ OdDetect \/ OdReplace \/ OdAddActions \/ OdSkip

-----------------------------------------------------------------------------
(* Tracking.                                                               *)

OdBlocked == odPc \in {"delay", "sending"}

Item == ObjectInModuleList[trModule][trAction]
ItemAction == ActionAt(trModule, Item.ActionNumber)

Due ==
  /\ Item # NoAction
  /\ trEncoder[ModuleConfig[trModule].Encoder] > Item.TargetValue

\* Faults: the loop over the entries ends one too late, or one too early.
NextEntry_OneTooFar ==
  IF trAction + 1 <= maxTrackingObjects
    THEN trPc' = "scan" /\ trAction' = trAction + 1 /\ UNCHANGED trModule
  ELSE IF trModule + 1 < Module_Count
    THEN trPc' = "scan" /\ trAction' = 0 /\ trModule' = trModule + 1
  ELSE trPc' = "delay" /\ trAction' = 0 /\ trModule' = 0

NextEntry_OneShort ==
  IF trAction + 2 < maxTrackingObjects
    THEN trPc' = "scan" /\ trAction' = trAction + 1 /\ UNCHANGED trModule
  ELSE IF trModule + 1 < Module_Count
    THEN trPc' = "scan" /\ trAction' = 0 /\ trModule' = trModule + 1
  ELSE trPc' = "delay" /\ trAction' = 0 /\ trModule' = 0

\* The two nested loops, and the vTaskDelay after them.
NextEntry ==
  IF trAction + 1 < maxTrackingObjects
    THEN trPc' = "scan" /\ trAction' = trAction + 1 /\ UNCHANGED trModule
  ELSE IF trModule + 1 < Module_Count
    THEN trPc' = "scan" /\ trAction' = 0 /\ trModule' = trModule + 1
  ELSE trPc' = "delay" /\ trAction' = 0 /\ trModule' = 0

TrStart ==
  /\ trPc = "delay"
  /\ OdBlocked
  /\ connected
  /\ trPc' = "scan"
  /\ trEncoder' = encoder
  /\ UNCHANGED <<sharedVars, worldVars, odVars, trModule, trAction, object_i,
                 history, executeVars>>

TrPass ==
  /\ trPc = "scan"
  /\ OdBlocked
  /\ ~Due
  /\ NextEntry
  /\ UNCHANGED <<sharedVars, worldVars, odVars, trEncoder, object_i, history,
                 executeVars>>

\* The case for ItemAction's type is entered and its effect done; IsActionAlive
\* is still set.
Fire(type) ==
  /\ trPc = "scan"
  /\ OdBlocked
  /\ Due
  /\ ItemAction.ActionType = type
  /\ fired' = fired \cup {<<Item.ObjectID, trModule, Item.ActionNumber>>}

MessageOf(type) ==
  CASE type = "SetOutput"     -> Message_TrrigerOutput
    [] type = "TriggerCamera" -> Message_TrrigerCamera
    [] type = "TriggerSensor" -> Message_TrrigerSensor

TrOutput ==
  \E type \in {"SetOutput", "TriggerCamera", "TriggerSensor"} :
    /\ Fire(type)
    /\ Notify(MessageOf(type))
    /\ trPc' = "clear"
    /\ UNCHANGED <<sharedVars, worldVars, odVars, trModule, trAction, trEncoder,
                   object_i, born, lost, requested, pushed, outOfBounds>>

TrRequestMachineData ==
  /\ Fire("RequestMachineData")
  /\ trPc' = "clear"
  /\ UNCHANGED <<sharedVars, worldVars, odVars, trModule, trAction, trEncoder,
                 object_i, born, lost, requested, pushed, outOfBounds,
                 executeVars>>

\* xQueueSend without waiting: a full queue drops the object.
TrTakeOver ==
  LET dest == ItemAction.DestinationModule
      item == [DelieverdObjectID |-> Item.ObjectID,
               DelieverdEncoderNum |-> trEncoder[ModuleConfig[dest].Encoder]]
  IN /\ Fire("ObjectTakeOver")
     /\ IF Len(ModuleQueue[dest]) < moduleQueueDepth
          THEN /\ ModuleQueue' = [ModuleQueue EXCEPT ![dest] = Append(@, item)]
               /\ UNCHANGED lost
          ELSE /\ lost' = lost \cup {<<Item.ObjectID, "queue full">>}
               /\ UNCHANGED ModuleQueue
     /\ trPc' = "clear"
     /\ UNCHANGED <<ObjectBuffer, ObjectInModuleList, GlobalObjectID, worldVars,
                    odVars, trModule, trAction, trEncoder, object_i, born,
                    requested, pushed, outOfBounds, executeVars>>

\* The linear search for an ObjectID, alive or not: the first slot that has
\* it, or maxTrackingObjects, which the code goes on to index.
FoundAt(id, s) ==
  \/ /\ s \in Slots
     /\ ObjectBuffer[s].ObjectID = id
     /\ \A t \in 0 .. s - 1 : ObjectBuffer[t].ObjectID # id
  \/ /\ s = maxTrackingObjects
     /\ \A t \in Slots : ObjectBuffer[t].ObjectID # id

TrFindObject ==
  /\ trPc = "scan"
  /\ OdBlocked
  /\ Due
  /\ ItemAction.ActionType = "PushOut"
  /\ \E s \in 0 .. maxTrackingObjects : FoundAt(Item.ObjectID, s) /\ object_i' = s
  /\ trPc' = "found"
  /\ UNCHANGED <<sharedVars, worldVars, odVars, trModule, trAction, trEncoder,
                 history, executeVars>>

\* The pusher is commanded when the slot found says so.  The slot may have
\* been overwritten since: then it is another object's result that decides.
TrPush ==
  /\ trPc = "found"
  /\ OdBlocked
  /\ object_i \in Slots
  /\ IF ObjectBuffer[object_i].ProcessedResult
       THEN UNCHANGED <<pushed, executeVars>>
       ELSE Notify(Message_TrrigerPush) /\ pushed' = pushed \cup {Item.ObjectID}
  /\ trPc' = "decided"
  /\ UNCHANGED <<sharedVars, worldVars, odVars, trModule, trAction, trEncoder,
                 object_i, born, fired, lost, requested, outOfBounds>>

\* No slot has the ObjectID: the code reads one past the end, so the result
\* is anything.
TrPushOutOfBounds ==
  /\ trPc = "found"
  /\ OdBlocked
  /\ object_i = maxTrackingObjects
  /\ outOfBounds' = TRUE
  /\ \/ UNCHANGED <<pushed, executeVars>>
     \/ Notify(Message_TrrigerPush) /\ pushed' = pushed \cup {Item.ObjectID}
  /\ trPc' = "decided"
  /\ UNCHANGED <<sharedVars, worldVars, odVars, trModule, trAction, trEncoder,
                 object_i, born, fired, lost, requested>>

\* Fault: the object is not released after its push-out.
Freed_Never(s) == ObjectBuffer

Freed(s) == [ObjectBuffer EXCEPT ![s].objectAliveFlag = FALSE]

\* The slot found is freed, whichever object it holds by now; past the end it
\* is memory outside the model that is written.
TrFree ==
  /\ trPc = "decided"
  /\ OdBlocked
  /\ IF object_i \in Slots
       THEN /\ ObjectBuffer' = Freed(object_i)
            /\ lost' = lost \cup
                  IF ObjectBuffer[object_i].ObjectID = Item.ObjectID THEN {}
                  ELSE {<<ObjectBuffer[object_i].ObjectID, "freed by another">>}
       ELSE UNCHANGED <<ObjectBuffer, lost>>
  /\ fired' = fired \cup {<<Item.ObjectID, trModule, Item.ActionNumber>>}
  /\ trPc' = "clear"
  /\ UNCHANGED <<ObjectInModuleList, ModuleQueue, GlobalObjectID, worldVars,
                 odVars, trModule, trAction, trEncoder, object_i, born,
                 requested, pushed, outOfBounds, executeVars>>

\* Fault: IsActionAlive stays set.
Cleared_Never == ObjectInModuleList

Cleared == [ObjectInModuleList EXCEPT ![trModule][trAction] = NoAction]

TrClear ==
  /\ trPc = "clear"
  /\ OdBlocked
  /\ ObjectInModuleList' = Cleared
  /\ NextEntry
  /\ UNCHANGED <<ObjectBuffer, ModuleQueue, GlobalObjectID, worldVars, odVars,
                 trEncoder, object_i, history, executeVars>>

TrackingThread ==
  TrStart \/ TrPass \/ TrOutput \/ TrRequestMachineData \/ TrTakeOver
    \/ TrFindObject \/ TrPush \/ TrPushOutOfBounds \/ TrFree \/ TrClear

-----------------------------------------------------------------------------
(* DataProcess: the PC's result for an object it was told of.              *)

STM32GetPushResult(id) ==
  /\ connected
  /\ id \notin requested
  /\ Cardinality(requested) < MaxResults
  /\ requested' = requested \cup {id}
  /\ \E s \in 0 .. maxTrackingObjects :
       /\ FoundAt(id, s)
       /\ IF s \in Slots
            THEN /\ ObjectBuffer' =
                      [ObjectBuffer EXCEPT ![s].ProcessedResult = FALSE]
                 /\ UNCHANGED outOfBounds
            ELSE outOfBounds' = TRUE /\ UNCHANGED ObjectBuffer
  /\ UNCHANGED <<ObjectInModuleList, ModuleQueue, GlobalObjectID, worldVars,
                 odVars, trVars, born, fired, lost, pushed, executeVars>>

ActionExecuteThread ==
  ExecuteStep /\ UNCHANGED <<sharedVars, worldVars, odVars, trVars, history>>

World == \/ \E e \in Encoders : Move(e)
         \/ \E l \in Lights : Capture(l)
         \/ ClientsChange

Next == \/ World
        \/ ObjectDetectionThread
        \/ TrackingThread
        \/ \E id \in 0 .. GlobalObjectID - 1 : STM32GetPushResult(id)
        \/ ActionExecuteThread

Spec == Init /\ [][Next]_vars

Fairness ==
  /\ WF_vars(ObjectDetectionThread)
  /\ SF_vars(TrackingThread)
  /\ WF_vars(ActionExecuteThread)
  /\ \A e \in Encoders : WF_vars(Move(e))

FairSpec == Spec /\ Fairness

-----------------------------------------------------------------------------
(* Properties.                                                             *)

SharedTypeOK ==
  /\ ObjectBuffer \in [Slots -> ObjectInfo]
  /\ ObjectInModuleList \in [Modules -> [Slots -> ActionListItem \cup {NoAction}]]
  /\ ModuleQueue \in [Modules -> Seq(ModuleQueueItem)]
  /\ GlobalObjectID \in Nat

WorldTypeOK ==
  /\ encoder \in [Encoders -> Nat]
  /\ captured \in [Lights -> BOOLEAN]
  /\ captures \in Nat
  /\ connected \in BOOLEAN

OdTypeOK ==
  /\ odPc \in {"delay", "scan", "sending"}
  /\ odModule \in Modules
  /\ odEncoder \in [Encoders -> Nat]
  /\ GlobalObjectCount \in 0 .. maxTrackingObjects
  /\ odPc = "sending" => GlobalObjectCount \in Slots
  /\ AddActiveFlag \in BOOLEAN
  /\ triggerInterval \in Int
  /\ LS_EncoderNumTem \in [Lights -> Nat]
  /\ Action_i \in Nat
  /\ addAll \in BOOLEAN

TrTypeOK ==
  /\ trPc \in {"delay", "scan", "found", "decided", "clear"}
  /\ trModule \in Modules
  /\ trAction \in Slots
  /\ trPc \in {"found", "decided", "clear"} => Item \in ActionListItem
  /\ trEncoder \in [Encoders -> Nat]
  /\ object_i \in 0 .. maxTrackingObjects

HistoryTypeOK ==
  /\ born \in Seq(Modules)
  /\ requested \subseteq Nat
  /\ pushed \subseteq Nat
  /\ outOfBounds \in BOOLEAN

\* Each variable has its type; what Tracking found due stays in its list
\* until Tracking clears it, and the cursor may stand one past the last slot
\* but never while CreateObject's result is used.
TypeOK ==
  /\ SharedTypeOK
  /\ WorldTypeOK
  /\ OdTypeOK
  /\ TrTypeOK
  /\ HistoryTypeOK
  /\ ExecuteTypeOK

AliveSlots == {s \in Slots : ObjectBuffer[s].objectAliveFlag}

\* Two live objects never share an ObjectID, and everything that names an
\* object (a slot, a pending action, a queued delivery) names one that
\* CreateObject has numbered: the searches by ObjectID in Tracking.c:132 and
\* DataProcess.c:129 can then mean only one object.
UniqueIDs ==
  \A s, t \in AliveSlots :
    ObjectBuffer[s].ObjectID = ObjectBuffer[t].ObjectID => s = t

NumberedSlots ==
  /\ \A s \in AliveSlots : ObjectBuffer[s].ObjectID < GlobalObjectID
  /\ odPc = "sending" => ObjectBuffer[GlobalObjectCount].ObjectID < GlobalObjectID

NumberedEntries ==
  \A m \in Modules, s \in Slots :
    ObjectInModuleList[m][s] # NoAction
      => ObjectInModuleList[m][s].ObjectID < GlobalObjectID

NumberedDeliveries ==
  \A m \in Modules : \A q \in 1 .. Len(ModuleQueue[m]) :
    ModuleQueue[m][q].DelieverdObjectID < GlobalObjectID

ObjectIDsUnique ==
  UniqueIDs /\ NumberedSlots /\ NumberedEntries /\ NumberedDeliveries

\* Entries that are alive and not the one whose effect is done and whose
\* IsActionAlive Tracking is about to clear.
Pending(m, s) ==
  /\ ObjectInModuleList[m][s] # NoAction
  /\ ~(trPc = "clear" /\ m = trModule /\ s = trAction)

\* No action of a module is carried out twice for one object (readme.txt:81,
\* actions are "neither repeated nor triggered at random"): it is pending in
\* at most one entry, and not at all once it has fired.  For a line in which
\* no two take-overs lead to one module and none leads back.
NoActionRepeated ==
  \A m \in Modules, s \in Slots :
    LET a == ObjectInModuleList[m][s]
    IN Pending(m, s) =>
         /\ <<a.ObjectID, m, a.ActionNumber>> \notin fired
         /\ \A t \in Slots \ {s} :
              LET b == ObjectInModuleList[m][t]
              IN b # NoAction => <<b.ObjectID, b.ActionNumber>>
                                   # <<a.ObjectID, a.ActionNumber>>

\* What carries object id on: a pending take-over or push-out, a delivery in
\* a queue, or its creation still under way.
ListCarriers(id) ==
  {x \in Modules \X Slots :
     LET entry == ObjectInModuleList[x[1]][x[2]]
     IN /\ Pending(x[1], x[2])
        /\ entry.ObjectID = id
        /\ IsCarrier(x[1], entry.ActionNumber)}

QueueCarriers(id) ==
  {x \in Modules \X (1 .. moduleQueueDepth) :
     /\ x[2] <= Len(ModuleQueue[x[1]])
     /\ ModuleQueue[x[1]][x[2]].DelieverdObjectID = id}

BeingCreated(id) ==
  odPc = "sending" /\ ObjectBuffer[GlobalObjectCount].ObjectID = id

Carriers(id) ==
  Cardinality(ListCarriers(id)) + Cardinality(QueueCarriers(id))
    + IF BeingCreated(id) THEN 1 ELSE 0

LostFor(reasons) == {x[1] : x \in {y \in lost : y[2] \in reasons}}

DropReasons == {"no light", "bounce", "window", "list full", "queue full",
                "stale action"}

StolenReasons == {"overwritten", "freed by another"}

\* A slot of ObjectBuffer stays occupied only for an object something still
\* carries towards its push-out, or one dropped at one of the places the
\* model names: nothing else leaks a slot (readme.txt:139 reports the leak
\* after "no light").
AliveIsCarriedOrDropped ==
  \A s \in AliveSlots :
    LET id == ObjectBuffer[s].ObjectID
    IN Carriers(id) > 0 \/ id \in LostFor(DropReasons)

\* The two places that track an object agree: it is carried by at most one
\* entry, delivery or creation at a time, never after it was dropped, and
\* while it is carried it keeps its slot unless the slot was taken from it.
\* For a line in which every module has one take-over or push-out.
CarriedHasSlot ==
  \A id \in 0 .. GlobalObjectID - 1 :
    /\ Carriers(id) <= 1
    /\ Carriers(id) = 1 =>
         /\ id \notin LostFor(DropReasons)
         /\ \/ \E s \in AliveSlots : ObjectBuffer[s].ObjectID = id
            \/ id \in LostFor(StolenReasons)

\* A module acts only on objects it created or was handed: what is pending or
\* done for object i in module m follows i's birth in m or the firing of a
\* take-over to m for i.  This fails if two sections mix up an ObjectID.
Reached(id, m) ==
  \/ born[id + 1] = m
  \/ \E x \in fired : /\ x[1] = id
                      /\ ActionAt(x[2], x[3]).ActionType = "ObjectTakeOver"
                      /\ ActionAt(x[2], x[3]).DestinationModule = m

ActsOnlyWhereReached ==
  /\ \A x \in fired : Reached(x[1], x[2])
  /\ \A m \in Modules, s \in Slots :
       ObjectInModuleList[m][s] # NoAction
         => Reached(ObjectInModuleList[m][s].ObjectID, m)
  /\ \A m \in Modules : \A q \in 1 .. Len(ModuleQueue[m]) :
       Reached(ModuleQueue[m][q].DelieverdObjectID, m)

\* The pusher is commanded for an object exactly when the PC's result for it
\* had arrived by then, as long as no live slot was overwritten: results do
\* not stick to a slot when it is reused, nor reach another object.
PushFollowsResult ==
  [][(trPc = "found" /\ trPc' = "decided" /\ LostFor({"overwritten"}) = {})
       => (Item.ObjectID \in pushed' <=> Item.ObjectID \in requested)]_vars

\* While the PC stays connected and the line runs to its end, every object
\* leaves: its slot is freed, it was dropped, or what carries it is due
\* beyond the point where the line stops.
Leaves(id) ==
  \/ \A s \in AliveSlots : ObjectBuffer[s].ObjectID # id
  \/ id \in LostFor(DropReasons)
  \/ \E m \in Modules, s \in Slots :
       /\ Pending(m, s)
       /\ ObjectInModuleList[m][s].ObjectID = id
       /\ ObjectInModuleList[m][s].TargetValue >= MaxEncoder

EveryObjectLeaves ==
  <>[]connected =>
    \A id \in 0 .. MaxCaptures - 1 : GlobalObjectID > id ~> Leaves(id)

\* ObjectDetection.c:291, a module without CreateObjectFlag "is not allowed
\* to create objects".
CreatesOnlyWhereAllowed ==
  [][GlobalObjectID' # GlobalObjectID
       => ModuleConfig[odModule].CreateObjectFlag]_vars
=============================================================================
