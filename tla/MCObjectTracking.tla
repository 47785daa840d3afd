--------------------------- MODULE MCObjectTracking ---------------------------
(***************************************************************************)
(* Conveyor lines for model-checking ObjectTracking: values for its        *)
(* constant ModuleConfig.                                                  *)
(***************************************************************************)
EXTENDS TrackedLine, TLC

CONSTANTS e1, l1, l2

Action(type, target, dest) ==
  [ActionType |-> type, TargetValue |-> target, DestinationModule |-> dest]

Section(light, create, debounce, window, actions) ==
  [Encoder |-> e1, ModuleTrigger |-> light, CreateObjectFlag |-> create,
   Debounce |-> debounce, DoubleTrigger |-> 0, TrackingWindow |-> window,
   Actions |-> actions]

\* A camera section with a sensor, then a push-out section without one.
CameraThenPusher ==
  0 :> Section(l1, TRUE, 0, 2, <<Action("TriggerCamera", 0, 0),
                                 Action("ObjectTakeOver", 0, 1)>>)
  @@ 1 :> Section(NoLight, FALSE, 0, 2, <<Action("PushOut", 1, 0)>>)

\* Two sections with a sensor each; the second may create objects as well,
\* rejects pulses closer than two counts, and drives two outputs.
TwoSensors ==
  0 :> Section(l1, TRUE, 0, 1, <<Action("ObjectTakeOver", 0, 1)>>)
  @@ 1 :> Section(l2, TRUE, 1, 1, <<Action("PushOut", 0, 0),
                                    Action("SetOutput", 0, 0)>>)

\* A section that asks for machine data and hands over, then the pusher.
DataThenPusher ==
  0 :> Section(l1, TRUE, 0, 2, <<Action("RequestMachineData", 0, 0),
                                 Action("ObjectTakeOver", 0, 1)>>)
  @@ 1 :> Section(NoLight, FALSE, 0, 2, <<Action("PushOut", 0, 0)>>)

\* A creating section with a debounce of one count, then one that may not
\* create objects and has no debounce.
CreatorThenFollower ==
  0 :> Section(l1, TRUE, 1, 2, <<Action("ObjectTakeOver", 0, 1)>>)
  @@ 1 :> Section(l2, FALSE, 0, 2, <<Action("PushOut", 0, 0)>>)
=============================================================================
