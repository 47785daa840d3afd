----------------------------- MODULE TrackedLine -----------------------------
(***************************************************************************)
(* ObjectTracking as an implementation of ConveyorLine: the place of an    *)
(* object is read off what carries it.  For lines in which every section   *)
(* ends in one take-over or one push-out.                                  *)
(***************************************************************************)
EXTENDS ObjectTracking

Objects == 0 .. MaxCaptures - 1

ActionsOf(m) == {ModuleConfig[m].Actions[k] : k \in 1 .. NumberOfActions(m)}

TakeOvers ==
  {x \in Modules \X Modules :
     \E a \in ActionsOf(x[1]) : /\ a.ActionType = "ObjectTakeOver"
                                /\ a.DestinationModule = x[2]}

Pushers == {m \in Modules : \E a \in ActionsOf(m) : a.ActionType = "PushOut"}

PlaceOf(o) ==
  LET inList  == ListCarriers(o)
      inQueue == QueueCarriers(o)
  IN IF o >= GlobalObjectID THEN <<"unborn">>
     ELSE IF BeingCreated(o) THEN <<"at", odModule>>
     ELSE IF inList # {} THEN <<"at", (CHOOSE x \in inList : TRUE)[1]>>
     ELSE IF inQueue # {} THEN <<"on the way", (CHOOSE x \in inQueue : TRUE)[1]>>
     ELSE IF o \in LostFor(DropReasons) THEN <<"lost">>
     ELSE <<"pushed out">>

Line == INSTANCE ConveyorLine WITH Sections <- Modules,
                                   place <- [o \in Objects |-> PlaceOf(o)]

\* Through preemption, blocked sends, full lists and queues, late deliveries
\* and overwritten slots, the tasks together move each object as ConveyorLine
\* allows: it enters once, follows the configured take-overs, is never in two
\* places, and vanishes only by a push-out or where the code gives it up.
ImplementsLine == Line!Spec
=============================================================================
