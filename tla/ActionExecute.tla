---------------------------- MODULE ActionExecute ----------------------------
(***************************************************************************)
(* The ActionExecute task (TRACK/ActionExecute.c) and the one-word mailbox *)
(* through which the Tracking task commands it: a FreeRTOS task            *)
(* notification written with eSetValueWithOverwrite and read with          *)
(* ulTaskNotifyTake(pdTRUE, portMAX_DELAY).                                *)
(*                                                                         *)
(* The task drives one output pin at a time: it raises the pin of the      *)
(* message, sleeps 10 ms, lowers it and sleeps 1 ms.  It runs at priority  *)
(* 8, above every sender, so a notification that finds it waiting is taken *)
(* before the sender runs its next statement: Notify merges the two.       *)
(***************************************************************************)
EXTENDS Naturals

VARIABLES
  notifyValue,   \* the notification word not yet taken, or NoMessage
  pin,           \* the message whose output pin is high, or NoMessage
  executePc      \* "waiting" in ulTaskNotifyTake, "pulse" or "gap" in a delay

executeVars == <<notifyValue, pin, executePc>>

NoMessage == 0
Message_TrrigerCamera == 1
Message_TrrigerSensor == 2
Message_TrrigerOutput == 3
Message_TrrigerPush   == 4

Messages == {Message_TrrigerCamera, Message_TrrigerSensor,
             Message_TrrigerOutput, Message_TrrigerPush}

ExecuteTypeOK ==
  /\ notifyValue \in Messages \cup {NoMessage}
  /\ pin \in Messages \cup {NoMessage}
  /\ executePc \in {"waiting", "pulse", "gap"}
  /\ pin # NoMessage <=> executePc = "pulse"
  /\ executePc = "waiting" => notifyValue = NoMessage

ExecuteInit ==
  /\ notifyValue = NoMessage
  /\ pin = NoMessage
  /\ executePc = "waiting"

\* A sender's xTaskGenericNotify(ActionExecuteTask_Handler, v,
\* eSetValueWithOverwrite, NULL): a word not yet taken is overwritten.
Notify(v) ==
  \/ /\ executePc = "waiting"
     /\ pin' = v
     /\ executePc' = "pulse"
     /\ UNCHANGED notifyValue
  \/ /\ executePc # "waiting"
     /\ notifyValue' = v
     /\ UNCHANGED <<pin, executePc>>

\* vTaskDelay(10) is over: the pin goes low and the task sleeps one tick.
PulseEnd ==
  /\ executePc = "pulse"
  /\ pin' = NoMessage
  /\ executePc' = "gap"
  /\ UNCHANGED notifyValue

\* Back at ulTaskNotifyTake: a pending word is read and cleared and its pin
\* raised; without one the task blocks.
TakeNotification ==
  /\ executePc = "gap"
  /\ pin' = notifyValue
  /\ executePc' = IF notifyValue = NoMessage THEN "waiting" ELSE "pulse"
  /\ notifyValue' = NoMessage

ExecuteStep == PulseEnd \/ TakeNotification
=============================================================================
