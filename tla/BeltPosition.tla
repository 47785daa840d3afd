---------------------------- MODULE BeltPosition ----------------------------
(***************************************************************************)
(* An encoder and the two tasks that read it: ObjectDetection, which       *)
(* judges a pulse by the counts since the last and gives an action its     *)
(* target, and Tracking, which carries the action out when its own reading *)
(* has passed the target.                                                  *)
(*                                                                         *)
(* A reading is two loads, of the overflow count and of the counter, in an *)
(* order C leaves open.  The encoder's interrupt is never masked and comes *)
(* between any two loads, and Detection preempts Tracking between any two. *)
(***************************************************************************)
EXTENDS Encoder

CONSTANTS
  ShortSize,    \* the values of a short, 2^16
  Debounce,     \* the larger of the section's Debounce and DoubleTrigger
  TargetValue,  \* how far from the light the action is due
  NoTarget      \* no action is pending

ASSUME BeltAssumption ==
  /\ ShortSize \in Nat \ {0} /\ WordSize % ShortSize = 0
  /\ Debounce \in Nat
  /\ TargetValue \in Nat
  /\ NoTarget \notin Int

VARIABLES
  od,               \* ObjectDetection's reading, a record as below
  tr,               \* Tracking's
  LS_EncoderNumTem, \* Detection's reading at the last pulse
  target,           \* of the pending action, as AddActionToList keeps it
  last              \* history: where the belt was at the last pulse, or Unsure

readVars == <<od, tr, LS_EncoderNumTem, target, last>>
vars == <<encoderVars, readVars>>

\* What is loaded ("overflow" or "counter"; "delay" is nothing, "read" both)
\* and its value; as history, where the belt was when the counter was loaded,
\* and whether a wrap was counted between the two loads.
Nothing == [pc |-> "delay", value |-> 0, at |-> 0, torn |-> FALSE]

\* A reading a distance can be told from: not torn, and the belt not behind its
\* start, where the word has gone round.
Sound(r) == ~r.torn /\ r.at >= 0

Unsure == -1

Place(r) == IF Sound(r) THEN r.at ELSE Unsure

Init ==
  /\ EncoderInit
  /\ od = Nothing
  /\ tr = Nothing
  /\ LS_EncoderNumTem = 0
  /\ target = NoTarget
  /\ last = 0

-----------------------------------------------------------------------------
(* The belt and the encoder's interrupt.                                   *)

BeltTurns ==
  /\ \E back \in BOOLEAN : Turn(back)
  /\ UNCHANGED readVars

\* The reading r after a step of the handler.
Interrupted(r) ==
  [r EXCEPT !.torn = @ \/ (encoderPc = "printing" /\ r.pc \in {"overflow", "counter"})]

EncoderInterrupt ==
  /\ EncoderHandler
  /\ od' = Interrupted(od)
  /\ tr' = Interrupted(tr)
  /\ UNCHANGED <<LS_EncoderNumTem, target, last>>

-----------------------------------------------------------------------------
(* Readings.                                                               *)

FirstLoad(operand) ==
  IF operand = "overflow"
    THEN [Nothing EXCEPT !.pc = operand, !.value = OverflowCount]
    ELSE [Nothing EXCEPT !.pc = operand, !.value = counter, !.at = Position]

SecondLoad(r) ==
  IF r.pc = "overflow"
    THEN [r EXCEPT !.pc = "read", !.value = EncoderNumber(@, counter), !.at = Position]
    ELSE [r EXCEPT !.pc = "read", !.value = EncoderNumber(OverflowCount, @)]

Loads(r, next) ==
  \/ /\ r.pc = "delay"
     /\ \E operand \in {"overflow", "counter"} : next = FirstLoad(operand)
  \/ /\ r.pc \in {"overflow", "counter"}
     /\ next = SecondLoad(r)

\* The conversion to a signed type of so many values.
Narrowed(n, size) ==
  LET low == n % size
  IN IF 2 * low < size THEN low ELSE low - size

-----------------------------------------------------------------------------
(* ObjectDetection.                                                        *)

\* Neither task runs while the interrupt is pending or being handled.
TaskRuns == ~EncoderBusy /\ ~miscounted

OdReads ==
  /\ TaskRuns
  /\ Loads(od, od')
  /\ UNCHANGED <<encoderVars, tr, LS_EncoderNumTem, target, last>>

triggerInterval == Narrowed(od.value - LS_EncoderNumTem, ShortSize)

Accepted == triggerInterval > Debounce

\* Fault: a pulse that is rejected does not count as the last one.
LastPulse_Accepted == IF Accepted THEN od.value ELSE LS_EncoderNumTem

LastPulse == od.value

\* The argument of AddActionToList, an int.
Target == Narrowed(od.value + TargetValue, WordSize)

\* The light has reported a pulse.  Bound: one object at a time, so that the
\* pending action is the last pulse's.
OdTakesPulse ==
  /\ TaskRuns
  /\ od.pc = "read"
  /\ target = NoTarget
  /\ LS_EncoderNumTem' = LastPulse
  /\ last' = Place(od)
  /\ target' = IF Accepted THEN Target ELSE NoTarget
  /\ od' = Nothing
  /\ UNCHANGED <<encoderVars, tr>>

OdSeesNothing ==
  /\ TaskRuns
  /\ od.pc = "read"
  /\ od' = Nothing
  /\ UNCHANGED <<encoderVars, tr, LS_EncoderNumTem, target, last>>

ObjectDetectionThread == OdReads \/ OdTakesPulse \/ OdSeesNothing

-----------------------------------------------------------------------------
(* Tracking.                                                               *)

TrReads ==
  /\ TaskRuns /\ od.pc = "delay"
  /\ Loads(tr, tr')
  /\ UNCHANGED <<encoderVars, od, LS_EncoderNumTem, target, last>>

\* Fault: the action is carried out on its target, not past it.
Passed_Reached == tr.value >= target

Passed == tr.value > target

TrTests ==
  /\ TaskRuns /\ od.pc = "delay"
  /\ tr.pc = "read"
  /\ target' = IF target # NoTarget /\ Passed THEN NoTarget ELSE target
  /\ tr' = Nothing
  /\ UNCHANGED <<encoderVars, od, LS_EncoderNumTem, last>>

TrackingThread == TrReads \/ TrTests

\* Bound: the line is at its end with the first wrap miscounted.
LineOver == miscounted /\ ~EncoderBusy /\ UNCHANGED vars

Next ==
  \/ BeltTurns
  \/ EncoderInterrupt
  \/ ObjectDetectionThread
  \/ TrackingThread
  \/ LineOver

Spec == Init /\ [][Next]_vars

-----------------------------------------------------------------------------
(* Properties.                                                             *)

Word == 0 .. WordSize - 1

ReadingOK(r) ==
  /\ r \in [pc : {"delay", "overflow", "counter", "read"}, value : Int,
            at : Int, torn : BOOLEAN]
  /\ r.pc = "read" => r.value \in Word

TypeOK ==
  /\ EncoderTypeOK
  /\ ReadingOK(od) /\ ReadingOK(tr)
  /\ last \in Int
  /\ LS_EncoderNumTem \in Word
  /\ target \in Int \cup {NoTarget}
  /\ target # NoTarget => 2 * target \in -WordSize .. WordSize - 1

\* What a task reads is the belt's position at its load of the counter, less
\* one count for each turn (a turn is counted as ENCODER_CNT_MAX, and is one
\* more), on either side of the start, except when a wrap was counted between
\* its two loads or the handler has miscounted.
ReadsBelt ==
  \A r \in {od, tr} :
    r.pc = "read" /\ ~r.torn => r.value = (r.at - r.at \div Period) % WordSize

\* The turns between two places.
Turns(p, q) == q \div Period - p \div Period

\* A pulse is judged by the distance the belt has moved since the last pulse
\* was read, to within one count a turn, and so never rejected when it is
\* further away than that: unless a reading was not sound, or the distance
\* does not fit into a short.
PulseJudgedByDistance ==
  [][LET distance == od.at - last
     IN /\ od.pc = "read" /\ last' # last
        /\ Sound(od) /\ last # Unsure
        /\ 0 <= distance /\ 2 * distance < ShortSize
        => triggerInterval \in distance - Turns(last, od.at) .. distance]_vars

\* An action is carried out when the belt has carried the object past its
\* target, never before, and at most one count a turn late: unless one of the
\* two readings was not sound, the target does not fit into an int, or (late)
\* the word has gone round.
ActsPastTarget ==
  [][LET moved == tr.at - last
     IN /\ tr.pc = "read" /\ tr' = Nothing /\ target # NoTarget
        /\ Sound(tr) /\ last # Unsure
        /\ 2 * (last + TargetValue) < WordSize
        => IF target' = NoTarget
             THEN moved > TargetValue
             ELSE moved <= TargetValue + Turns(last, tr.at) \/ tr.at >= WordSize]_vars
==============================================================================
