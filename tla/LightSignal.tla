----------------------------- MODULE LightSignal -----------------------------
(***************************************************************************)
(* The capture of one photoelectric sensor (HARDWARE/LightSignal): the     *)
(* input, the timer's capture channel, and the interrupt handler that      *)
(* turns its edges into the capture status TIM2CH1_CAPTURE_STA.  TIM5 is   *)
(* the same code for the second sensor.                                    *)
(*                                                                         *)
(* The channel looks for one kind of edge at a time; the handler swaps the *)
(* polarity.  An edge that comes while the handler is late is therefore    *)
(* not seen at all, and one that comes between the swap and the clearing   *)
(* of the flag is seen and cleared away.  Pulse widths are only printed by *)
(* the firmware and are left out.                                          *)
(*                                                                         *)
(* The light's interrupt has priority 2.  The encoders' handlers have 0    *)
(* and print, and FreeRTOS masks priority 2 in its critical sections: the  *)
(* handler may be held up for milliseconds, as it is by its own printing.  *)
(* Else it is through before the line goes on by an edge.                  *)
(***************************************************************************)
EXTENDS Naturals

CONSTANT MaxOverflows  \* what the bits [5:0] of the status count to: 0x3F

ASSUME OverflowAssumption == MaxOverflows \in Nat

VARIABLES
  input,     \* whether the light sees something
  polarity,  \* the edge the channel captures
  CC1,       \* the timer's flags: an edge was captured,
  overflow,  \*   the counter has run over
  STA,       \* the status: bit 7 is done, bit 6 started, the rest overflows
  lightPc,   \* where the handler is: "out", "printing", "testing", "clearing"
  preempted, \* another handler, or a critical section, holds it up
  risen,     \* history: a rising edge came since the last report,
  fallen,    \*   a falling one,
  disturbed  \*   since the last report by an edge, the channel missed
             \*   something or may have

vars == <<input, polarity, CC1, overflow, STA, lightPc, preempted, risen, fallen,
          disturbed>>

Status == [done : BOOLEAN, started : BOOLEAN, overflows : 0 .. MaxOverflows]

Cleared == [done |-> FALSE, started |-> FALSE, overflows |-> 0]

Init ==
  /\ input = FALSE
  /\ polarity = "rising"
  /\ CC1 = FALSE
  /\ overflow = FALSE
  /\ STA = Cleared
  /\ lightPc = "out"
  /\ preempted = FALSE
  /\ risen = FALSE
  /\ fallen = FALSE
  /\ disturbed = FALSE

\* No interrupt of the timer is pending or being handled.
LightQuiet == lightPc = "out" /\ ~CC1 /\ ~overflow

\* An edge at the input.  It can go wrong when the handler is not through
\* with the last one, and a rising edge is not for the handler at all while a
\* report waits to be read.
Edge ==
  LET edge == IF input THEN "falling" ELSE "rising"
  IN /\ LightQuiet \/ preempted \/ lightPc = "printing"
     /\ input' = ~input
     /\ CC1' = (CC1 \/ polarity = edge)
     /\ risen' = (risen \/ ~input)
     /\ fallen' = (fallen \/ input)
     /\ disturbed' = (disturbed \/ ~LightQuiet \/ (~input /\ STA.done))
     /\ UNCHANGED <<polarity, overflow, STA, lightPc, preempted>>

\* The timer's counter runs over, every 71 minutes at 1 MHz, and so not twice
\* in one run of the handler.  In a run that was not for an overflow it may come
\* before the last step as well as after it, which makes no difference.
CounterRunsOver ==
  /\ lightPc = "out"
  /\ ~overflow
  /\ overflow' = TRUE
  /\ UNCHANGED <<input, polarity, CC1, STA, lightPc, preempted, risen, fallen,
                 disturbed>>

\* The encoders' handlers and the critical sections of the tasks.
OthersRun ==
  /\ preempted' = ~preempted
  /\ UNCHANGED <<input, polarity, CC1, overflow, STA, lightPc, risen, fallen,
                 disturbed>>

\* The handler is entered for an overflow, and begins to print.
LightPrints ==
  /\ lightPc = "out"
  /\ overflow
  /\ lightPc' = "printing"
  /\ UNCHANGED <<input, polarity, CC1, overflow, STA, preempted, risen, fallen,
                 disturbed>>

\* Fault: one overflow more than there is room for.
TooLong_Late == ~STA.done /\ STA.started /\ STA.overflows = MaxOverflows + 1

\* A measurement under way has reached the last overflow there is room for.
TooLong == ~STA.done /\ STA.started /\ STA.overflows = MaxOverflows

\* The overflow is counted; one too many ends the measurement as it stands,
\* with the channel still waiting for the falling edge.
LightCountsOverflow ==
  /\ lightPc = "printing"
  /\ STA' = IF TooLong THEN [STA EXCEPT !.done = TRUE]
            ELSE IF ~STA.done /\ STA.started
              THEN [STA EXCEPT !.overflows = @ + 1]
            ELSE STA
  /\ IF TooLong
       THEN risen' = FALSE /\ fallen' = FALSE /\ disturbed' = TRUE
       ELSE UNCHANGED <<risen, fallen, disturbed>>
  /\ overflow' = FALSE
  /\ lightPc' = IF CC1 THEN "testing" ELSE "out"
  /\ UNCHANGED <<input, polarity, CC1, preempted>>

\* Fault: the polarity is not swapped back after a pulse.
NextPolarity_Kept == IF STA.done THEN polarity ELSE "falling"

\* The polarity the handler leaves behind.
NextPolarity ==
  IF STA.done THEN polarity ELSE IF STA.started THEN "rising" ELSE "falling"

\* The branch for a captured edge: the second of a measurement ends it, the
\* first starts one, and while a report waits to be read nothing happens.
LightCaptures ==
  /\ \/ lightPc = "out" /\ ~overflow
     \/ lightPc = "testing"
  /\ CC1
  /\ STA' = IF STA.done THEN STA
            ELSE IF STA.started THEN [STA EXCEPT !.done = TRUE]
            ELSE [Cleared EXCEPT !.started = TRUE]
  /\ polarity' = NextPolarity
  /\ IF ~STA.done /\ STA.started
       THEN risen' = FALSE /\ fallen' = FALSE /\ disturbed' = input
       ELSE UNCHANGED <<risen, fallen, disturbed>>
  /\ lightPc' = "clearing"
  /\ UNCHANGED <<input, CC1, overflow, preempted>>

\* Fault: the flag stays set, and the handler is entered again.
FlagAfterHandler_Kept == CC1

FlagAfterHandler == FALSE

\* The last statement of the handler clears the flag, whatever has set it.
LightClears ==
  /\ lightPc = "clearing"
  /\ CC1' = FlagAfterHandler
  /\ lightPc' = "out"
  /\ UNCHANGED <<input, polarity, overflow, STA, preempted, risen, fallen,
                 disturbed>>

LightHandler ==
  /\ ~preempted
  /\ LightPrints \/ LightCountsOverflow \/ LightCaptures \/ LightClears

\* Fault: a reader that clears bit 7 and leaves the rest.
StatusRead_Bit7 == [STA EXCEPT !.done = FALSE]

StatusRead == Cleared

\* ObjectDetection sees bit 7 and stores 0.
OdTakesPulse ==
  /\ LightQuiet
  /\ STA.done
  /\ STA' = StatusRead
  /\ UNCHANGED <<input, polarity, CC1, overflow, lightPc, preempted, risen,
                 fallen, disturbed>>

Next ==
  Edge \/ CounterRunsOver \/ OthersRun \/ LightHandler \/ OdTakesPulse

Spec == Init /\ [][Next]_vars

\* What holds the handler up ends, and it leaves the tasks time to run.
Fairness ==
  /\ WF_vars(preempted /\ OthersRun)
  /\ SF_vars(LightHandler)
  /\ SF_vars(OdTakesPulse)

FairSpec == Spec /\ Fairness

-----------------------------------------------------------------------------
(* Properties.                                                             *)

TypeOK ==
  /\ input \in BOOLEAN
  /\ polarity \in {"rising", "falling"}
  /\ CC1 \in BOOLEAN
  /\ overflow \in BOOLEAN
  /\ STA \in Status
  /\ lightPc \in {"out", "printing", "testing", "clearing"}
  /\ lightPc = "printing" => overflow
  /\ preempted \in BOOLEAN
  /\ risen \in BOOLEAN
  /\ fallen \in BOOLEAN
  /\ disturbed \in BOOLEAN

\* The capture catches every pulse it can: as long as no edge came during
\* the handler, no pulse began before the last report was read and none was
\* cut off, every pulse that has ended has been reported, and the channel
\* waits for the edge that comes next.  It recovers with one report by an
\* edge, if the light is dark again by then.
CaptureInStep ==
  LightQuiet /\ ~disturbed =>
    /\ ~fallen
    /\ polarity = (IF input THEN "falling" ELSE "rising")
    /\ ~STA.done => (STA.started <=> input)

\* A report stands for at least one pulse that the last report did not: a
\* report by an edge for one that has ended since, a forced one for one that
\* has begun since, unless a forced end came before (it leaves the channel
\* waiting for the end of that pulse, which then passes for a beginning).
ReportsHavePulses ==
  [][~STA.done /\ STA'.done =>
       IF lightPc = "printing" THEN risen \/ disturbed ELSE fallen]_vars

\* The sensor never goes deaf, nor the detection task blind to it: while the
\* light keeps seeing things come and go, it keeps reporting and the reports
\* keep being read, whatever edges the handler missed and whatever was cut off.
NeverDeaf ==
  []<>input /\ []<>~input => []<>STA.done /\ []<>~STA.done
==============================================================================
