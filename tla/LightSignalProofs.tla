-------------------------- MODULE LightSignalProofs --------------------------
(***************************************************************************)
(* The capture status of a light keeps its type, catches every pulse it    *)
(* can, and reports none that was not there, whatever the status can count *)
(* to.                                                                     *)
(***************************************************************************)
EXTENDS LightSignal, TLAPS

-----------------------------------------------------------------------------
(* Types.                                                                  *)

LEMMA ClearedType == Cleared \in Status
<1>1. 0 \in 0 .. MaxOverflows
  BY OverflowAssumption
<1> QED
  BY <1>1 DEF Cleared, Status

LEMMA InitType == Init => TypeOK
  BY ClearedType DEF Init, TypeOK

LEMMA NextType == TypeOK /\ [Next]_vars => TypeOK'
<1> SUFFICES ASSUME TypeOK, [Next]_vars PROVE TypeOK'
  OBVIOUS
<1>1. CASE Edge
  BY <1>1 DEF TypeOK, Edge, LightQuiet
<1>2. CASE CounterRunsOver
  BY <1>2 DEF TypeOK, CounterRunsOver
<1>3. CASE OthersRun
  BY <1>3 DEF TypeOK, OthersRun
<1>4. CASE LightPrints
  BY <1>4 DEF TypeOK, LightPrints
<1>5. CASE LightCountsOverflow
  <2>1. STA' \in Status
    <3>1. CASE TooLong
      BY <1>5, <3>1 DEF TypeOK, LightCountsOverflow, Status
    <3>2. CASE ~TooLong /\ ~STA.done /\ STA.started
      <4>1. STA.overflows + 1 \in 0 .. MaxOverflows
        BY OverflowAssumption, <3>2 DEF TypeOK, TooLong, Status
      <4> QED
        BY <1>5, <3>2, <4>1 DEF TypeOK, LightCountsOverflow, Status
    <3>3. CASE ~TooLong /\ ~(~STA.done /\ STA.started)
      BY <1>5, <3>3 DEF TypeOK, LightCountsOverflow
    <3> QED
      BY <3>1, <3>2, <3>3
  <2> QED
    BY <1>5, <2>1 DEF TypeOK, LightCountsOverflow
<1>6. CASE LightCaptures
  <2>1. STA' \in Status
    <3>1. [Cleared EXCEPT !.started = TRUE] \in Status
      BY ClearedType DEF Status
    <3>2. [STA EXCEPT !.done = TRUE] \in Status
      BY DEF TypeOK, Status
    <3> QED
      BY <1>6, <3>1, <3>2 DEF TypeOK, LightCaptures
  <2> QED
    BY <1>6, <2>1 DEF TypeOK, LightCaptures, NextPolarity
<1>7. CASE LightClears
  BY <1>7 DEF TypeOK, LightClears, FlagAfterHandler
<1>8. CASE OdTakesPulse
  BY ClearedType, <1>8 DEF TypeOK, OdTakesPulse, StatusRead
<1>9. CASE UNCHANGED vars
  BY <1>9 DEF TypeOK, vars
<1> QED
  BY <1>1, <1>2, <1>3, <1>4, <1>5, <1>6, <1>7, <1>8, <1>9 DEF Next, LightHandler

\* The status never counts past the bits it has for overflows, and the handler
\* is at an overflow only while the flag is set.
THEOREM TypeCorrect == Spec => []TypeOK
  BY InitType, NextType, PTL DEF Spec

-----------------------------------------------------------------------------
(* The inductive invariant.                                                *)

\* The flag stands for an edge the handler has not looked at yet.
EdgePending == CC1 /\ lightPc # "clearing"

\* What CaptureInStep says, for every state without such an edge.
InStep ==
  /\ ~fallen
  /\ polarity = (IF input THEN "falling" ELSE "rising")
  /\ IF STA.done THEN ~input ELSE STA.started <=> input

\* With one edge to be looked at: the status is that before it.
OneEdgeBehind ==
  /\ fallen <=> ~input
  /\ polarity = (IF input THEN "rising" ELSE "falling")
  /\ ~STA.done
  /\ STA.started <=> ~input

\* Disturbed or not, a measurement is ended only by the edge it waits for.
EndsByFall ==
  STA.started /\ ~STA.done =>
    polarity = "falling" /\ (EdgePending => fallen)

CaptureInv ==
  /\ TypeOK
  /\ lightPc \in {"testing", "clearing"} => CC1
  /\ ~disturbed => IF EdgePending THEN OneEdgeBehind ELSE InStep
  /\ ~disturbed /\ ~STA.done /\ (STA.started \/ input) => risen
  /\ EndsByFall

LEMMA InitCapture == Init => CaptureInv
  BY InitType DEF Init, CaptureInv, EdgePending, InStep, EndsByFall, Cleared

LEMMA NextCapture == CaptureInv /\ [Next]_vars => CaptureInv'
<1> SUFFICES ASSUME CaptureInv, [Next]_vars PROVE CaptureInv'
  OBVIOUS
<1> USE DEF CaptureInv, EdgePending, InStep, OneEdgeBehind, EndsByFall
<1>0. TypeOK'
  BY NextType
<1>1. CASE Edge
  BY <1>0, <1>1 DEF TypeOK, Edge, LightQuiet
<1>2. CASE CounterRunsOver
  BY <1>0, <1>2 DEF TypeOK, CounterRunsOver
<1>3. CASE OthersRun
  BY <1>0, <1>3 DEF TypeOK, OthersRun
<1>4. CASE LightPrints
  BY <1>0, <1>4 DEF TypeOK, LightPrints
<1>5. CASE LightCountsOverflow
  <2>1. CASE TooLong
    BY <1>0, <1>5, <2>1 DEF TypeOK, LightCountsOverflow, TooLong, Status
  <2>2. CASE ~TooLong
    <3>1. STA'.done = STA.done /\ STA'.started = STA.started
      BY <1>5, <2>2 DEF TypeOK, LightCountsOverflow, Status
    <3> QED
      BY <1>0, <1>5, <2>2, <3>1 DEF TypeOK, LightCountsOverflow
  <2> QED
    BY <2>1, <2>2
<1>6. CASE LightCaptures
  <2>1. CASE STA.done
    BY <1>0, <1>6, <2>1 DEF TypeOK, LightCaptures, NextPolarity
  <2>2. CASE ~STA.done /\ STA.started
    BY <1>0, <1>6, <2>2 DEF TypeOK, LightCaptures, NextPolarity, Status
  <2>3. CASE ~STA.done /\ ~STA.started
    BY <1>0, <1>6, <2>3 DEF TypeOK, LightCaptures, NextPolarity, Status, Cleared
  <2> QED
    BY <2>1, <2>2, <2>3
<1>7. CASE LightClears
  BY <1>0, <1>7 DEF TypeOK, LightClears, FlagAfterHandler
<1>8. CASE OdTakesPulse
  BY <1>0, <1>8 DEF TypeOK, OdTakesPulse, StatusRead, Status, Cleared, LightQuiet
<1>9. CASE UNCHANGED vars
  BY <1>0, <1>9 DEF vars
<1> QED
  BY <1>1, <1>2, <1>3, <1>4, <1>5, <1>6, <1>7, <1>8, <1>9 DEF Next, LightHandler

LEMMA CaptureAlways == Spec => []CaptureInv
  BY InitCapture, NextCapture, PTL DEF Spec

\* Every pulse that could be caught was: between two runs of the handler an
\* undisturbed channel is in step with the light.
THEOREM CaptureCorrect == Spec => []CaptureInStep
<1>1. CaptureInv => CaptureInStep
  BY DEF CaptureInv, CaptureInStep, EdgePending, InStep, LightQuiet
<1> QED
  BY <1>1, CaptureAlways, PTL

\* No report without a pulse: by EndsByFall, also when the channel is disturbed.
THEOREM ReportsCorrect == Spec => ReportsHavePulses
<1>1. CaptureInv /\ [Next]_vars =>
        [~STA.done /\ STA'.done =>
           IF lightPc = "printing" THEN risen \/ disturbed ELSE fallen]_vars
  <2> SUFFICES ASSUME CaptureInv, Next, ~STA.done, STA'.done
               PROVE IF lightPc = "printing" THEN risen \/ disturbed ELSE fallen
    OBVIOUS
  <2>1. CASE LightCountsOverflow
    BY <2>1 DEF CaptureInv, TypeOK, LightCountsOverflow, TooLong, Status
  <2>2. CASE LightCaptures
    BY <2>2 DEF CaptureInv, TypeOK, LightCaptures, Status, Cleared, EndsByFall,
                EdgePending
  <2>3. CASE ~LightCountsOverflow /\ ~LightCaptures
    BY <2>3 DEF Next, LightHandler, Edge, CounterRunsOver, OthersRun, LightPrints,
                LightClears, OdTakesPulse
  <2> QED
    BY <2>1, <2>2, <2>3
<1> QED
  BY <1>1, CaptureAlways, PTL DEF Spec, ReportsHavePulses
=============================================================================
