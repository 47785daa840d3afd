-------------------------- MODULE BeltPositionProofs --------------------------
(***************************************************************************)
(* The encoder's handler counts the wraps, and the two tasks read the      *)
(* belt's position, for counters and words of every size and belts of      *)
(* every length.                                                           *)
(***************************************************************************)
EXTENDS BeltPosition, TLAPS

-----------------------------------------------------------------------------
(* Arithmetic.                                                             *)

LEMMA PeriodType == Period \in Nat \ {0}
  BY EncoderAssumption DEF Period

\* A position is so many periods and a rest.
LEMMA DivPeriod ==
  ASSUME NEW w \in Int, NEW p \in Nat \ {0}, NEW c \in 0 .. p - 1
  PROVE  (w * p + c) \div p = w
<1> DEFINE n == w * p + c
<1>1. w * p \in Int
  OBVIOUS
<1>2. n \in Int
  BY <1>1
<1> DEFINE d == n \div p
<1>3. d \in Int /\ d * p <= n /\ n < (d + 1) * p
  BY <1>2
<1>4. CASE d <= w - 1
  BY <1>3, <1>4
<1>5. CASE d >= w + 1
  BY <1>3, <1>5
<1> QED
  BY <1>3, <1>4, <1>5

LEMMA ModWord == ASSUME NEW n \in Int PROVE n % WordSize \in Word
  BY EncoderAssumption DEF Word

-----------------------------------------------------------------------------
(* Types.                                                                  *)

LEMMA EncoderNumberType ==
  ASSUME NEW o \in Int, NEW c \in Int
  PROVE  EncoderNumber(o, c) \in Word
<1>1. o * ENCODER_CNT_MAX + c \in Int
  BY EncoderAssumption
<1> QED
  BY <1>1, ModWord DEF EncoderNumber

\* A word, narrowed to an int, fits into one.
LEMMA NarrowedFits ==
  ASSUME NEW n \in Int
  PROVE  /\ Narrowed(n, WordSize) \in Int
         /\ 2 * Narrowed(n, WordSize) \in -WordSize .. WordSize - 1
<1>1. n % WordSize \in 0 .. WordSize - 1
  BY ModWord DEF Word
<1> QED
  BY <1>1, EncoderAssumption DEF Narrowed

LEMMA PositionType == EncoderTypeOK => Position \in Int
<1> SUFFICES ASSUME EncoderTypeOK PROVE Position \in Int
  OBVIOUS
<1>1. wraps * Period \in Int
  BY PeriodType DEF EncoderTypeOK
<1> QED
  BY <1>1, EncoderAssumption DEF EncoderTypeOK, Position

LEMMA TurnType ==
  ASSUME EncoderTypeOK, NEW back \in BOOLEAN, Turn(back) PROVE EncoderTypeOK'
<1>1. counter \in Int /\ counter + ENCODER_CNT_MAX \in Int /\ counter + 1 \in Int
  BY EncoderAssumption DEF EncoderTypeOK
<1>2. counter' \in 0 .. ENCODER_CNT_MAX
  BY <1>1, EncoderAssumption DEF Turn, Period
<1>3. wraps' \in Int
  BY DEF EncoderTypeOK, Turn
<1>4. wrapped' \in BOOLEAN /\ (encoderPc # "out" => wrapped')
  BY DEF EncoderTypeOK, Turn
<1>5. down' \in BOOLEAN /\ wrappedDown' \in BOOLEAN /\ miscounted' \in BOOLEAN
  BY DEF EncoderTypeOK, Turn
<1> QED
  BY <1>2, <1>3, <1>4, <1>5 DEF EncoderTypeOK, Turn

LEMMA HandlerType ==
  ASSUME EncoderTypeOK, EncoderHandler PROVE EncoderTypeOK'
<1>1. CASE EncoderPrints
  BY <1>1 DEF EncoderTypeOK, EncoderPrints
<1>2. CASE EncoderCounts
  BY <1>2 DEF EncoderTypeOK, EncoderCounts, CountedWrap
<1>3. CASE EncoderClears
  BY <1>3 DEF EncoderTypeOK, EncoderClears
<1> QED
  BY <1>1, <1>2, <1>3 DEF EncoderHandler

LEMMA SameEncoderType ==
  ASSUME EncoderTypeOK, UNCHANGED encoderVars PROVE EncoderTypeOK'
  BY DEF EncoderTypeOK, encoderVars

LEMMA InterruptedType ==
  ASSUME NEW r, ReadingOK(r) PROVE ReadingOK(Interrupted(r))
  BY DEF ReadingOK, Interrupted

LEMMA LoadsType ==
  ASSUME EncoderTypeOK, NEW r, ReadingOK(r), NEW s, Loads(r, s) PROVE ReadingOK(s)
<1>1. Position \in Int /\ OverflowCount \in Int /\ counter \in Int
  BY PositionType, EncoderAssumption DEF EncoderTypeOK
<1> DEFINE Readings == [pc : {"delay", "overflow", "counter", "read"}, value : Int,
                       at : Int, torn : BOOLEAN]
<1>r. r \in Readings
  BY DEF ReadingOK
<1>2. CASE r.pc = "delay"
  <2>1. PICK operand \in {"overflow", "counter"} : s = FirstLoad(operand)
    BY <1>2 DEF Loads
  <2>2. CASE operand = "overflow"
    <3>1. s = [pc |-> "overflow", value |-> OverflowCount, at |-> 0, torn |-> FALSE]
      BY <2>1, <2>2 DEF FirstLoad, Nothing
    <3> QED
      BY <1>1, <3>1 DEF ReadingOK
  <2>3. CASE operand = "counter"
    <3>1. s = [pc |-> "counter", value |-> counter, at |-> Position, torn |-> FALSE]
      BY <2>1, <2>3 DEF FirstLoad, Nothing
    <3> QED
      BY <1>1, <3>1 DEF ReadingOK
  <2> QED
    BY <2>2, <2>3
<1>3. CASE r.pc = "overflow"
  <2>1. EncoderNumber(r.value, counter) \in Word
    BY <1>1, <1>r, EncoderNumberType
  <2>2. s = [pc |-> "read", value |-> EncoderNumber(r.value, counter),
             at |-> Position, torn |-> r.torn]
    BY <1>3, <1>r DEF Loads, SecondLoad
  <2>3. EncoderNumber(r.value, counter) \in Int /\ r.torn \in BOOLEAN
    BY <2>1, <1>r DEF Word
  <2> QED
    BY <1>1, <2>1, <2>2, <2>3 DEF ReadingOK
<1>4. CASE r.pc = "counter"
  <2>1. EncoderNumber(OverflowCount, r.value) \in Word
    BY <1>1, <1>r, EncoderNumberType
  <2>2. s = [pc |-> "read", value |-> EncoderNumber(OverflowCount, r.value),
             at |-> r.at, torn |-> r.torn]
    BY <1>4, <1>r DEF Loads, SecondLoad
  <2>3. EncoderNumber(OverflowCount, r.value) \in Int /\ r.torn \in BOOLEAN
        /\ r.at \in Int
    BY <2>1, <1>r DEF Word
  <2> QED
    BY <2>1, <2>2, <2>3 DEF ReadingOK
<1> QED
  BY <1>2, <1>3, <1>4 DEF Loads

LEMMA NothingType == ReadingOK(Nothing)
  BY DEF ReadingOK, Nothing

LEMMA InitType == Init => TypeOK
<1> SUFFICES ASSUME Init PROVE TypeOK
  OBVIOUS
<1>1. EncoderTypeOK
  <2>1. 0 \in 0 .. ENCODER_CNT_MAX
    BY EncoderAssumption
  <2>2. EncoderInit
    BY DEF Init
  <2>3. counter \in 0 .. ENCODER_CNT_MAX /\ OverflowCount \in Int /\ wraps \in Int
    BY <2>1, <2>2 DEF EncoderInit
  <2>4. encoderPc = "out" /\ down = FALSE /\ wrapped = FALSE /\ wrappedDown = FALSE
        /\ miscounted = FALSE
    BY <2>2 DEF EncoderInit
  <2> QED
    BY <2>3, <2>4 DEF EncoderTypeOK
<1>2. LS_EncoderNumTem \in Word
  BY EncoderAssumption DEF Init, Word
<1> QED
  BY <1>1, <1>2, NothingType DEF Init, TypeOK

LEMMA OdTakesPulseType == TypeOK /\ OdTakesPulse => TypeOK'
<1> SUFFICES ASSUME TypeOK, OdTakesPulse PROVE TypeOK'
  OBVIOUS
<1>1. od.value \in Word /\ od.value \in Int /\ od.at \in Int
  BY DEF TypeOK, ReadingOK, OdTakesPulse
<1>2. LS_EncoderNumTem' \in Word
  BY <1>1 DEF OdTakesPulse, LastPulse
<1>3. last' \in Int
  BY <1>1 DEF OdTakesPulse, Place, Unsure
<1>4. /\ Target \in Int
      /\ 2 * Target \in -WordSize .. WordSize - 1
  BY <1>1, BeltAssumption, NarrowedFits DEF Target
<1>5. /\ target' \in Int \cup {NoTarget}
      /\ target' # NoTarget => 2 * target' \in -WordSize .. WordSize - 1
  BY <1>4 DEF OdTakesPulse
<1>6. EncoderTypeOK'
  BY SameEncoderType DEF TypeOK, OdTakesPulse
<1> QED
  BY <1>2, <1>3, <1>5, <1>6, NothingType DEF TypeOK, OdTakesPulse

LEMMA NextType == TypeOK /\ [Next]_vars => TypeOK'
<1> SUFFICES ASSUME TypeOK, [Next]_vars PROVE TypeOK'
  OBVIOUS
<1>1. CASE BeltTurns
  <2>1. EncoderTypeOK'
    BY <1>1, TurnType DEF TypeOK, BeltTurns
  <2> QED
    BY <1>1, <2>1 DEF TypeOK, BeltTurns, readVars
<1>2. CASE EncoderInterrupt
  <2>1. EncoderTypeOK'
    BY <1>2, HandlerType DEF TypeOK, EncoderInterrupt
  <2>2. ReadingOK(od)' /\ ReadingOK(tr)'
    BY <1>2, InterruptedType DEF TypeOK, EncoderInterrupt
  <2> QED
    BY <1>2, <2>1, <2>2 DEF TypeOK, EncoderInterrupt
<1>3. CASE OdReads
  <2>1. EncoderTypeOK'
    BY <1>3, SameEncoderType DEF TypeOK, OdReads
  <2>2. ReadingOK(od)'
    BY <1>3, LoadsType DEF TypeOK, OdReads
  <2> QED
    BY <1>3, <2>1, <2>2 DEF TypeOK, OdReads
<1>4. CASE OdTakesPulse
  BY <1>4, OdTakesPulseType
<1>5. CASE OdSeesNothing
  <2>1. EncoderTypeOK'
    BY <1>5, SameEncoderType DEF TypeOK, OdSeesNothing
  <2> QED
    BY <1>5, <2>1, NothingType DEF TypeOK, OdSeesNothing
<1>6. CASE TrReads
  <2>1. EncoderTypeOK'
    BY <1>6, SameEncoderType DEF TypeOK, TrReads
  <2>2. ReadingOK(tr)'
    BY <1>6, LoadsType DEF TypeOK, TrReads
  <2> QED
    BY <1>6, <2>1, <2>2 DEF TypeOK, TrReads
<1>7. CASE TrTests
  <2>1. EncoderTypeOK'
    BY <1>7, SameEncoderType DEF TypeOK, TrTests
  <2> QED
    BY <1>7, <2>1, NothingType DEF TypeOK, TrTests
<1>8. CASE UNCHANGED vars
  <2>1. EncoderTypeOK'
    BY <1>8, SameEncoderType DEF TypeOK, vars
  <2> QED
    BY <1>8, <2>1 DEF TypeOK, vars, readVars
<1> QED
  BY <1>1, <1>2, <1>3, <1>4, <1>5, <1>6, <1>7, <1>8
     DEF Next, ObjectDetectionThread, TrackingThread, LineOver

\* Readings stay words, targets ints, and the handler is at a wrap only while
\* the flag is set.
THEOREM TypeCorrect == Spec => []TypeOK
  BY InitType, NextType, PTL DEF Spec

-----------------------------------------------------------------------------
(* The handler counts the wraps.                                           *)

\* Until the handler has counted it, a wrap is missing from the count, and
\* the belt still runs the way it wrapped.
WrapInv ==
  ~miscounted =>
    IF wrapped /\ encoderPc # "clearing"
      THEN /\ down = wrappedDown
           /\ wraps = OverflowCount + (IF down THEN -1 ELSE 1)
      ELSE wraps = OverflowCount

LEMMA WrapTurn ==
  ASSUME EncoderTypeOK, WrapInv, NEW back \in BOOLEAN, Turn(back) PROVE WrapInv'
<1>1. CASE wrapped
  <2> SUFFICES ASSUME ~miscounted'
               PROVE  IF wrapped' /\ encoderPc' # "clearing"
                        THEN /\ down' = wrappedDown'
                             /\ wraps' = OverflowCount' + (IF down' THEN -1 ELSE 1)
                        ELSE wraps' = OverflowCount'
    BY DEF WrapInv
  <2>1. counter # (IF back THEN 0 ELSE ENCODER_CNT_MAX) /\ back = wrappedDown
    BY <1>1 DEF Turn
  <2>2. /\ down' = back /\ wrappedDown' = wrappedDown /\ wrapped'
        /\ wraps' = wraps /\ OverflowCount' = OverflowCount /\ encoderPc' = encoderPc
    <3>1. down' = back /\ OverflowCount' = OverflowCount /\ encoderPc' = encoderPc
      BY DEF Turn
    <3>2. wrappedDown' = wrappedDown
      BY <2>1 DEF Turn
    <3>3. wrapped'
      BY <1>1 DEF Turn
    <3>4. wraps' = wraps + 0
      BY <2>1 DEF Turn
    <3> QED
      BY <3>1, <3>2, <3>3, <3>4 DEF EncoderTypeOK
  <2>3. ~miscounted
    BY DEF Turn
  <2> QED
    BY <1>1, <2>1, <2>2, <2>3 DEF EncoderTypeOK, WrapInv
<1>2. CASE ~wrapped
  <2>1. encoderPc = "out" /\ encoderPc' = "out" /\ wraps = OverflowCount
    BY <1>2 DEF EncoderTypeOK, WrapInv, Turn
  <2>2. CASE counter = IF back THEN 0 ELSE ENCODER_CNT_MAX
    <3>1. /\ down' = back /\ wrappedDown' = back
          /\ wraps' = wraps + IF back THEN -1 ELSE 1
          /\ OverflowCount' = OverflowCount /\ wrapped'
      BY <2>2 DEF Turn
    <3> QED
      BY <2>1, <3>1 DEF EncoderTypeOK, WrapInv
  <2>3. CASE counter # IF back THEN 0 ELSE ENCODER_CNT_MAX
    <3>1. wrapped' = FALSE /\ wraps' = wraps /\ OverflowCount' = OverflowCount
      BY <1>2, <2>3 DEF Turn, EncoderTypeOK
    <3> QED
      BY <2>1, <3>1 DEF WrapInv
  <2> QED
    BY <2>2, <2>3
<1> QED
  BY <1>1, <1>2

LEMMA WrapHandler ==
  ASSUME EncoderTypeOK, WrapInv, EncoderHandler PROVE WrapInv'
<1>1. CASE EncoderPrints
  BY <1>1 DEF WrapInv, EncoderPrints
<1>2. CASE EncoderCounts
  BY <1>2 DEF EncoderTypeOK, WrapInv, EncoderCounts, CountedWrap
<1>3. CASE EncoderClears
  BY <1>3 DEF EncoderTypeOK, WrapInv, EncoderClears
<1> QED
  BY <1>1, <1>2, <1>3 DEF EncoderHandler

LEMMA SameWrap == WrapInv /\ UNCHANGED encoderVars => WrapInv'
  BY DEF WrapInv, encoderVars

\* The tasks leave the encoder alone.
LEMMA OnlyBelt ==
  ASSUME [Next]_vars, ~BeltTurns, ~EncoderInterrupt PROVE UNCHANGED encoderVars
  BY DEF Next, ObjectDetectionThread, TrackingThread, OdReads, OdTakesPulse,
         OdSeesNothing, TrReads, TrTests, LineOver, vars

LEMMA InitWrap == Init => WrapInv
  BY DEF Init, EncoderInit, WrapInv

LEMMA NextWrap == TypeOK /\ WrapInv /\ [Next]_vars => WrapInv'
<1> SUFFICES ASSUME TypeOK, WrapInv, [Next]_vars PROVE WrapInv'
  OBVIOUS
<1>1. CASE BeltTurns
  BY <1>1, WrapTurn DEF TypeOK, BeltTurns
<1>2. CASE EncoderInterrupt
  BY <1>2, WrapHandler DEF TypeOK, EncoderInterrupt
<1>3. CASE ~BeltTurns /\ ~EncoderInterrupt
  BY <1>3, OnlyBelt, SameWrap
<1> QED
  BY <1>1, <1>2, <1>3

\* The overflow count is the number of turns whenever the handler is through,
\* until the belt turns back or comes round again while it is at a wrap.
THEOREM WrapsCorrect == Spec => []WrapsCounted
<1>1. TypeOK /\ WrapInv => WrapsCounted
  BY DEF TypeOK, EncoderTypeOK, WrapInv, WrapsCounted, EncoderBusy
<1> QED
  BY <1>1, InitType, NextType, InitWrap, NextWrap, PTL DEF Spec

-----------------------------------------------------------------------------
(* The tasks read the belt's position.                                     *)

\* The word made of w turns and c counts is the position they make, less w.
LEMMA NumberIsPosition ==
  ASSUME NEW w \in Int, NEW c \in 0 .. ENCODER_CNT_MAX
  PROVE  LET at == w * Period + c
         IN EncoderNumber(w, c) = (at - at \div Period) % WordSize
<1> DEFINE at == w * Period + c
<1>1. c \in 0 .. Period - 1
  BY EncoderAssumption DEF Period
<1>2. at \div Period = w
  BY <1>1, PeriodType, DivPeriod
<1>3. w * Period = w * ENCODER_CNT_MAX + w /\ w * ENCODER_CNT_MAX \in Int
  BY EncoderAssumption DEF Period
<1>4. at - w = w * ENCODER_CNT_MAX + c
  BY <1>1, <1>3
<1> QED
  BY <1>2, <1>4 DEF EncoderNumber

\* A reading that is not torn, when the count is o: the count it loaded is o, or
\* the counter it loaded belongs to o.
ReadInv(r, o) ==
  ~r.torn =>
    /\ r.pc = "overflow" => r.value = o
    /\ r.pc = "counter" =>
         /\ r.value \in 0 .. ENCODER_CNT_MAX
         /\ r.at = o * Period + r.value
    /\ r.pc = "read" => r.value = (r.at - r.at \div Period) % WordSize

LEMMA ReadNothing == ASSUME NEW o PROVE ReadInv(Nothing, o)
  BY DEF ReadInv, Nothing

\* While a task runs, the count is the number of turns.
LEMMA RunsAtCount ==
  ASSUME EncoderTypeOK, WrapInv, TaskRuns
  PROVE  wraps = OverflowCount /\ Position = OverflowCount * Period + counter
  BY DEF EncoderTypeOK, WrapInv, TaskRuns, EncoderBusy, Position

LEMMA ReadLoads ==
  ASSUME EncoderTypeOK, WrapInv, TaskRuns, NEW r, ReadingOK(r),
         ReadInv(r, OverflowCount), NEW s, Loads(r, s)
  PROVE  ReadInv(s, OverflowCount)
<1>1. Position = OverflowCount * Period + counter
  BY RunsAtCount
<1>2. OverflowCount \in Int /\ counter \in 0 .. ENCODER_CNT_MAX
  BY DEF EncoderTypeOK
<1>3. CASE r.pc = "delay"
  <2>1. PICK operand \in {"overflow", "counter"} : s = FirstLoad(operand)
    BY <1>3 DEF Loads
  <2>2. CASE operand = "overflow"
    <3>1. s = [pc |-> "overflow", value |-> OverflowCount, at |-> 0, torn |-> FALSE]
      BY <2>1, <2>2 DEF FirstLoad, Nothing
    <3> QED
      BY <3>1 DEF ReadInv
  <2>3. CASE operand = "counter"
    <3>1. s = [pc |-> "counter", value |-> counter, at |-> Position, torn |-> FALSE]
      BY <2>1, <2>3 DEF FirstLoad, Nothing
    <3> QED
      BY <1>1, <1>2, <3>1 DEF ReadInv
  <2> QED
    BY <2>2, <2>3
<1>4. CASE r.pc = "overflow"
  <2>1. /\ s.pc = "read" /\ s.value = EncoderNumber(r.value, counter)
        /\ s.at = Position /\ s.torn = r.torn
    BY <1>4 DEF Loads, SecondLoad, ReadingOK
  <2>2. ~r.torn => r.value = OverflowCount
    BY <1>4 DEF ReadInv
  <2> QED
    BY <1>1, <1>2, <2>1, <2>2, NumberIsPosition DEF ReadInv
<1>5. CASE r.pc = "counter"
  <2>1. /\ s.pc = "read" /\ s.value = EncoderNumber(OverflowCount, r.value)
        /\ s.at = r.at /\ s.torn = r.torn
    BY <1>5 DEF Loads, SecondLoad, ReadingOK
  <2>2. ~r.torn => /\ r.value \in 0 .. ENCODER_CNT_MAX
                   /\ r.at = OverflowCount * Period + r.value
    BY <1>5 DEF ReadInv
  <2> QED
    BY <1>2, <2>1, <2>2, NumberIsPosition DEF ReadInv
<1> QED
  BY <1>3, <1>4, <1>5 DEF Loads

\* A count of the handler tears the readings it comes between.
LEMMA ReadInterrupted ==
  ASSUME EncoderHandler, NEW r, ReadingOK(r), ReadInv(r, OverflowCount)
  PROVE  ReadInv(Interrupted(r), OverflowCount')
<1>1. /\ Interrupted(r).pc = r.pc /\ Interrupted(r).value = r.value
      /\ Interrupted(r).at = r.at
      /\ Interrupted(r).torn =
           (r.torn \/ (encoderPc = "printing" /\ r.pc \in {"overflow", "counter"}))
  BY DEF Interrupted, ReadingOK
<1>2. CASE EncoderCounts
  <2>1. encoderPc = "printing"
    BY <1>2 DEF EncoderCounts
  <2> QED
    BY <1>1, <2>1 DEF ReadInv
<1>3. CASE EncoderPrints \/ EncoderClears
  <2>1. OverflowCount' = OverflowCount
    BY <1>3 DEF EncoderPrints, EncoderClears
  <2> QED
    BY <1>1, <2>1 DEF ReadInv
<1> QED
  BY <1>2, <1>3 DEF EncoderHandler

BeltInv ==
  /\ TypeOK
  /\ WrapInv
  /\ ReadInv(od, OverflowCount)
  /\ ReadInv(tr, OverflowCount)

LEMMA InitBelt == Init => BeltInv
<1> SUFFICES ASSUME Init PROVE BeltInv
  OBVIOUS
<1>1. od = Nothing /\ tr = Nothing
  BY DEF Init
<1> QED
  BY <1>1, InitType, InitWrap, ReadNothing DEF BeltInv

LEMMA NextBelt == BeltInv /\ [Next]_vars => BeltInv'
<1> SUFFICES ASSUME BeltInv, [Next]_vars PROVE BeltInv'
  OBVIOUS
<1>0. TypeOK /\ WrapInv /\ EncoderTypeOK /\ ReadingOK(od) /\ ReadingOK(tr)
  BY DEF BeltInv, TypeOK
<1>00. TypeOK' /\ WrapInv'
  BY <1>0, NextType, NextWrap
<1> SUFFICES ReadInv(od', OverflowCount') /\ ReadInv(tr', OverflowCount')
  BY <1>00 DEF BeltInv
<1>1. CASE BeltTurns
  BY <1>1 DEF BeltInv, BeltTurns, Turn, readVars
<1>2. CASE EncoderInterrupt
  BY <1>0, <1>2, ReadInterrupted DEF BeltInv, EncoderInterrupt
<1>3. CASE ~BeltTurns /\ ~EncoderInterrupt
  <2>1. OverflowCount' = OverflowCount
    BY <1>3, OnlyBelt DEF encoderVars
  <2>2. CASE OdReads
    BY <1>0, <2>1, <2>2, ReadLoads DEF BeltInv, OdReads
  <2>3. CASE OdTakesPulse \/ OdSeesNothing
    BY <2>1, <2>3, ReadNothing DEF BeltInv, OdTakesPulse, OdSeesNothing
  <2>4. CASE TrReads
    BY <1>0, <2>1, <2>4, ReadLoads DEF BeltInv, TrReads
  <2>5. CASE TrTests
    BY <2>1, <2>5, ReadNothing DEF BeltInv, TrTests
  <2>6. CASE UNCHANGED vars
    BY <2>1, <2>6 DEF BeltInv, vars, readVars
  <2> QED
    BY <1>3, <2>2, <2>3, <2>4, <2>5, <2>6
       DEF Next, ObjectDetectionThread, TrackingThread, LineOver
<1> QED
  BY <1>1, <1>2, <1>3

LEMMA BeltAlways == Spec => []BeltInv
  BY InitBelt, NextBelt, PTL DEF Spec

\* A reading that no wrap came between is the belt's position, less one count a
\* turn, in a word.
THEOREM ReadingsCorrect == Spec => []ReadsBelt
<1>1. BeltInv => ReadsBelt
  BY DEF BeltInv, ReadInv, ReadsBelt
<1> QED
  BY <1>1, BeltAlways, PTL

-----------------------------------------------------------------------------
(* More arithmetic.                                                        *)

\* Positions further on have more turns, but no more than counts.
LEMMA DivMono ==
  ASSUME NEW x \in Int, NEW y \in Int, x <= y, NEW p \in Nat \ {0}
  PROVE  x \div p <= y \div p /\ y \div p - x \div p <= y - x
<1> DEFINE a == x \div p
           b == y \div p
<1>1. a \in Int /\ a * p <= x /\ x < (a + 1) * p
  OBVIOUS
<1>2. b \in Int /\ b * p <= y /\ y < (b + 1) * p
  OBVIOUS
<1> HIDE DEF a, b
<1>3. ~(b + 1 <= a)
  <2> SUFFICES ASSUME b + 1 <= a PROVE FALSE
    OBVIOUS
  <2>1. (b + 1) * p <= a * p
    BY <1>1, <1>2
  <2> QED
    BY <1>1, <1>2, <2>1
<1>4. ~(b - a - 1 >= y - x)
  <2> SUFFICES ASSUME b - a - 1 >= y - x PROVE FALSE
    OBVIOUS
  <2>1. (b - a - 1) * p >= b - a - 1
    BY <1>1, <1>2
  <2>2. (b - a - 1) * p = b * p - (a + 1) * p
    BY <1>1, <1>2
  <2>3. b * p \in Int /\ (a + 1) * p \in Int
    BY <1>1, <1>2
  <2> QED
    BY <1>1, <1>2, <2>1, <2>2, <2>3
<1>5. a <= b /\ b - a <= y - x
  BY <1>1, <1>2, <1>3, <1>4
<1> QED
  BY <1>5 DEF a, b

\* The rest of v and a multiple of s.
LEMMA ModIs ==
  ASSUME NEW s \in Nat \ {0}, NEW j \in Int, NEW v \in 0 .. s - 1
  PROVE  (v + j * s) % s = v
<1> DEFINE z == v + j * s
<1>1. z \in Int
  OBVIOUS
<1>2. z \div s = j
  BY DivPeriod
<1>3. z = s * (z \div s) + (z % s)
  BY <1>1
<1> QED
  BY <1>2, <1>3

LEMMA NarrowedIs ==
  ASSUME NEW s \in Nat \ {0}, NEW j \in Int, NEW v \in Nat, 2 * v < s
  PROVE  Narrowed(v + j * s, s) = v
<1>1. (v + j * s) % s = v
  BY ModIs
<1> QED
  BY <1>1 DEF Narrowed

\* Two words differ by what they stand for, and a multiple of the short.
LEMMA ShortOfWords ==
  ASSUME NEW n \in Int, NEW m \in Int
  PROVE  \E j \in Int : (n % WordSize) - (m % WordSize) = n - m + j * ShortSize
<1>1. WordSize \in Nat \ {0} /\ ShortSize \in Nat \ {0} /\ WordSize % ShortSize = 0
  BY EncoderAssumption, BeltAssumption
<1> DEFINE k == WordSize \div ShortSize
           a == n \div WordSize
           b == m \div WordSize
<1>2. k \in Int /\ WordSize = k * ShortSize
  BY <1>1
<1>3. a \in Int /\ n = WordSize * a + (n % WordSize) /\ n % WordSize \in Int
  BY <1>1
<1>4. b \in Int /\ m = WordSize * b + (m % WordSize) /\ m % WordSize \in Int
  BY <1>1
<1> HIDE DEF k, a, b
<1>5. WordSize * a \in Int /\ WordSize * b \in Int
  BY <1>1, <1>3, <1>4
<1>6. (n % WordSize) - (m % WordSize) = n - m + (WordSize * b - WordSize * a)
  BY <1>3, <1>4, <1>5
<1>7. WordSize * b - WordSize * a = (k * (b - a)) * ShortSize /\ k * (b - a) \in Int
  BY <1>1, <1>2, <1>3, <1>4
<1> QED
  BY <1>6, <1>7

-----------------------------------------------------------------------------
(* Pulses and targets.                                                     *)

\* A position as the code counts it.
Counted(at) == at - at \div Period

LEMMA CountedMono ==
  ASSUME NEW x \in Int, NEW y \in Int, x <= y
  PROVE  /\ Counted(x) \in Int /\ Counted(y) \in Int
         /\ Turns(x, y) \in Nat
         /\ Counted(y) - Counted(x) = y - x - Turns(x, y)
         /\ Counted(x) <= Counted(y)
<1>1. x \div Period \in Int /\ y \div Period \in Int
  BY PeriodType
<1>2. x \div Period <= y \div Period /\ y \div Period - x \div Period <= y - x
  BY PeriodType, DivMono
<1> QED
  BY <1>1, <1>2 DEF Counted, Turns

LEMMA CountedNat ==
  ASSUME NEW x \in Nat PROVE Counted(x) \in Nat /\ Counted(x) <= x
<1>1. 0 \div Period = 0
  BY PeriodType
<1>2. x \div Period \in Int /\ 0 <= x \div Period /\ x \div Period <= x
  BY <1>1, PeriodType, DivMono
<1> QED
  BY <1>2 DEF Counted

\* What Detection remembers of the last pulse, and the target made from it.
PulseInv ==
  /\ last # Unsure =>
       last \in Nat /\ LS_EncoderNumTem = Counted(last) % WordSize
  /\ target # NoTarget =>
       target = Narrowed(LS_EncoderNumTem + TargetValue, WordSize)

LEMMA InitPulse == Init => PulseInv
<1> SUFFICES ASSUME Init PROVE PulseInv
  OBVIOUS
<1>1. Counted(0) = 0
  BY CountedNat DEF Counted
<1>2. 0 % WordSize = 0
  BY EncoderAssumption
<1> QED
  BY <1>1, <1>2 DEF Init, PulseInv

LEMMA NextPulse == BeltInv /\ PulseInv /\ [Next]_vars => PulseInv'
<1> SUFFICES ASSUME BeltInv, PulseInv, [Next]_vars PROVE PulseInv'
  OBVIOUS
<1>1. CASE OdTakesPulse
  <2>1. od.pc = "read" /\ ReadInv(od, OverflowCount) /\ ReadingOK(od)
    BY <1>1 DEF BeltInv, TypeOK, OdTakesPulse
  <2>2. LS_EncoderNumTem' = od.value /\ last' = Place(od)
    BY <1>1 DEF OdTakesPulse, LastPulse
  <2>3. last' # Unsure =>
          last' \in Nat /\ LS_EncoderNumTem' = Counted(last') % WordSize
    BY <2>1, <2>2 DEF Place, Sound, ReadInv, Counted, ReadingOK
  <2>4. target' # NoTarget =>
          target' = Narrowed(LS_EncoderNumTem' + TargetValue, WordSize)
    BY <1>1, <2>2 DEF OdTakesPulse, Target
  <2> QED
    BY <2>3, <2>4 DEF PulseInv
<1>2. CASE TrTests
  BY <1>2 DEF PulseInv, TrTests
<1>3. CASE UNCHANGED <<LS_EncoderNumTem, target, last>>
  BY <1>3 DEF PulseInv
<1> QED
  BY <1>1, <1>2, <1>3
     DEF Next, BeltTurns, EncoderInterrupt, ObjectDetectionThread, TrackingThread,
         OdReads, OdSeesNothing, TrReads, LineOver, vars, readVars

LEMMA PulseAlways == Spec => [](BeltInv /\ PulseInv)
<1>1. Init => BeltInv /\ PulseInv
  BY InitBelt, InitPulse
<1>2. BeltInv /\ PulseInv /\ [Next]_vars => (BeltInv /\ PulseInv)'
  BY NextBelt, NextPulse
<1> QED
  BY <1>1, <1>2, PTL DEF Spec

\* The interval between two pulses, in a short, is the distance between them
\* less the turns, as long as half of a short is enough for it.
LEMMA IntervalIs ==
  ASSUME NEW x \in Nat, NEW y \in Nat, x <= y, 2 * (y - x) < ShortSize
  PROVE  Narrowed((Counted(y) % WordSize) - (Counted(x) % WordSize), ShortSize)
           = y - x - Turns(x, y)
<1>1. /\ Counted(x) \in Int /\ Counted(y) \in Int /\ Turns(x, y) \in Nat
      /\ Counted(y) - Counted(x) = y - x - Turns(x, y)
      /\ Counted(x) <= Counted(y)
  <2>1. x \in Int /\ y \in Int
    OBVIOUS
  <2> QED
    BY <2>1, CountedMono
<1>2. PICK j \in Int :
        (Counted(y) % WordSize) - (Counted(x) % WordSize)
          = Counted(y) - Counted(x) + j * ShortSize
  BY <1>1, ShortOfWords
<1> DEFINE v == y - x - Turns(x, y)
<1>3. v \in Nat /\ 2 * v < ShortSize
  BY <1>1, BeltAssumption
<1>4. Narrowed(v + j * ShortSize, ShortSize) = v
  BY <1>3, BeltAssumption, NarrowedIs
<1> QED
  BY <1>1, <1>2, <1>4

\* Pulses are judged by the distance between them, at any place of the belt,
\* also where the word goes round.
THEOREM PulsesCorrect == Spec => PulseJudgedByDistance
<1> DEFINE Judged ==
      LET distance == od.at - last
      IN /\ od.pc = "read" /\ last' # last
         /\ Sound(od) /\ last # Unsure
         /\ 0 <= distance /\ 2 * distance < ShortSize
         => triggerInterval \in distance - Turns(last, od.at) .. distance
<1>1. BeltInv /\ PulseInv => Judged
  <2> SUFFICES ASSUME BeltInv, PulseInv, od.pc = "read", Sound(od), last # Unsure,
                      0 <= od.at - last, 2 * (od.at - last) < ShortSize
               PROVE  triggerInterval \in
                        od.at - last - Turns(last, od.at) .. od.at - last
    OBVIOUS
  <2>1. od.at \in Nat /\ last \in Nat /\ last <= od.at
    BY DEF BeltInv, TypeOK, ReadingOK, Sound, PulseInv
  <2>2. od.value = Counted(od.at) % WordSize
    BY DEF BeltInv, ReadInv, Sound, Counted
  <2>3. LS_EncoderNumTem = Counted(last) % WordSize
    BY DEF PulseInv
  <2>4. triggerInterval = od.at - last - Turns(last, od.at)
    BY <2>1, <2>2, <2>3, IntervalIs DEF triggerInterval
  <2>5. Turns(last, od.at) \in Nat
    <3>1. last \in Int /\ od.at \in Int
      BY <2>1
    <3> QED
      BY <2>1, <3>1, CountedMono
  <2> QED
    BY <2>1, <2>4, <2>5
<1>2. BeltInv /\ PulseInv /\ [Next]_vars => [Judged]_vars
  BY <1>1
<1> QED
  BY <1>2, PulseAlways, PTL DEF Spec, PulseJudgedByDistance

\* A sum that fits into an int is not changed by the word.
LEMMA WordIs == ASSUME NEW n \in 0 .. WordSize - 1 PROVE n % WordSize = n
  BY EncoderAssumption

LEMMA WordAtMost ==
  ASSUME NEW n \in Nat PROVE n % WordSize \in Nat /\ n % WordSize <= n
<1>1. WordSize \in Nat \ {0}
  BY EncoderAssumption
<1>2. n \div WordSize \in Nat
  BY <1>1
<1>3. WordSize * (n \div WordSize) \in Nat
  BY <1>1, <1>2
<1>4. n = WordSize * (n \div WordSize) + (n % WordSize) /\ n % WordSize \in Nat
  BY <1>1
<1> QED
  BY <1>3, <1>4

\* The target of an object at x, if it fits into an int.
LEMMA TargetIs ==
  ASSUME NEW x \in Nat, 2 * (x + TargetValue) < WordSize
  PROVE  Narrowed((Counted(x) % WordSize) + TargetValue, WordSize)
           = Counted(x) + TargetValue
<1>1. Counted(x) \in Nat /\ Counted(x) <= x
  BY CountedNat
<1>2. WordSize \in Nat \ {0} /\ TargetValue \in Nat
  BY EncoderAssumption, BeltAssumption
<1>3. Counted(x) \in 0 .. WordSize - 1
  BY <1>1, <1>2
<1>4. Counted(x) % WordSize = Counted(x)
  BY <1>3, WordIs
<1> DEFINE v == Counted(x) + TargetValue
<1>5. v \in 0 .. WordSize - 1 /\ 2 * v < WordSize
  BY <1>1, <1>2
<1>6. v % WordSize = v
  BY <1>5, WordIs
<1> QED
  BY <1>4, <1>5, <1>6 DEF Narrowed

\* An action is carried out past its target and never before; at most one count
\* a turn late.
THEOREM ActionsCorrect == Spec => ActsPastTarget
<1> DEFINE Right ==
      LET moved == tr.at - last
      IN /\ tr.pc = "read" /\ tr' = Nothing /\ target # NoTarget
         /\ Sound(tr) /\ last # Unsure
         /\ 2 * (last + TargetValue) < WordSize
         => IF target' = NoTarget
              THEN moved > TargetValue
              ELSE moved <= TargetValue + Turns(last, tr.at) \/ tr.at >= WordSize
<1>1. BeltInv /\ PulseInv /\ Next => Right
  <2> SUFFICES ASSUME BeltInv, PulseInv, Next,
                      tr.pc = "read", tr' = Nothing, target # NoTarget,
                      Sound(tr), last # Unsure,
                      2 * (last + TargetValue) < WordSize
               PROVE  IF target' = NoTarget
                        THEN tr.at - last > TargetValue
                        ELSE tr.at - last <= TargetValue + Turns(last, tr.at)
                             \/ tr.at >= WordSize
    OBVIOUS
  <2>1. tr.at \in Nat /\ last \in Nat /\ TargetValue \in Nat /\ WordSize \in Nat
    BY BeltAssumption, EncoderAssumption
       DEF BeltInv, TypeOK, ReadingOK, Sound, PulseInv
  <2>2. target = Counted(last) + TargetValue
    BY <2>1, TargetIs DEF PulseInv
  <2>3. tr.value = Counted(tr.at) % WordSize
    BY DEF BeltInv, ReadInv, Sound, Counted
  <2>4. Counted(tr.at) \in Nat /\ Counted(tr.at) <= tr.at /\ Counted(last) \in Nat
    BY <2>1, CountedNat
  <2>5. tr.value \in Nat /\ tr.value <= Counted(tr.at)
    BY <2>3, <2>4, WordAtMost
  <2>6. target' = (IF Passed THEN NoTarget ELSE target)
    <3>1. tr' # tr
      BY DEF Nothing
    <3>2. CASE TrTests
      BY <3>2 DEF TrTests
    <3>3. CASE EncoderInterrupt
      <4>1. tr'.pc = "read"
        BY <3>3 DEF EncoderInterrupt, Interrupted, BeltInv, TypeOK, ReadingOK
      <4> QED
        BY <4>1 DEF Nothing
    <3>4. CASE TrReads
      BY <3>4 DEF TrReads, Loads
    <3> QED
      BY <3>1, <3>2, <3>3, <3>4
         DEF Next, BeltTurns, ObjectDetectionThread, TrackingThread, OdReads,
             OdTakesPulse, OdSeesNothing, LineOver, vars, readVars
  <2>7. target \in Int /\ target # NoTarget
    BY <2>1, <2>2, <2>4
  <2>8. CASE Passed
    <3>1. Counted(tr.at) > Counted(last) + TargetValue
      BY <2>1, <2>2, <2>4, <2>5, <2>8 DEF Passed
    <3>2. tr.at \in Int /\ last \in Int
      BY <2>1
    <3>3. ~(tr.at <= last)
      <4> SUFFICES ASSUME tr.at <= last PROVE FALSE
        OBVIOUS
      <4>1. Counted(tr.at) <= Counted(last)
        BY <3>2, CountedMono
      <4> QED
        BY <2>1, <2>4, <3>1, <4>1
    <3>4. /\ Turns(last, tr.at) \in Nat
          /\ Counted(tr.at) - Counted(last) = tr.at - last - Turns(last, tr.at)
      <4>1. last <= tr.at
        BY <3>2, <3>3
      <4> QED
        BY <3>2, <4>1, CountedMono
    <3>5. tr.at - last > TargetValue
      BY <2>1, <2>4, <3>1, <3>4
    <3> QED
      BY <2>6, <2>8, <3>5
  <2>9. CASE ~Passed
    <3> SUFFICES ASSUME tr.at < WordSize
                 PROVE  tr.at - last <= TargetValue + Turns(last, tr.at)
      BY <2>1, <2>6, <2>7, <2>9
    <3>1. tr.value = Counted(tr.at)
      BY <2>1, <2>3, <2>4, WordIs
    <3>2. Counted(tr.at) <= Counted(last) + TargetValue
      BY <2>1, <2>2, <2>4, <2>9, <3>1 DEF Passed
    <3>3. tr.at \in Int /\ last \in Int
      BY <2>1
    <3>4. CASE last <= tr.at
      <4>1. Turns(last, tr.at) \in Nat
            /\ Counted(tr.at) - Counted(last) = tr.at - last - Turns(last, tr.at)
        BY <3>3, <3>4, CountedMono
      <4> QED
        BY <2>1, <2>4, <3>2, <4>1
    <3>5. CASE tr.at <= last
      <4>1. /\ Turns(tr.at, last) \in Nat
            /\ Counted(last) - Counted(tr.at) = last - tr.at - Turns(tr.at, last)
            /\ Counted(tr.at) <= Counted(last)
        BY <3>3, <3>5, CountedMono
      <4>2. Turns(last, tr.at) = -Turns(tr.at, last)
        <5>1. last \div Period \in Int /\ tr.at \div Period \in Int
          BY <3>3, PeriodType
        <5> QED
          BY <5>1 DEF Turns
      <4> QED
        BY <2>1, <2>4, <4>1, <4>2
    <3> QED
      BY <2>1, <3>4, <3>5
  <2> QED
    BY <2>8, <2>9
<1>2. BeltInv /\ PulseInv /\ [Next]_vars => [Right]_vars
  BY <1>1
<1> QED
  BY <1>2, PulseAlways, PTL DEF Spec, ActsPastTarget
=============================================================================
