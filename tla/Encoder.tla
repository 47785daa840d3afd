------------------------------- MODULE Encoder -------------------------------
(***************************************************************************)
(* One belt encoder (HARDWARE/ENCODER/bsp_encoder.c): a 16-bit hardware    *)
(* counter that wraps in both directions, and the overflow handler TIM3    *)
(* (and, with the same code, TIM8) that counts the wraps.                  *)
(*                                                                         *)
(* The handler prints first, which takes milliseconds on the serial line,  *)
(* looks at the direction the belt has by then, and clears the flag last.  *)
(***************************************************************************)
EXTENDS Integers

CONSTANTS
  ENCODER_CNT_MAX,  \* the largest value of the counter: 0xFFFF
  WordSize,         \* the values of an unsigned 32-bit word
  MaxBack,          \* bound: how far the belt is turned back
  MaxPosition       \* bound: how far it runs

ASSUME EncoderAssumption ==
  /\ ENCODER_CNT_MAX \in Nat \ {0}
  /\ WordSize \in Nat \ {0}
  /\ MaxBack \in Nat
  /\ MaxPosition \in Nat

VARIABLES
  counter,        \* the timer's counter
  down,           \* its direction bit
  wrapped,        \* its update flag
  OverflowCount,  \* OverflowCount_Encoder3
  encoderPc,      \* where the handler is: "out", "printing", "clearing"
  wraps,          \* history: turns of the counter, signed
  wrappedDown,    \*   the direction of a wrap being handled
  miscounted      \*   the belt turned back, or wrapped again, before the
                  \*   handler was through with a wrap

encoderVars == <<counter, down, wrapped, OverflowCount, encoderPc, wraps,
                 wrappedDown, miscounted>>

EncoderInit ==
  /\ counter = 0
  /\ down = FALSE
  /\ wrapped = FALSE
  /\ OverflowCount = 0
  /\ encoderPc = "out"
  /\ wraps = 0
  /\ wrappedDown = FALSE
  /\ miscounted = FALSE

Period == ENCODER_CNT_MAX + 1

\* How far the belt really is.
Position == wraps * Period + counter

\* One count forward, or back.  Bound: the belt stops with the first wrap
\* that is miscounted, for nothing corrects the count afterwards.
Turn(back) ==
  LET wrap == counter = IF back THEN 0 ELSE ENCODER_CNT_MAX
  IN /\ ~miscounted
     /\ IF back THEN Position > -MaxBack ELSE Position < MaxPosition
     /\ counter' = (counter + IF back THEN ENCODER_CNT_MAX ELSE 1) % Period
     /\ down' = back
     /\ wrapped' = (wrapped \/ wrap)
     /\ wraps' = wraps + IF ~wrap THEN 0 ELSE IF back THEN -1 ELSE 1
     /\ wrappedDown' = IF wrap THEN back ELSE wrappedDown
     /\ miscounted' = (wrapped /\ (wrap \/ back # wrappedDown))
     /\ UNCHANGED <<OverflowCount, encoderPc>>

EncoderBusy == wrapped \/ encoderPc # "out"

EncoderPrints ==
  /\ encoderPc = "out"
  /\ wrapped
  /\ encoderPc' = "printing"
  /\ UNCHANGED <<counter, down, wrapped, OverflowCount, wraps, wrappedDown,
                 miscounted>>

\* Fault: every wrap is taken for one forward.
CountedWrap_Up == OverflowCount + 1

CountedWrap == OverflowCount + IF down THEN -1 ELSE 1

EncoderCounts ==
  /\ encoderPc = "printing"
  /\ OverflowCount' = CountedWrap
  /\ encoderPc' = "clearing"
  /\ UNCHANGED <<counter, down, wrapped, wraps, wrappedDown, miscounted>>

EncoderClears ==
  /\ encoderPc = "clearing"
  /\ wrapped' = FALSE
  /\ encoderPc' = "out"
  /\ wrappedDown' = FALSE
  /\ UNCHANGED <<counter, down, OverflowCount, wraps, miscounted>>

EncoderHandler == EncoderPrints \/ EncoderCounts \/ EncoderClears

\* Faults: the sum is signed; the carry of a wrap is that of the counter's period.
EncoderNumber_Signed(o, c) == o * ENCODER_CNT_MAX + c

EncoderNumber_Period(o, c) == (o * Period + c) % WordSize

\* (OverflowCount * ENCODER_CNT_MAX) + counter, an unsigned word, since the
\* counter's register is one.
EncoderNumber(o, c) == (o * ENCODER_CNT_MAX + c) % WordSize

EncoderTypeOK ==
  /\ counter \in 0 .. ENCODER_CNT_MAX
  /\ down \in BOOLEAN
  /\ wrapped \in BOOLEAN
  /\ OverflowCount \in Int
  /\ encoderPc \in {"out", "printing", "clearing"}
  /\ encoderPc # "out" => wrapped
  /\ wraps \in Int
  /\ wrappedDown \in BOOLEAN
  /\ miscounted \in BOOLEAN

\* The overflow count is the number of turns of the belt's counter whenever
\* the handler has nothing left to do, unless the belt once turned back or
\* came round again while the handler was at a wrap.
WrapsCounted == ~EncoderBusy /\ ~miscounted => OverflowCount = wraps
==============================================================================
