----------------------------- MODULE LwipTimers -----------------------------
(***************************************************************************)
(* The thread of lwIP, as LWIP/arch/sys_arch.c lets it run on FreeRTOS: it *)
(* waits for messages in its mailbox and, by the time each wait took, keeps*)
(* the list of its timers (core/timers.c), each entry with the time after  *)
(* the one before it.  Every connection of the firmware lives on these     *)
(* timers: TCP's retransmissions and the closing of connections among them.*)
(*                                                                         *)
(* The thread has the highest priority: while it waits it runs as soon as  *)
(* there is a message or the wait is over.  Messages come from the tasks   *)
(* and from the Ethernet interrupt.                                        *)
(***************************************************************************)
EXTENDS Integers, Sequences, SequencesExt

CONSTANTS
  Handlers,           \* the timers, each known by its handler
  TcpTimer,           \* tcpip_tcp_timer, the one that comes and goes
  Interval,           \* of each, in milliseconds
  MboxSize,           \* bound: how many messages wait (MAX_QUEUE_ENTRIES)
  WordSize,           \* the values of an unsigned word, 2^32
  configTICK_RATE_HZ, \* ticks, and milliseconds, in a second
  MaxLate             \* bound: how long a timer is kept from its time

ASSUME TimerAssumption ==
  /\ IsFiniteSet(Handlers)
  /\ TcpTimer \in Handlers
  /\ Handlers # {TcpTimer}
  /\ Interval \in [Handlers -> Nat \ {0}]
  /\ MboxSize \in Nat \ {0}
  /\ WordSize \in Nat \ {0}
  /\ configTICK_RATE_HZ \in Nat \ {0}
  /\ MaxLate \in Nat
  \* The longest interval is a minute; in ticks times the rate, it fits a word.
  /\ \A h \in Handlers : Interval[h] * configTICK_RATE_HZ < WordSize

VARIABLES
  tick,         \* HAL_GetTick
  mbox,         \* the number of messages in the mailbox
  next_timeout, \* the list of timers
  threadPc,     \* "again", "waiting", "handling"
  waitFrom,     \* the tick at which the wait began
  waitLeft,     \* the ticks that it may still take
  pcbs,         \* whether there are connections (tcp_active_pcbs, tcp_tw_pcbs)
  tcpip_tcp_timer_active,
  fired,        \* history: the last handler called
  age,          \* history, of each timer since it was set: ticks gone by,
  late,         \*   those of them in which the thread was not waiting,
  answers,      \*   waits that ended with a message,
  rushed        \*   whether one did within the tick it began in

clock == <<tick, age, late>>
history == <<fired, age, late, answers, rushed>>
vars == <<tick, mbox, next_timeout, threadPc, waitFrom, waitLeft, pcbs,
          tcpip_tcp_timer_active, history>>

Entry == [h : Handlers, time : Nat]

Pending == {next_timeout[j].h : j \in 1 .. Len(next_timeout)}

-----------------------------------------------------------------------------
(* sys_timeout.                                                            *)

\* The sum of the first j times of list l.
TimeUpTo(l) ==
  LET sum[j \in 0 .. Len(l)] == IF j = 0 THEN 0 ELSE sum[j - 1] + l[j].time
  IN sum

\* Fault: new entries go to the end.
EntryBefore_Last(l, msecs) == Len(l)

\* The entry of list l after which the new one goes, 0 for none.
EntryBefore(l, msecs) ==
  IF l = <<>> \/ l[1].time > msecs THEN 0
  ELSE CHOOSE j \in 1 .. Len(l) :
         LET Stops(k) == k = Len(l) \/ l[k + 1].time > msecs - TimeUpTo(l)[k]
         IN Stops(j) /\ \A k \in 1 .. j - 1 : ~Stops(k)

\* Fault: the entry after the new one keeps its time.
sys_timeout_KeepsNext(l, h, msecs) ==
  LET j == EntryBefore(l, msecs)
  IN InsertAt(l, j + 1, [h |-> h, time |-> msecs - TimeUpTo(l)[j]])

\* An entry for h that is due in msecs.  The pool of entries is larger than
\* the number of handlers.
sys_timeout(l, h, msecs) ==
  LET j == EntryBefore(l, msecs)
      time == msecs - TimeUpTo(l)[j]
      shortened == IF j = Len(l) THEN l ELSE [l EXCEPT ![j + 1].time = @ - time]
  IN InsertAt(shortened, j + 1, [h |-> h, time |-> time])

\* The list after sys_timeouts_init, which sets the periodic timers one by one.
InitialList ==
  FoldSet(LAMBDA h, l : sys_timeout(l, h, Interval[h]), <<>>, Handlers \ {TcpTimer})

Init ==
  /\ tick = 0
  /\ mbox = 0
  /\ next_timeout = InitialList
  /\ threadPc = "again"
  /\ waitFrom = 0
  /\ waitLeft = 0
  /\ pcbs = FALSE
  /\ tcpip_tcp_timer_active = FALSE
  /\ fired = TcpTimer
  /\ age = [h \in Handlers |-> 0]
  /\ late = [h \in Handlers |-> 0]
  /\ answers = [h \in Handlers |-> 0]
  /\ rushed = [h \in Handlers |-> FALSE]

-----------------------------------------------------------------------------
(* Time, and the others.                                                   *)

ThreadWakes == threadPc = "waiting" /\ (mbox > 0 \/ waitLeft = 0)

\* Counting ends where more makes no difference to the properties.
Counted(n, top) == IF n < top THEN n + 1 ELSE n

\* The SysTick interrupt.  Bound: the thread does not let a timer wait longer
\* than MaxLate.
Tick ==
  /\ ~ThreadWakes
  /\ threadPc # "waiting" => \A h \in Pending : late[h] < MaxLate
  /\ tick' = (tick + 1) % WordSize
  /\ waitLeft' = IF threadPc = "waiting" THEN waitLeft - 1 ELSE waitLeft
  /\ age' = [h \in Handlers |->
       IF h \in Pending THEN Counted(age[h], Interval[h] + MaxLate + 1) ELSE 0]
  /\ late' = [h \in Handlers |->
       IF h \in Pending /\ threadPc # "waiting" THEN late[h] + 1 ELSE late[h]]
  /\ UNCHANGED <<mbox, next_timeout, threadPc, waitFrom, pcbs,
                 tcpip_tcp_timer_active, fired, answers, rushed>>

\* sys_mbox_post and sys_mbox_trypost; a task waits, an interrupt gives up,
\* when the mailbox is full.
Post ==
  /\ mbox < MboxSize
  /\ mbox' = mbox + 1
  /\ UNCHANGED <<tick, next_timeout, threadPc, waitFrom, waitLeft, pcbs,
                 tcpip_tcp_timer_active, history>>

-----------------------------------------------------------------------------
(* sys_timeouts_mbox_fetch and sys_arch_mbox_fetch.  There is always a     *)
(* timer in the list, so the thread never waits without one.               *)

\* The history of a timer begins again when it is set.
Fresh(h) ==
  /\ age' = [age EXCEPT ![h] = 0]
  /\ late' = [late EXCEPT ![h] = 0]
  /\ answers' = [answers EXCEPT ![h] = 0]
  /\ rushed' = [rushed EXCEPT ![h] = FALSE]

\* The first timer's handler is called, and sets it again; TCP's only if there
\* are connections left when tcp_tmr has closed what it has to.
Fires ==
  LET h == Head(next_timeout).h
      rest == Tail(next_timeout)
  IN /\ pcbs' \in IF h = TcpTimer /\ pcbs THEN BOOLEAN ELSE {pcbs}
     /\ LET again == h = TcpTimer => pcbs'
        IN /\ next_timeout' = IF again THEN sys_timeout(rest, h, Interval[h]) ELSE rest
           /\ tcpip_tcp_timer_active' = (tcpip_tcp_timer_active /\ (h = TcpTimer => again))
     /\ fired' = h
     /\ Fresh(h)
     /\ threadPc' = "again"

\* The timer is due already.
FiresAtOnce ==
  /\ threadPc = "again"
  /\ Head(next_timeout).time = 0
  /\ Fires
  /\ UNCHANGED <<tick, mbox, waitFrom, waitLeft>>

\* There is a message: it is returned with a time of 0.
FetchesAtOnce ==
  /\ threadPc = "again"
  /\ Head(next_timeout).time > 0
  /\ mbox > 0
  /\ mbox' = mbox - 1
  /\ threadPc' = "handling"
  /\ UNCHANGED <<tick, next_timeout, waitFrom, waitLeft, pcbs,
                 tcpip_tcp_timer_active, history>>

\* Milliseconds in ticks, at least one.
WaitTicks(msecs) ==
  LET ticks == (msecs * configTICK_RATE_HZ) \div configTICK_RATE_HZ
  IN IF ticks < 1 THEN 1 ELSE ticks

StartsWaiting ==
  /\ threadPc = "again"
  /\ Head(next_timeout).time > 0
  /\ mbox = 0
  /\ waitFrom' = tick
  /\ waitLeft' = WaitTicks(Head(next_timeout).time)
  /\ threadPc' = "waiting"
  /\ UNCHANGED <<tick, mbox, next_timeout, pcbs, tcpip_tcp_timer_active, history>>

WaitEnds ==
  /\ threadPc = "waiting"
  /\ mbox = 0
  /\ waitLeft = 0
  /\ Fires
  /\ UNCHANGED <<tick, mbox, waitFrom, waitLeft>>

\* Fault: a wait is measured in whole ticks, and an answer within one takes none.
Waited_Zero(from, to) == (to - from) % WordSize

\* What sys_arch_mbox_fetch takes for the time from one tick to another: the
\* branch for a counter that has wrapped serves for equal ticks too.
Waited(from, to) ==
  LET ticks == IF to > from THEN to - from ELSE (WordSize - 1 - from + to) % WordSize
  IN ((ticks * configTICK_RATE_HZ) % WordSize) \div configTICK_RATE_HZ + 1

\* A message ends the wait, whose time is taken off the first timer's.
Answered ==
  LET time == Head(next_timeout).time
      waited == Waited(waitFrom, tick)
  IN /\ threadPc = "waiting"
     /\ mbox > 0
     /\ mbox' = mbox - 1
     /\ next_timeout' = [next_timeout EXCEPT ![1].time =
          IF waited < time THEN time - waited ELSE 0]
     /\ answers' = [h \in Handlers |->
          IF h \in Pending THEN Counted(answers[h], Interval[h]) ELSE 0]
     /\ rushed' = [h \in Handlers |-> h \in Pending /\ (rushed[h] \/ tick = waitFrom)]
     /\ threadPc' = "handling"
     /\ UNCHANGED <<tick, waitFrom, waitLeft, pcbs, tcpip_tcp_timer_active, fired,
                    age, late>>

-----------------------------------------------------------------------------
(* tcpip_thread with the message.                                          *)

HandlesOther ==
  /\ threadPc = "handling"
  /\ threadPc' = "again"
  /\ UNCHANGED <<tick, mbox, next_timeout, waitFrom, waitLeft, pcbs,
                 tcpip_tcp_timer_active, history>>

\* The message closes the last connection.
LosesConnection ==
  /\ threadPc = "handling"
  /\ pcbs
  /\ pcbs' = FALSE
  /\ threadPc' = "again"
  /\ UNCHANGED <<tick, mbox, next_timeout, waitFrom, waitLeft,
                 tcpip_tcp_timer_active, history>>

\* Fault: the flag is not looked at.
TimerNeeded_Always == TRUE

TimerNeeded == ~tcpip_tcp_timer_active

\* The message registers a connection, and tcp_timer_needed is called.
RegistersConnection ==
  /\ threadPc = "handling"
  /\ pcbs' = TRUE
  /\ IF TimerNeeded
       THEN /\ tcpip_tcp_timer_active' = TRUE
            /\ next_timeout' = sys_timeout(next_timeout, TcpTimer, Interval[TcpTimer])
            /\ Fresh(TcpTimer)
       ELSE UNCHANGED <<tcpip_tcp_timer_active, next_timeout, age, late, answers,
                        rushed>>
  /\ threadPc' = "again"
  /\ UNCHANGED <<tick, mbox, waitFrom, waitLeft, fired>>

Thread ==
  \/ FiresAtOnce \/ FetchesAtOnce \/ StartsWaiting \/ WaitEnds \/ Answered
  \/ HandlesOther \/ LosesConnection \/ RegistersConnection

Next == Tick \/ Post \/ Thread

Spec == Init /\ [][Next]_vars

\* Time passes, and the thread runs whenever it can.
FairSpec == Spec /\ WF_vars(Tick) /\ WF_vars(Thread)

-----------------------------------------------------------------------------
(* Properties.                                                             *)

TypeOK ==
  /\ tick \in 0 .. WordSize - 1
  /\ mbox \in 0 .. MboxSize
  /\ next_timeout \in Seq(Entry) \ {<<>>}
  /\ threadPc \in {"again", "waiting", "handling"}
  /\ waitFrom \in 0 .. WordSize - 1
  /\ waitLeft \in Nat
  /\ pcbs \in BOOLEAN
  /\ tcpip_tcp_timer_active \in BOOLEAN
  /\ fired \in Handlers
  /\ age \in [Handlers -> Nat] /\ late \in [Handlers -> Nat]
  /\ answers \in [Handlers -> Nat] /\ rushed \in [Handlers -> BOOLEAN]

\* Every periodic timer is in the list exactly once, and TCP's exactly when its
\* flag says so, which it does as long as there are connections: no timer is
\* lost, and none runs at twice its speed.
EachTimerOnce ==
  /\ \A i, j \in 1 .. Len(next_timeout) :
       next_timeout[i].h = next_timeout[j].h => i = j
  /\ Handlers \ {TcpTimer} \subseteq Pending
  /\ TcpTimer \in Pending <=> tcpip_tcp_timer_active
  /\ pcbs => tcpip_tcp_timer_active

\* A handler is called when its interval is over, later by no more than the time
\* the thread spent on messages, and earlier by no more than a millisecond for
\* each wait that a message ended: except that a message within the tick in
\* which the wait began may set it off at any time.
FiresOnTime ==
  [][\A h \in Handlers :
       /\ Head(next_timeout).h = h
       /\ threadPc' = "again"
       /\ threadPc = "waiting" \/ (threadPc = "again" /\ next_timeout' # next_timeout)
       => /\ age[h] <= Interval[h] + late[h]
          /\ rushed[h] \/ age[h] >= Interval[h] - answers[h]]_vars

\* Every periodic timer goes on firing, as long as the thread gets round to
\* waiting: each wait brings the first timer nearer, also if a message always
\* ends it, and a timer is not passed by others for ever.
TimersGoOn ==
  []<>(threadPc = "waiting") =>
    \A h \in Handlers \ {TcpTimer} : []<>(fired = h /\ threadPc = "again")
=============================================================================
