----------------------------- MODULE ConveyorLine -----------------------------
(***************************************************************************)
(* What the tracking core promises, without its buffers, lists, queues and *)
(* tasks: an object is in one place at a time.  Objects enter in the order *)
(* of their numbers at the section that saw them, are handed from section  *)
(* to section as configured, and leave for good: pushed out by a section   *)
(* that has a pusher, or lost.                                             *)
(***************************************************************************)
EXTENDS Naturals

CONSTANTS
  Sections,    \* the sections of the line
  Objects,     \* the numbers objects are given, 0 upwards
  TakeOvers,   \* the configured hand-overs: <<from, to>>
  Pushers      \* the sections that push objects out

VARIABLE place  \* where each object is

At(m) == <<"at", m>>          \* section m is to act on the object
On(m) == <<"on the way", m>>  \* handed over to section m, not yet accepted
Unborn == <<"unborn">>
PushedOut == <<"pushed out">>
Lost == <<"lost">>

Gone == {PushedOut, Lost}

Places == {At(m) : m \in Sections} \cup {On(m) : m \in Sections}
            \cup Gone \cup {Unborn}

Init == place = [o \in Objects |-> Unborn]

Goes(o, here, there) == place[o] = here /\ place'[o] = there

\* A section sees an object nobody handed to it.
Enters(o, m) ==
  /\ Goes(o, Unborn, At(m))
  /\ \A p \in Objects : p < o => place[p] # Unborn

IsHandedOver(o) == \E x \in TakeOvers : Goes(o, At(x[1]), On(x[2]))

IsAccepted(o) == \E m \in Sections : Goes(o, On(m), At(m))

IsPushedOut(o) == \E m \in Pushers : Goes(o, At(m), PushedOut)

IsLost(o) == place[o] \notin Gone \cup {Unborn} /\ place'[o] = Lost

\* A section takes what it sees for a new object, and gives up the one that
\* was on the way to it.
IsReplaced(o, p) ==
  \E m \in Sections : Goes(o, On(m), Lost) /\ Goes(p, Unborn, At(m))

\* One object moves, or one replaces another.
Next ==
  LET moved == {o \in Objects : place'[o] # place[o]}
  IN /\ place' \in [Objects -> Places]
     /\ \A o \in moved :
          \/ \E m \in Sections : Enters(o, m)
          \/ IsHandedOver(o)
          \/ IsAccepted(o)
          \/ IsPushedOut(o)
          \/ IsLost(o)
     /\ \A o, p \in moved : o # p => IsReplaced(o, p) \/ IsReplaced(p, o)

Spec == Init /\ [][Next]_place
=============================================================================
