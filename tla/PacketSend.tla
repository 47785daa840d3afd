----------------------------- MODULE PacketSend -----------------------------
(***************************************************************************)
(* Packets to the PC (TRACK/TCPProtocol.c, TCPSendPacket): Detection and   *)
(* Tracking take a block of the external pool for a packet, TCPSendPacket  *)
(* writes it to every session with the client ID and frees it after each   *)
(* write, while the server adds and removes sessions.                      *)
(*                                                                         *)
(* A packet takes one block, which mymalloc and myfree give and take in    *)
(* one step here; MemoryPool has their own steps.  Detection preempts      *)
(* Tracking, which runs while Detection sleeps or waits in a write.  The   *)
(* server preempts both; it frees a connection and moves up the sessions   *)
(* without letting them run in between.                                    *)
(***************************************************************************)
EXTENDS Integers, FiniteSets

CONSTANTS
  Connections,  \* netconns for sending, more than are ever in use
  MaxClients,   \* bound: sessions at a time (the code has no limit of its own)
  Blocks,       \* what is left of the external pool
  Null          \* no block, no connection

ASSUME SendAssumption ==
  /\ MaxClients \in Nat
  /\ Null \notin Connections \cup Blocks

Tasks == {"detection", "tracking"}

VARIABLES
  Session,    \* the connections of the session table, with the old ones above
  ClientNum,
  open,       \* connections that have not been deleted
  owner,      \* of each block: "free", a task, "other", or "lost"
  sender,     \* the tasks in TCPSendPacket, records as below
  twoMatched, \* history: a packet was written for a second session
  misused     \* history: a deleted connection was written to

vars == <<Session, ClientNum, open, owner, sender, twoMatched, misused>>

\* Where a task is ("delay", "pass" of its loop, and in TCPSendPacket
\* "testing", "calling", "writing", "freeing"), its arguments and variables;
\* as history, the sessions the send has matched, the clients that have the
\* packet, those there all the time, and whether a session was removed since
\* the pass began, the send began, and ClientNum was looked at.
Idle ==
  [pc |-> "delay", clientID |-> 0, packet |-> Null, i |-> 0, conn |-> Null,
   matched |-> 0, told |-> {}, present |-> {}, left |-> FALSE,
   removed |-> FALSE, raced |-> FALSE]

\* Every session is added with client ID 0.
SessionID == 0

Entries == 0 .. MaxClients - 1

Table == {Session[k] : k \in 0 .. ClientNum - 1}

Init ==
  /\ Session = [k \in Entries |-> Null]
  /\ ClientNum = 0
  /\ open = {}
  /\ owner = [b \in Blocks |-> "free"]
  /\ sender = [t \in Tasks |-> Idle]
  /\ twoMatched = FALSE
  /\ misused = FALSE

-----------------------------------------------------------------------------
(* The server.                                                             *)

UsedConnections ==
  open \cup {Session[k] : k \in Entries} \cup
  UNION {{sender[t].conn} \cup sender[t].told : t \in Tasks}

\* addSession; the connection is one that no task still remembers.
ServerAdds ==
  /\ ClientNum < MaxClients
  /\ \E c \in Connections \ UsedConnections :
       /\ Session' = [Session EXCEPT ![ClientNum] = c]
       /\ open' = open \cup {c}
  /\ ClientNum' = ClientNum + 1
  /\ UNCHANGED <<owner, sender, twoMatched, misused>>

\* Fault: the entries are not moved up.
MovedUp_Not(k) == Session

MovedUp(k) ==
  [j \in Entries |-> IF j \in k .. ClientNum - 2 THEN Session[j + 1] ELSE Session[j]]

\* A session ends.  lwIP does not delete a connection that is being written to.
ServerRemoves ==
  \E k \in 0 .. ClientNum - 1 :
    LET c == Session[k]
        written == \E t \in Tasks : sender[t].pc = "writing" /\ sender[t].conn = c
    IN /\ Session' = MovedUp(k)
       /\ ClientNum' = ClientNum - 1
       /\ open' = IF written THEN open ELSE open \ {c}
       /\ sender' = [t \in Tasks |->
            IF sender[t].pc = "delay" THEN sender[t]
            ELSE [sender[t] EXCEPT !.left = TRUE, !.removed = TRUE, !.raced = TRUE,
                                   !.present = @ \ {c}]]
       /\ UNCHANGED <<owner, twoMatched, misused>>

-----------------------------------------------------------------------------
(* The other users of the pool: queues and their elements.                 *)

OthersAllocate ==
  /\ \E b \in Blocks :
       owner[b] = "free" /\ owner' = [owner EXCEPT ![b] = "other"]
  /\ UNCHANGED <<Session, ClientNum, open, sender, twoMatched, misused>>

OthersFree ==
  /\ \E b \in Blocks :
       owner[b] = "other" /\ owner' = [owner EXCEPT ![b] = "free"]
  /\ UNCHANGED <<Session, ClientNum, open, sender, twoMatched, misused>>

-----------------------------------------------------------------------------
(* Building a packet: 128 bytes, or NULL, which nobody looks for.          *)

Allocated(b, user) ==
  IF \A f \in Blocks : owner[f] # "free"
    THEN b = Null /\ UNCHANGED owner
    ELSE /\ b \in Blocks
         /\ owner[b] = "free"
         /\ owner' = [owner EXCEPT ![b] = user]

Runs(t) == t = "tracking" => sender["detection"].pc \in {"delay", "writing"}

At(t, pc) == sender[t].pc = pc /\ Runs(t)

StartPass(t) ==
  /\ At(t, "delay")
  /\ ClientNum > 0
  /\ sender' = [sender EXCEPT ![t].pc = "pass"]
  /\ UNCHANGED <<Session, ClientNum, open, owner, twoMatched, misused>>

EndPass(t) ==
  /\ At(t, "pass")
  /\ sender' = [sender EXCEPT ![t] = Idle]
  /\ UNCHANGED <<Session, ClientNum, open, owner, twoMatched, misused>>

\* A packet is built and TCPSendPacket called with it.
BuildAndSend(t, clientID) ==
  /\ At(t, "pass")
  /\ \E b \in Blocks \cup {Null} :
       /\ Allocated(b, t)
       /\ sender' = [sender EXCEPT ![t] =
            [Idle EXCEPT !.pc = "testing", !.clientID = clientID, !.packet = b,
                         !.present = Table, !.left = sender[t].left]]
  /\ UNCHANGED <<Session, ClientNum, open, twoMatched, misused>>

\* CreateObject tells the PC of the object.
OdStartsTracking == BuildAndSend("detection", 0)

\* An action of type ActTriggerCamera, to the client ID in its configuration.
TrTriggersCamera == \E clientID \in {0, 1} : BuildAndSend("tracking", clientID)

\* An action of type ActPushOut: the delete packet is built, and that is all.
TrPushesOut ==
  /\ At("tracking", "pass")
  /\ \E b \in Blocks \cup {Null} : Allocated(b, "lost")
  /\ UNCHANGED <<Session, ClientNum, open, sender, twoMatched, misused>>

-----------------------------------------------------------------------------
(* TCPSendPacket.                                                          *)

\* Faults: the loop runs one further; it stops at the first match.
MoreSessions_OneFurther(s) == s.i <= ClientNum

MoreSessions_One(s) == s.i < ClientNum /\ s.matched = 0

MoreSessions(s) == s.i < ClientNum

\* The loop's test, and the comparison of the client IDs.
Tests(t) ==
  LET s == sender[t]
  IN /\ At(t, "testing")
     /\ MoreSessions(s)
     /\ sender' = [sender EXCEPT ![t] =
          IF s.clientID = SessionID
            THEN [s EXCEPT !.pc = "calling", !.raced = FALSE]
            ELSE [s EXCEPT !.i = @ + 1]]
     /\ UNCHANGED <<Session, ClientNum, open, owner, twoMatched, misused>>

\* netconn_write is called with what the entry holds by now.  It refuses NULL
\* at once, and myfree ignores it.
Calls(t) ==
  LET s == sender[t]
      c == Session[s.i]
  IN /\ At(t, "calling")
     /\ IF s.packet = Null
          THEN /\ sender' = [sender EXCEPT ![t] = [s EXCEPT !.pc = "testing", !.i = @ + 1]]
               /\ UNCHANGED <<twoMatched, misused>>
          ELSE /\ sender' = [sender EXCEPT ![t] =
                    [s EXCEPT !.pc = "writing", !.conn = c, !.matched = @ + 1]]
               /\ twoMatched' = (twoMatched \/ s.matched > 0)
               /\ misused' = (c \notin open)
     /\ UNCHANGED <<Session, ClientNum, open, owner>>

\* The write is over: the client has the packet, or there was an error.  The
\* connection of a session that was removed meanwhile is now forgotten.
WriteEnds(t) ==
  LET s == sender[t]
  IN /\ At(t, "writing")
     /\ \E ok \in BOOLEAN :
          sender' = [sender EXCEPT ![t] =
            IF ok THEN [s EXCEPT !.pc = "freeing", !.told = @ \cup {s.conn}]
            ELSE [s EXCEPT !.pc = "freeing", !.present = @ \ {s.conn}]]
     /\ open' = IF s.conn \in Table THEN open ELSE open \ {s.conn}
     /\ UNCHANGED <<Session, ClientNum, owner, twoMatched, misused>>

\* Fault: nothing is freed.
OwnerAfter_Same(b) == owner[b]

OwnerAfter(b) == "free"

Frees(t) ==
  LET s == sender[t]
  IN /\ At(t, "freeing")
     /\ owner' = [owner EXCEPT ![s.packet] = OwnerAfter(s.packet)]
     /\ sender' = [sender EXCEPT ![t] =
          [s EXCEPT !.pc = "testing", !.i = @ + 1, !.conn = Null]]
     /\ UNCHANGED <<Session, ClientNum, open, twoMatched, misused>>

\* Fault: the caller frees the packet too.
OwnerAtReturn_Freed(s) ==
  IF s.packet = Null THEN owner ELSE [owner EXCEPT ![s.packet] = "free"]

\* A packet that matched no session belongs to nobody any more.
OwnerAtReturn(s) ==
  IF s.packet # Null /\ s.matched = 0 THEN [owner EXCEPT ![s.packet] = "lost"]
  ELSE owner

Returns(t) ==
  LET s == sender[t]
  IN /\ At(t, "testing")
     /\ ~MoreSessions(s)
     /\ owner' = OwnerAtReturn(s)
     /\ sender' = [sender EXCEPT ![t] = [Idle EXCEPT !.pc = "pass", !.left = s.left]]
     /\ UNCHANGED <<Session, ClientNum, open, twoMatched, misused>>

TCPSendPacket(t) == Tests(t) \/ Calls(t) \/ WriteEnds(t) \/ Frees(t) \/ Returns(t)

Run ==
  \/ ServerAdds \/ ServerRemoves
  \/ OthersAllocate \/ OthersFree
  \/ OdStartsTracking \/ TrTriggersCamera \/ TrPushesOut
  \/ \E t \in Tasks : StartPass(t) \/ EndPass(t) \/ TCPSendPacket(t)

\* Bound: what happens after a deleted connection was written to is not
\* followed.
Stop == misused /\ UNCHANGED vars

Next == (~misused /\ Run) \/ Stop

Spec == Init /\ [][Next]_vars

-----------------------------------------------------------------------------
(* Properties.                                                             *)

Sender ==
  [pc : {"delay", "pass", "testing", "calling", "writing", "freeing"},
   clientID : {0, 1}, packet : Blocks \cup {Null}, i : 0 .. MaxClients,
   conn : Connections \cup {Null}, matched : 0 .. MaxClients,
   told : SUBSET Connections, present : SUBSET Connections,
   left : BOOLEAN, removed : BOOLEAN, raced : BOOLEAN]

TypeOK ==
  /\ Session \in [Entries -> Connections \cup {Null}]
  /\ ClientNum \in 0 .. MaxClients
  /\ open \subseteq Connections
  /\ owner \in [Blocks -> {"free", "other", "lost"} \cup Tasks]
  /\ sender \in [Tasks -> Sender]
  /\ twoMatched \in BOOLEAN
  /\ misused \in BOOLEAN
  /\ \A t \in Tasks : sender[t].pc = "calling" => sender[t].i < MaxClients

\* The block a task has taken and not freed is its own.
Holds(t) == sender[t].packet # Null /\ sender[t].matched = 0

Writes(t) == sender[t].pc \in {"writing", "freeing"}

\* A packet that is built, written or freed is in a block that belongs to its
\* task alone: it is freed once, never read or freed after that, and never taken
\* from another task.
PacketIsTasks ==
  \A t \in Tasks : Holds(t) \/ Writes(t) =>
    sender[t].packet = Null \/ owner[sender[t].packet] = t

\* A task owns a block only while it is sending it: all that is lost are the
\* delete packets and the packets no session was there for.
TasksHoldPackets ==
  \A b \in Blocks : owner[b] \in Tasks =>
    LET s == sender[owner[b]]
    IN s.packet = b /\ s.pc \in {"testing", "calling", "writing", "freeing"}

\* Packets and the blocks of the sending tasks belong together, as long as no
\* packet was written for two sessions (it is freed for each).
PacketFreedOnce == ~twoMatched => PacketIsTasks /\ TasksHoldPackets

\* A packet is written to no client twice, and when TCPSendPacket returns
\* every client that was there all the time has it, unless a session was
\* removed meanwhile (the next one is then passed over), a write failed, or
\* there was no memory.  A packet finds no session at all only if one was
\* removed since the pass began.
EveryClientTold ==
  [][\A t \in Tasks :
       LET s == sender[t]
       IN /\ s.pc = "writing" /\ sender'[t].pc = "freeing" => s.conn \notin s.told
          /\ s.pc = "testing" /\ sender'[t].pc = "pass" /\ s.clientID = 0
               => /\ s.removed \/ s.packet = Null \/ s.present \subseteq s.told
                  /\ s.left \/ s.packet = Null \/ s.matched > 0]_vars

\* A deleted connection is written to only when its session was removed between
\* the test of ClientNum and the call.
WritesToOpenConnections ==
  misused => \E t \in Tasks : sender[t].pc = "writing" /\ sender[t].raced
=============================================================================
