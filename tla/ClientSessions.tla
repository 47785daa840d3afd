----------------------------- MODULE ClientSessions -----------------------------
(***************************************************************************)
(* The connections of PC clients and the way of their packets through the  *)
(* firmware: the session server (TcpPacketServer.c), the data transfer     *)
(* task (DataTransferManage.c) and the command processing task             *)
(* (DataProcess.c), over a receive queue per session (TCPQueue.c) and the  *)
(* external memory pool.                                                   *)
(*                                                                         *)
(* The server has priority 7 and the other two share priority 6, so those  *)
(* two are interleaved statement by statement, and the server runs from    *)
(* one wait to the next without them.                                      *)
(***************************************************************************)
EXTENDS TCPQueue, FiniteSets

CONSTANTS
  Conns,      \* the connections that clients may make
  MaxClients, \* MaxClinets
  Blocks,     \* the memory of the external pool
  MaxPackets  \* bound: the packets that clients send

ASSUME SessionAssumption ==
  /\ MaxClients \in Nat \ {0}
  /\ MaxPackets \in Nat
  /\ NULL \notin Conns \cup Blocks

VARIABLES
  status,     \* of each connection
  inbox,      \* its mailbox of packets; CLOSED is the empty message
  lastErr,    \* the last fatal error of a connection, or "ok"
  sent,       \* how many packets have been sent
  Session, ClientNum,
  queue,      \* the receive queue of each session, named by its connection
  free,       \* the free blocks of the pool
  server, transfer, process,  \* the tasks: where they are, and their locals
  meant,      \* history: the packets in each queue, oldest first
  carries,    \* history: the packet each block in a queue stands for
  leaked,     \* history: the blocks that were lost
  misused     \* history: uses of what the server has closed

net == <<status, inbox, lastErr, sent>>
table == <<Session, ClientNum>>
history == <<meant, carries, leaked, misused>>
vars == <<net, table, queue, free, server, transfer, process, history>>

Packets == 1 .. MaxPackets
CLOSED == 0
Blank == 0
Entries == 0 .. MaxClients - 1

Init ==
  /\ status = [c \in Conns |-> "away"]
  /\ inbox = [c \in Conns |-> <<>>]
  /\ lastErr = [c \in Conns |-> "ok"]
  /\ sent = 0
  /\ Session = [k \in Entries |-> NULL]
  /\ ClientNum = 0
  /\ queue = [c \in Conns |-> initQueue]
  /\ free = Blocks
  /\ server = [pc |-> "accept", i |-> 0, conn |-> NULL]
  /\ transfer = [pc |-> "delay", i |-> 0, conn |-> NULL, packet |-> Blank, buffer |-> NULL]
  /\ process = [pc |-> "delay", i |-> 0, conn |-> NULL]
  /\ meant = [c \in Conns |-> <<>>]
  /\ carries = [b \in Blocks |-> Blank]
  /\ leaked = {}
  /\ misused = {}

-----------------------------------------------------------------------------
(* The clients and the network.                                            *)

\* What arrives on an abandoned connection is read by nobody.
Connected(c) == status[c] \in {"pending", "connecting", "open"}

Connect(c) ==
  /\ status[c] = "away"
  /\ status' = [status EXCEPT ![c] = "pending"]
  /\ UNCHANGED <<inbox, lastErr, sent, table, queue, free, server, transfer, process, history>>

\* The peer has closed or reset its side.
Over(c) == CLOSED \in {inbox[c][k] : k \in DOMAIN inbox[c]} \/ lastErr[c] # "ok"

Send(c) ==
  /\ Connected(c) /\ ~Over(c)
  /\ sent < MaxPackets
  /\ sent' = sent + 1
  /\ inbox' = [inbox EXCEPT ![c] = Append(@, sent + 1)]
  /\ UNCHANGED <<status, lastErr, table, queue, free, server, transfer, process, history>>

\* recv_tcp posts an empty message after the packets.
Close(c) ==
  /\ Connected(c) /\ ~Over(c)
  /\ inbox' = [inbox EXCEPT ![c] = Append(@, CLOSED)]
  /\ UNCHANGED <<status, lastErr, sent, table, queue, free, server, transfer, process, history>>

\* err_tcp sets the error as well: a task that waits is woken, but packets are
\* no longer received.
Reset(c) ==
  /\ Connected(c)
  /\ lastErr[c] # "rst"
  /\ lastErr' = [lastErr EXCEPT ![c] = "rst"]
  /\ inbox' = [inbox EXCEPT ![c] = Append(@, CLOSED)]
  /\ UNCHANGED <<status, sent, table, queue, free, server, transfer, process, history>>

-----------------------------------------------------------------------------
(* The session server.  `i` is i_cycle, `conn` the connection accepted.    *)

ServerAt(pc) == [pc |-> pc, i |-> 0, conn |-> NULL]

ServerNext == [pc |-> "scan", i |-> server.i + 1, conn |-> NULL]

\* The server has what it waits for, or waits for nothing.
ServerReady ==
  \/ server.pc = "accept" /\ (ClientNum >= MaxClients \/ \E c \in Conns : status[c] = "pending")
  \/ server.pc = "scan"
  \/ server.pc = "receive" /\ inbox[Session[server.i]] # <<>>

Accept(c) ==
  /\ server.pc = "accept"
  /\ ClientNum < MaxClients
  /\ status[c] = "pending"
  /\ status' = [status EXCEPT ![c] = "connecting"]
  /\ server' = [server EXCEPT !.pc = "connect", !.conn = c]
  /\ UNCHANGED <<inbox, lastErr, sent, table, queue, free, transfer, process, history>>

\* The table is full, or no client came within 10 ms.
AcceptNothing ==
  /\ server.pc = "accept"
  /\ ClientNum >= MaxClients \/ ~ServerReady
  /\ server' = ServerAt("scan")
  /\ UNCHANGED <<net, table, queue, free, transfer, process, history>>

\* addSession.
ConnectBack ==
  /\ server.pc = "connect"
  /\ status' = [status EXCEPT ![server.conn] = "open"]
  /\ Session' = [Session EXCEPT ![ClientNum] = server.conn]
  /\ ClientNum' = ClientNum + 1
  /\ queue' = [queue EXCEPT ![server.conn] = initQueue]
  /\ server' = ServerAt("scan")
  /\ UNCHANGED <<inbox, lastErr, sent, free, transfer, process, history>>

\* The connection for sending is deleted; the one accepted is not.
ConnectBackFails ==
  /\ server.pc = "connect"
  /\ status' = [status EXCEPT ![server.conn] = "abandoned"]
  /\ server' = ServerAt("scan")
  /\ UNCHANGED <<inbox, lastErr, sent, table, queue, free, transfer, process, history>>

\* Fault: the last session is not looked at.
ScanOver_Early == server.i >= ClientNum - 1

ScanOver == server.i >= ClientNum

ScanEnds ==
  /\ server.pc = "scan"
  /\ ScanOver
  /\ server' = ServerAt("delay")
  /\ UNCHANGED <<net, table, queue, free, transfer, process, history>>

\* Fault: the entries do not move up.
Without_NoShift(k) == Session

\* The table without entry k: the later ones move up, the last one stays.
Without(k) ==
  [j \in Entries |-> IF j >= k /\ j < ClientNum - 1 THEN Session[j + 1] ELSE Session[j]]

\* Fault: the blocks are not given back.
Freed_None(q) == {}

\* The blocks destroyQueue gives back.
Freed(q) == {Items(q)[k] : k \in DOMAIN Items(q)}

InQueue(task, c) == task.conn = c /\ task.pc \in {"store", "copy", "push", "free", "pop"}

\* Session i is closed: ERR_CLSD was received.  lwIP's thread has priority 9
\* and closes and deletes at once.
Disconnect ==
  LET c == Session[server.i]
  IN /\ status' = [status EXCEPT ![c] = "deleted"]
     /\ queue' = [queue EXCEPT ![c] = Destroyed(@)]
     /\ free' = free \cup Freed(queue[c])
     /\ meant' = [meant EXCEPT ![c] = <<>>]
     /\ carries' = [b \in Blocks |-> IF b \in Freed(queue[c]) THEN Blank ELSE carries[b]]
     /\ Session' = Without(server.i)
     /\ ClientNum' = ClientNum - 1
     /\ misused' = misused
          \cup IF transfer.pc = "receive" /\ transfer.conn = c THEN {"connection"} ELSE {}
          \cup IF InQueue(transfer, c) \/ InQueue(process, c) THEN {"queue"} ELSE {}
     /\ server' = ServerNext
     /\ UNCHANGED <<sent, transfer, process, leaked>>

\* netconn_recv looks at the last error before it waits.
Scan ==
  /\ server.pc = "scan"
  /\ ~ScanOver
  /\ \/ /\ lastErr[Session[server.i]] = "ok"
        /\ server' = [server EXCEPT !.pc = "receive"]
        /\ UNCHANGED <<net, table, queue, free, history>>
     \/ /\ lastErr[Session[server.i]] = "closed"
        /\ Disconnect
        /\ UNCHANGED <<inbox, lastErr>>
     \/ /\ lastErr[Session[server.i]] = "rst"
        /\ server' = ServerNext
        /\ UNCHANGED <<net, table, queue, free, history>>
  /\ UNCHANGED <<transfer, process>>

\* The message received; an empty one sets the error, unless one is set.
Taken(c) == inbox' = [inbox EXCEPT ![c] = Tail(@)]

Closes(c) == lastErr' = [lastErr EXCEPT ![c] = IF @ = "ok" THEN "closed" ELSE @]

\* Only a closed connection is looked for: a packet is thrown away.
ScanReceives ==
  /\ server.pc = "receive"
  /\ LET c == Session[server.i]
     IN /\ inbox[c] # <<>>
        /\ Taken(c)
        /\ IF Head(inbox[c]) = CLOSED
             THEN Disconnect /\ Closes(c)
             ELSE /\ server' = ServerNext
                  /\ UNCHANGED <<status, lastErr, sent, table, queue, free, history>>
  /\ UNCHANGED <<transfer, process>>

ScanTimeout ==
  /\ server.pc = "receive"
  /\ ~ServerReady
  /\ server' = ServerNext
  /\ UNCHANGED <<net, table, queue, free, transfer, process, history>>

ServerWakes ==
  /\ server.pc = "delay"
  /\ server' = ServerAt("accept")
  /\ UNCHANGED <<net, table, queue, free, transfer, process, history>>

ServerStep ==
  \/ \E c \in Conns : Accept(c)
  \/ AcceptNothing \/ ConnectBack \/ ConnectBackFails
  \/ Scan \/ ScanReceives \/ ScanTimeout \/ ScanEnds \/ ServerWakes

-----------------------------------------------------------------------------
(* The data transfer task.  `conn` is first the connection it receives     *)
(* from, then the session whose queue it enters; `buffer` is               *)
(* dataRecvBuffer.                                                         *)

TransferAt(pc) == [transfer EXCEPT !.pc = pc]

\* In no queue, with no packet.
TransferFrom(pc, i) == [pc |-> pc, i |-> i, conn |-> NULL, packet |-> Blank, buffer |-> NULL]

TransferNext == TransferFrom("loop", transfer.i + 1)

TransferWakes ==
  /\ transfer.pc = "delay"
  /\ transfer' = TransferAt("loop")
  /\ UNCHANGED <<net, table, queue, free, server, process, history>>

TransferLoop ==
  /\ transfer.pc = "loop"
  /\ transfer' = IF transfer.i < ClientNum
                   THEN TransferAt("call")
                   ELSE TransferFrom("delay", 0)
  /\ UNCHANGED <<net, table, queue, free, server, process, history>>

\* netconn_recv is entered.  Between the test of i_cycle and here the server
\* may have removed the session, and the entry may be the one left behind.
TransferCalls ==
  /\ transfer.pc = "call"
  /\ LET c == Session[transfer.i]
     IN /\ transfer' = IF lastErr[c] = "ok"
                         THEN [TransferFrom("receive", transfer.i) EXCEPT !.conn = c]
                         ELSE TransferNext
        /\ misused' = misused \cup IF status[c] = "deleted" THEN {"connection"} ELSE {}
  /\ UNCHANGED <<net, table, queue, free, server, process, meant, carries, leaked>>

\* A packet arrives; with interrupts masked it is copied to a new block.
TransferReceives(b) ==
  /\ transfer.pc = "receive"
  /\ inbox[transfer.conn] # <<>>
  /\ Head(inbox[transfer.conn]) # CLOSED
  /\ b \in free \/ (b = NULL /\ free = {})
  /\ Taken(transfer.conn)
  /\ transfer' = [pc |-> "enter", i |-> transfer.i, conn |-> transfer.conn,
                  packet |-> Head(inbox[transfer.conn]), buffer |-> b]
  /\ free' = free \ {b}
  /\ UNCHANGED <<status, lastErr, sent, table, queue, server, process, history>>

TransferLearnsOfClose ==
  /\ transfer.pc = "receive"
  /\ inbox[transfer.conn] # <<>>
  /\ Head(inbox[transfer.conn]) = CLOSED
  /\ Taken(transfer.conn)
  /\ Closes(transfer.conn)
  /\ transfer' = TransferNext
  /\ UNCHANGED <<status, sent, table, queue, free, server, process, history>>

TransferTimeout ==
  /\ transfer.pc = "receive"
  /\ inbox[transfer.conn] = <<>>
  /\ transfer' = TransferNext
  /\ UNCHANGED <<net, table, queue, free, server, process, history>>

\* enQueue is called with the queue that Session[i_cycle] has by now.
TransferEnters ==
  /\ transfer.pc = "enter"
  /\ LET c == Session[transfer.i]
     IN /\ transfer' = [pc |-> "store", i |-> transfer.i, conn |-> c,
                        packet |-> transfer.packet, buffer |-> transfer.buffer]
        /\ misused' = misused \cup IF status[c] = "deleted" THEN {"queue"} ELSE {}
  /\ UNCHANGED <<net, table, queue, free, server, process, meant, carries, leaked>>

\* The memory is allocated before the queue is looked at.
TransferStores(b) ==
  /\ transfer.pc = "store"
  /\ b \in free \/ (b = NULL /\ free = {})
  /\ free' = free \ {b}
  /\ queue' = [queue EXCEPT ![transfer.conn] = Stored(@, b)]
  /\ transfer' = TransferAt(IF b = NULL THEN "release" ELSE "copy")
  /\ UNCHANGED <<net, table, server, process, history>>

\* A full queue is left as it is, and the new block to nobody.
TransferFindsQueueFull ==
  /\ transfer.pc = "copy"
  /\ isFullQueue(queue[transfer.conn])
  /\ leaked' = leaked \cup {queue[transfer.conn].pBase[queue[transfer.conn].rear]}
  /\ transfer' = TransferAt("release")
  /\ UNCHANGED <<net, table, queue, free, server, process, meant, carries, misused>>

\* What is copied is DataTransferManage_recvbuf, which nothing writes.
TransferCopies ==
  /\ transfer.pc = "copy"
  /\ ~isFullQueue(queue[transfer.conn])
  /\ carries' = [carries EXCEPT ![queue[transfer.conn].pBase[queue[transfer.conn].rear]] = transfer.packet]
  /\ transfer' = TransferAt("push")
  /\ UNCHANGED <<net, table, queue, free, server, process, meant, leaked, misused>>

TransferPushes ==
  /\ transfer.pc = "push"
  /\ queue' = [queue EXCEPT ![transfer.conn] = Pushed(@)]
  /\ meant' = [meant EXCEPT ![transfer.conn] = Append(@, transfer.packet)]
  /\ transfer' = TransferAt("release")
  /\ UNCHANGED <<net, table, free, server, process, carries, leaked, misused>>

\* myfree(dataRecvBuffer), and on to the next session.
TransferReleases ==
  /\ transfer.pc = "release"
  /\ free' = free \cup ({transfer.buffer} \ {NULL})
  /\ transfer' = TransferNext
  /\ UNCHANGED <<net, table, queue, server, process, history>>

TransferStep ==
  \/ TransferWakes \/ TransferLoop \/ TransferCalls
  \/ \E b \in Blocks \cup {NULL} : TransferReceives(b) \/ TransferStores(b)
  \/ TransferLearnsOfClose \/ TransferTimeout \/ TransferEnters
  \/ TransferFindsQueueFull \/ TransferCopies \/ TransferPushes \/ TransferReleases

-----------------------------------------------------------------------------
(* The command processing task.  `data` is pRecvData.                      *)

ProcessAt(pc) == [process EXCEPT !.pc = pc]

ProcessNext == [pc |-> "loop", i |-> process.i + 1, conn |-> NULL]

ProcessWakes ==
  /\ process.pc = "delay"
  /\ process' = ProcessAt("loop")
  /\ UNCHANGED <<net, table, queue, free, server, transfer, history>>

ProcessLoop ==
  /\ process.pc = "loop"
  /\ \/ /\ process.i >= ClientNum
        /\ process' = [pc |-> "delay", i |-> 0, conn |-> NULL]
     \/ /\ process.i < ClientNum
        /\ process' = IF isEmpityQueue(queue[Session[process.i]])
                         THEN ProcessNext
                         ELSE ProcessAt("take")
  /\ UNCHANGED <<net, table, queue, free, server, transfer, history>>

\* deQueue of the queue that Session[i] has by now takes the oldest pointer.
ProcessTakes ==
  /\ process.pc = "take"
  /\ LET c == Session[process.i]
     IN /\ ~isEmpityQueue(queue[c])
        /\ process' = [pc |-> "free", i |-> process.i, conn |-> c]
        /\ meant' = [meant EXCEPT ![c] = Tail(@)]
  /\ UNCHANGED <<net, table, queue, free, server, transfer, carries, leaked, misused>>

\* deQueue fails with a value that is not zero: the caller goes on with the
\* pointer it has.
ProcessTakesNothing ==
  /\ process.pc = "take"
  /\ isEmpityQueue(queue[Session[process.i]])
  /\ process' = ProcessAt("execute")
  /\ UNCHANGED <<net, table, queue, free, server, transfer, history>>

ProcessFrees ==
  /\ process.pc = "free"
  /\ LET b == queue[process.conn].pBase[queue[process.conn].front]
     IN /\ free' = free \cup {b}
        /\ carries' = [carries EXCEPT ![b] = Blank]
  /\ process' = ProcessAt("pop")
  /\ UNCHANGED <<net, table, queue, server, transfer, meant, leaked, misused>>

ProcessPops ==
  /\ process.pc = "pop"
  /\ queue' = [queue EXCEPT ![process.conn] = Popped(@)]
  /\ process' = ProcessAt("execute")
  /\ UNCHANGED <<net, table, free, server, transfer, history>>

\* The command at pRecvData is read and carried out.
ProcessExecutes ==
  /\ process.pc = "execute"
  /\ process' = ProcessNext
  /\ UNCHANGED <<net, table, queue, free, server, transfer, history>>

ProcessStep ==
  \/ ProcessWakes \/ ProcessLoop \/ ProcessTakes \/ ProcessTakesNothing
  \/ ProcessFrees \/ ProcessPops \/ ProcessExecutes

-----------------------------------------------------------------------------

ClientStep == \E c \in Conns : Connect(c) \/ Send(c) \/ Close(c) \/ Reset(c)

\* A deleted connection or a destroyed queue has been used: what follows is
\* not modelled.
Undefined == misused # {} /\ UNCHANGED vars

Next ==
  \/ misused = {} /\ (ClientStep \/ ServerStep)
  \/ misused = {} /\ ~ServerReady /\ (TransferStep \/ ProcessStep)
  \/ Undefined

Spec == Init /\ [][Next]_vars

\* The server waits for ticks and answers only, and no task of the firmware
\* that runs for long has a higher priority.
FairSpec == Spec /\ WF_vars(misused = {} /\ ServerStep)

-----------------------------------------------------------------------------
(* Properties.                                                             *)

TypeOK ==
  /\ status \in [Conns -> {"away", "pending", "connecting", "open", "abandoned", "deleted"}]
  /\ inbox \in [Conns -> Seq(Packets \cup {CLOSED})]
  /\ lastErr \in [Conns -> {"ok", "closed", "rst"}]
  /\ sent \in 0 .. MaxPackets
  /\ Session \in [Entries -> Conns \cup {NULL}]
  /\ ClientNum \in 0 .. MaxClients
  /\ queue \in [Conns -> [pBase : [Indices -> Blocks \cup {NULL}], front : Indices, rear : Indices]]
  /\ free \subseteq Blocks
  /\ server \in [pc : {"accept", "connect", "scan", "receive", "delay"},
                 i : 0 .. MaxClients, conn : Conns \cup {NULL}]
  /\ transfer \in [pc : {"delay", "loop", "call", "receive", "enter", "store", "copy", "push", "release"},
                   i : 0 .. MaxClients, conn : Conns \cup {NULL},
                   packet : Packets \cup {Blank}, buffer : Blocks \cup {NULL}]
  /\ process \in [pc : {"delay", "loop", "take", "free", "pop", "execute"},
                  i : 0 .. MaxClients, conn : Conns \cup {NULL}]
  /\ meant \in [Conns -> Seq(Packets)]
  /\ carries \in [Blocks -> Packets \cup {Blank}]
  /\ leaked \subseteq Blocks
  /\ misused \subseteq {"connection", "queue"}

\* The session table (TcpPacketServer.c:124-134, 166-170) lists the open
\* connections, each once, through any sequence of clients coming and going
\* and of scans that remove entries while they go over them.
SessionsMatchConnections ==
  /\ \A k \in 0 .. ClientNum - 1 : status[Session[k]] = "open"
  /\ \A j, k \in 0 .. ClientNum - 1 : Session[j] = Session[k] => j = k
  /\ \A c \in Conns : status[c] = "open" => \E k \in 0 .. ClientNum - 1 : Session[k] = c

\* The blocks a queue holds for packets that are not taken yet: until deQueue
\* counts it out, the front is the block already taken.
Waiting(c) ==
  IF process.conn = c /\ process.pc \in {"free", "pop"}
    THEN Tail(Items(queue[c]))
    ELSE Items(queue[c])

\* While the transfer task puts packets in and the processing task takes them
\* out, statement by statement, a queue holds the packets put in and not
\* taken, in their order.
QueuesHoldPackets ==
  misused = {} =>
    \A c \in Conns :
      meant[c] = [k \in 1 .. Len(Waiting(c)) |-> carries[Waiting(c)[k]]]

\* Everything that has a claim to block b.
Owners(b) ==
  {x \in Conns \X (1 .. MaxPointNumInQueue) :
     x[2] \in DOMAIN Waiting(x[1]) /\ Waiting(x[1])[x[2]] = b}
  \cup {x \in {"free"} : b \in free}
  \cup {x \in {"lost"} : b \in leaked}
  \cup {x \in {"buffer"} : b = transfer.buffer}
  \cup {x \in {"enQueue"} : transfer.pc \in {"copy", "push"} /\
                            b = queue[transfer.conn].pBase[queue[transfer.conn].rear]}
  \cup {x \in {"deQueue"} : process.pc = "free" /\
                            b = queue[process.conn].pBase[queue[process.conn].front]}

\* Every block belongs to one: none is given to two, freed while it is in a
\* queue, or lost other than by enQueue into a full queue.
BlocksHaveOneOwner ==
  misused = {} => \A b \in Blocks : Cardinality(Owners(b)) = 1

\* A session whose client closes is removed by the scan
\* (TcpPacketServer.c:148-171), whichever task reads the end of the
\* connection first; one that is reset may stay for ever.
ClosedSessionsAreRemoved ==
  \A c \in Conns :
    (status[c] = "open" /\ Over(c)) ~>
      (status[c] = "deleted" \/ lastErr[c] = "rst" \/ misused # {})
=============================================================================
