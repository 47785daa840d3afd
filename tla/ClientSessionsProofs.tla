-------------------------- MODULE ClientSessionsProofs --------------------------
(***************************************************************************)
(* The session table lists the open connections, the queues hold the       *)
(* packets put in, and every block has one owner, for any number of        *)
(* clients, sessions, blocks and packets and rings of every size.          *)
(***************************************************************************)
EXTENDS ClientSessions, SequenceTheorems, FiniteSetTheorems, TLAPS

-----------------------------------------------------------------------------
(* The session table and where the tasks stand.                            *)

Ring == [pBase : [Indices -> Blocks \cup {NULL}], front : Indices, rear : Indices]

\* The types of all but what depends on the contents of the queues.
ControlType ==
  /\ status \in [Conns -> {"away", "pending", "connecting", "open", "abandoned", "deleted"}]
  /\ inbox \in [Conns -> Seq(Packets \cup {CLOSED})]
  /\ lastErr \in [Conns -> {"ok", "closed", "rst"}]
  /\ sent \in 0 .. MaxPackets
  /\ Session \in [Entries -> Conns \cup {NULL}]
  /\ ClientNum \in 0 .. MaxClients
  /\ queue \in [Conns -> Ring]
  /\ server \in [pc : {"accept", "connect", "scan", "receive", "delay"},
                 i : 0 .. MaxClients, conn : Conns \cup {NULL}]
  /\ transfer \in [pc : {"delay", "loop", "call", "receive", "enter", "store", "copy", "push", "release"},
                   i : 0 .. MaxClients, conn : Conns \cup {NULL},
                   packet : Packets \cup {Blank}, buffer : Blocks \cup {NULL}]
  /\ process \in [pc : {"delay", "loop", "take", "free", "pop", "execute"},
                  i : 0 .. MaxClients, conn : Conns \cup {NULL}]
  /\ misused \subseteq {"connection", "queue"}

\* The entries in use are the open connections; the ones above, left behind
\* by removals, name connections that are open or deleted.
TableInv ==
  /\ \A k \in 0 .. ClientNum - 1 : Session[k] \in Conns /\ status[Session[k]] = "open"
  /\ \A j, k \in 0 .. ClientNum - 1 : Session[j] = Session[k] => j = k
  /\ \A c \in Conns : status[c] = "open" => \E k \in 0 .. ClientNum - 1 : Session[k] = c
  /\ \A k \in Entries : Session[k] # NULL => status[Session[k]] \in {"open", "deleted"}

ServerInv ==
  /\ server.pc = "connect" =>
       /\ server.conn \in Conns
       /\ status[server.conn] = "connecting"
       /\ ClientNum < MaxClients
  /\ server.pc = "receive" => server.i < ClientNum

\* A task stands on an entry that was once in use, and works on a connection
\* that is open unless one was misused.
TransferInv ==
  /\ transfer.pc \in {"call", "receive", "enter", "store", "copy", "push", "release"} =>
       transfer.i \in Entries /\ Session[transfer.i] # NULL
  /\ transfer.pc \in {"receive", "store", "copy", "push"} =>
       /\ transfer.conn \in Conns
       /\ status[transfer.conn] \in {"open", "deleted"}
       /\ misused = {} => status[transfer.conn] = "open"
  /\ transfer.pc \in {"enter", "store", "copy", "push"} => transfer.packet \in Packets

ProcessInv ==
  /\ process.pc \in {"take", "free", "pop", "execute"} =>
       process.i \in Entries /\ Session[process.i] # NULL
  /\ process.pc \in {"free", "pop"} =>
       /\ process.conn \in Conns
       /\ status[process.conn] \in {"open", "deleted"}
       /\ misused = {} => status[process.conn] = "open"

ControlInv == ControlType /\ TableInv /\ ServerInv /\ TransferInv /\ ProcessInv

-----------------------------------------------------------------------------
(* The queues and the blocks.                                              *)

\* The length of a queue, and the index of its pointer d, without a modulus.
LengthOf(q) ==
  IF q.front <= q.rear THEN q.rear - q.front ELSE q.rear - q.front + MaxPointNumInQueue

Spot(q, d) ==
  IF q.front + d < MaxPointNumInQueue THEN q.front + d ELSE q.front + d - MaxPointNumInQueue

\* The processing task has taken the first pointer and not counted it out.
Skip(c) == IF process.conn = c /\ process.pc \in {"free", "pop"} THEN 1 ELSE 0

\* The blocks that wait in a queue.
Count(c) == LengthOf(queue[c]) - Skip(c)

Held(c, k) == queue[c].pBase[Spot(queue[c], k - 1 + Skip(c))]

Front(c) == queue[c].pBase[queue[c].front]
Rear(c) == queue[c].pBase[queue[c].rear]

\* What has a claim to block b.
Kinds == {"queue", "free", "lost", "buffer", "enQueue", "deQueue"}

Queued(b) == \E c \in Conns : \E k \in 1 .. Count(c) : Held(c, k) = b

Claim(x, b) ==
  \/ x = "queue" /\ Queued(b)
  \/ x = "free" /\ b \in free
  \/ x = "lost" /\ b \in leaked
  \/ x = "buffer" /\ b = transfer.buffer
  \/ x = "enQueue" /\ transfer.pc \in {"copy", "push"} /\ b = Rear(transfer.conn)
  \/ x = "deQueue" /\ process.pc = "free" /\ b = Front(process.conn)

\* Exactly one of them has.
Claimed(b) == \E x \in Kinds : \A y \in Kinds : Claim(y, b) <=> y = x

DataType ==
  /\ free \subseteq Blocks
  /\ meant \in [Conns -> Seq(Packets)]
  /\ carries \in [Blocks -> Packets \cup {Blank}]
  /\ leaked \subseteq Blocks

\* A queue that is in use by no open connection is empty, a packet under way
\* has room, and one being taken is there.
RingInv ==
  /\ \A c \in Conns : status[c] # "open" => queue[c].front = queue[c].rear
  /\ transfer.pc = "push" => LengthOf(queue[transfer.conn]) < MaxPointNumInQueue - 1
  /\ transfer.pc \in {"copy", "push"} => Rear(transfer.conn) \in Blocks
  /\ process.pc \in {"free", "pop"} =>
       LengthOf(queue[process.conn]) > 0 /\ Front(process.conn) \in Blocks
  /\ transfer.pc \in {"delay", "loop", "call", "receive"} => transfer.buffer = NULL

\* Queues hold blocks, no block twice.
HeldInv ==
  /\ \A c \in Conns : \A k \in 1 .. Count(c) : Held(c, k) \in Blocks
  /\ \A c, d \in Conns : \A k \in 1 .. Count(c) : \A l \in 1 .. Count(d) :
       Held(c, k) = Held(d, l) => c = d /\ k = l

\* Their blocks carry the packets meant.
MeantInv ==
  /\ \A c \in Conns : Len(meant[c]) = Count(c)
  /\ \A c \in Conns : \A k \in 1 .. Count(c) : meant[c][k] = carries[Held(c, k)]

\* So will the one under way.
CopiedInv == transfer.pc = "push" => carries[Rear(transfer.conn)] = transfer.packet

DataInv ==
  /\ DataType
  /\ misused = {} =>
       /\ RingInv
       /\ HeldInv
       /\ \A b \in Blocks : Claimed(b)
       /\ MeantInv
       /\ CopiedInv

-----------------------------------------------------------------------------
(* The control invariant, from step to step.                               *)

LEMMA InitControl == Init => ControlInv
<1> SUFFICES ASSUME Init PROVE ControlInv
  OBVIOUS
<1> USE SessionAssumption, QueueAssumption
<1>1. ControlType
  <2>1. initQueue \in Ring
    BY DEF initQueue, Indices, Ring
  <2> QED
    BY <2>1 DEF Init, ControlType, Entries, Packets, CLOSED, Blank
<1>2. TableInv
  BY DEF Init, TableInv, Entries
<1> QED
  BY <1>1, <1>2 DEF Init, ControlInv, ServerInv, TransferInv, ProcessInv

\* A step that leaves the table alone, and the connections in it.
LEMMA TableKept ==
  ASSUME ControlInv, UNCHANGED table,
         \A c \in Conns : /\ status[c] \in {"open", "deleted"} => status'[c] = status[c]
                          /\ status'[c] = "open" => status[c] = "open"
  PROVE  TableInv'
<1> USE DEF ControlInv, ControlType, table
<1>1. \A k \in Entries : Session[k] # NULL => Session[k] \in Conns
  OBVIOUS
<1>2. \A k \in 0 .. ClientNum' - 1 : Session'[k] \in Conns /\ status'[Session'[k]] = "open"
  BY DEF TableInv
<1>3. \A k \in Entries : Session'[k] # NULL => status'[Session'[k]] \in {"open", "deleted"}
  BY <1>1 DEF TableInv
<1>4. \A c \in Conns : status'[c] = "open" => \E k \in 0 .. ClientNum' - 1 : Session'[k] = c
  BY DEF TableInv
<1>5. \A j, k \in 0 .. ClientNum' - 1 : Session'[j] = Session'[k] => j = k
  BY DEF TableInv
<1> QED
  BY <1>2, <1>3, <1>4, <1>5 DEF TableInv, Entries

\* What a client does is no concern of the table.
LEMMA ClientControl ==
  ASSUME ControlInv, ClientStep PROVE ControlInv'
<1> USE DEF ControlInv
<1>1. /\ UNCHANGED <<table, queue, server, transfer, process, misused>>
      /\ \A c \in Conns : status'[c] = status[c] \/ (status[c] = "away" /\ status'[c] = "pending")
      /\ ControlType'
  <2>1. PICK c \in Conns : Connect(c) \/ Send(c) \/ Close(c) \/ Reset(c)
    BY DEF ClientStep
  <2>2. CASE Connect(c)
    BY <2>2 DEF Connect, ControlType, table, history
  <2>3. ASSUME NEW x \in Packets \cup {CLOSED} PROVE Append(inbox[c], x) \in Seq(Packets \cup {CLOSED})
    BY AppendProperties DEF ControlType
  <2>4. CASE Send(c)
    <3>1. sent + 1 \in Packets /\ sent' \in 0 .. MaxPackets
      BY <2>4, SessionAssumption DEF Send, ControlType, Packets
    <3> QED
      BY <2>3, <2>4, <3>1 DEF Send, ControlType, table, history
  <2>5. CASE Close(c)
    BY <2>3, <2>5 DEF Close, ControlType, table, history
  <2>6. CASE Reset(c)
    BY <2>3, <2>6, SMTT(20) DEF Reset, ControlType, table, history
  <2> QED
    BY <2>1, <2>2, <2>4, <2>5, <2>6
<1>2. TableInv'
  BY <1>1, TableKept
<1>3. ServerInv' /\ TransferInv' /\ ProcessInv'
  BY <1>1 DEF ControlType, ServerInv, TransferInv, ProcessInv, table
<1> QED
  BY <1>1, <1>2, <1>3

-----------------------------------------------------------------------------
(* The server.                                                             *)

LEMMA AcceptControl ==
  ASSUME ControlInv, NEW c \in Conns, Accept(c) PROVE ControlInv'
<1> USE DEF ControlInv
<1>1. ControlType'
  BY ZenonT(40) DEF Accept, ControlType, table, history
<1>2. /\ \A d \in Conns : d # c => status'[d] = status[d]
      /\ status[c] = "pending" /\ status'[c] = "connecting"
      /\ UNCHANGED <<Session, ClientNum, transfer, process, misused>>
  BY DEF Accept, ControlType, table, history
<1>3. TableInv'
  BY <1>2, TableKept DEF table
<1>4. ServerInv'
  BY <1>2 DEF Accept, ControlType, ServerInv
<1>5. TransferInv' /\ ProcessInv'
  BY <1>2 DEF ControlType, TransferInv, ProcessInv
<1> QED
  BY <1>1, <1>3, <1>4, <1>5

\* The server takes a step that changes nothing it shares.
LEMMA QuietServerControl ==
  ASSUME ControlInv,
         \/ AcceptNothing \/ ScanEnds \/ ScanTimeout \/ ServerWakes
         \/ Scan /\ UNCHANGED <<net, table, queue, history>>
         \/ ScanReceives /\ UNCHANGED <<status, lastErr, sent, table, queue, history>>
  PROVE  ControlInv'
<1> USE DEF ControlInv
<1>1. /\ UNCHANGED <<status, lastErr, sent, table, queue, transfer, process, misused>>
      /\ inbox' \in [Conns -> Seq(Packets \cup {CLOSED})]
  <2>1. CASE ScanReceives
    <3>1. Session[server.i] \in Conns
      BY <2>1 DEF ScanReceives, ServerInv, TableInv, ControlType
    <3>2. Tail(inbox[Session[server.i]]) \in Seq(Packets \cup {CLOSED})
      BY <2>1, <3>1, HeadTailProperties DEF ScanReceives, ControlType
    <3> QED
      BY <2>1, <3>1, <3>2 DEF ScanReceives, Taken, Disconnect, AcceptNothing, ScanEnds, ScanTimeout,
         ServerWakes, Scan, ControlType, net, history, table
  <2>2. CASE ~ScanReceives
    BY <2>2 DEF AcceptNothing, ScanEnds, ScanTimeout, ServerWakes, Scan, ControlType, net, history
  <2> QED
    BY <2>1, <2>2
<1>2. /\ server' \in [pc : {"accept", "connect", "scan", "receive", "delay"},
                      i : 0 .. MaxClients, conn : Conns \cup {NULL}]
      /\ server'.pc # "connect"
      /\ server'.pc = "receive" => server'.i < ClientNum
  <2> USE SessionAssumption DEF ControlType
  <2>1. CASE AcceptNothing \/ ScanEnds \/ ServerWakes
    BY <2>1 DEF AcceptNothing, ScanEnds, ServerWakes, ServerAt
  <2>2. CASE /\ server.pc = "receive"
             /\ server' = ServerNext
    BY <2>2 DEF ServerInv, ServerNext
  <2>3. CASE ScanTimeout
    BY <2>2, <2>3 DEF ScanTimeout
  <2>4. CASE Scan /\ UNCHANGED <<net, table, queue, history>>
    <3>1. server.i < ClientNum
      BY <2>4 DEF Scan, ScanOver
    <3>2. lastErr[Session[server.i]] # "closed"
      BY <2>4 DEF Scan, Disconnect, table
    <3>3. server' = [server EXCEPT !.pc = "receive"] \/ server' = ServerNext
      BY <2>4, <3>2 DEF Scan
    <3>4. server.i + 1 \in 0 .. MaxClients
      BY <3>1
    <3>5. CASE server' = [server EXCEPT !.pc = "receive"]
      BY <3>1, <3>5
    <3>6. CASE server' = ServerNext
      BY <3>4, <3>6 DEF ServerNext
    <3> QED
      BY <3>3, <3>5, <3>6
  <2>5. CASE ScanReceives /\ UNCHANGED <<status, lastErr, sent, table, queue, history>>
    BY <2>2, <2>5 DEF ScanReceives, Disconnect
  <2> QED
    BY <2>1, <2>3, <2>4, <2>5
<1>3. TableInv'
  BY <1>1, TableKept
<1>4. ControlType'
  BY <1>1, <1>2, SMTT(20) DEF ControlType, table
<1> QED
  BY <1>1, <1>2, <1>3, <1>4 DEF ServerInv, TransferInv, ProcessInv, table

LEMMA ConnectBackFailsControl ==
  ASSUME ControlInv, ConnectBackFails PROVE ControlInv'
<1> USE SessionAssumption DEF ControlInv
<1>1. ControlType'
  <2>1. ServerAt("scan") \in [pc : {"accept", "connect", "scan", "receive", "delay"},
                             i : 0 .. MaxClients, conn : Conns \cup {NULL}]
    BY DEF ServerAt
  <2>2. status' \in [Conns -> {"away", "pending", "connecting", "open", "abandoned", "deleted"}]
    BY DEF ConnectBackFails, ControlType
  <2> QED
    BY <2>1, <2>2 DEF ConnectBackFails, ControlType, table, history
<1>2. /\ \A d \in Conns : d # server.conn => status'[d] = status[d]
      /\ server.conn \in Conns
      /\ status[server.conn] = "connecting" /\ status'[server.conn] = "abandoned"
      /\ server'.pc = "scan"
      /\ UNCHANGED <<table, transfer, process, misused>>
  BY DEF ConnectBackFails, ControlType, ServerInv, ServerAt, history
<1>3. TableInv'
  BY <1>2, TableKept
<1> QED
  BY <1>1, <1>2, <1>3, ZenonT(40)
  DEF ControlType, ServerInv, TransferInv, ProcessInv, table

\* addSession: a connection that no entry has named gets the next entry.
LEMMA ConnectBackControl ==
  ASSUME ControlInv, ConnectBack PROVE ControlInv'
<1> USE SessionAssumption DEF ControlInv
<1> DEFINE c == server.conn
<1>1. /\ c \in Conns /\ status[c] = "connecting" /\ ClientNum < MaxClients
      /\ ClientNum \in Entries /\ ClientNum + 1 \in 0 .. MaxClients
  BY SessionAssumption DEF ConnectBack, ControlType, ServerInv, Entries
<1>2. /\ status' = [status EXCEPT ![c] = "open"]
      /\ Session' = [Session EXCEPT ![ClientNum] = c]
      /\ ClientNum' = ClientNum + 1
      /\ server' = ServerAt("scan")
      /\ UNCHANGED <<transfer, process, misused>>
  BY DEF ConnectBack, history
<1>3. /\ \A d \in Conns : status'[d] = IF d = c THEN "open" ELSE status[d]
      /\ \A k \in Entries : Session'[k] = IF k = ClientNum THEN c ELSE Session[k]
  BY <1>1, <1>2 DEF ControlType
<1>4. ControlType'
  <2>1. initQueue \in Ring
    BY QueueAssumption DEF initQueue, Indices, Ring
  <2>2. queue' \in [Conns -> Ring]
    BY <2>1 DEF ConnectBack, ControlType
  <2>3. Session' \in [Entries -> Conns \cup {NULL}]
    BY <1>1, <1>2 DEF ControlType
  <2>4. server' \in [pc : {"accept", "connect", "scan", "receive", "delay"},
                     i : 0 .. MaxClients, conn : Conns \cup {NULL}]
    BY <1>2, SessionAssumption DEF ServerAt
  <2> QED
    BY <1>1, <1>2, <2>2, <2>3, <2>4 DEF ConnectBack, ControlType
<1>5. \A k \in Entries : Session[k] # NULL => Session[k] \in Conns /\ Session[k] # c
  BY <1>1, SMTT(20) DEF ControlType, TableInv
<1>6. \A k \in 0 .. ClientNum - 1 : k \in Entries /\ k # ClientNum /\ Session[k] \in Conns
  BY <1>1 DEF ControlType, TableInv, Entries
<1>7. TableInv'
  <2>1. ASSUME NEW k \in 0 .. ClientNum' - 1
        PROVE  Session'[k] \in Conns /\ status'[Session'[k]] = "open"
    <3>1. CASE k = ClientNum
      BY <1>1, <1>3, <3>1
    <3>2. CASE k # ClientNum
      <4>1. k \in 0 .. ClientNum - 1
        BY <1>2, <3>2 DEF ControlType
      <4> QED
        BY <1>3, <1>6, <4>1 DEF TableInv
    <3> QED
      BY <3>1, <3>2
  <2>2. ASSUME NEW j \in 0 .. ClientNum' - 1, NEW k \in 0 .. ClientNum' - 1, Session'[j] = Session'[k]
        PROVE  j = k
    <3>1. ASSUME NEW l \in 0 .. ClientNum' - 1, l # ClientNum
          PROVE  l \in 0 .. ClientNum - 1 /\ Session'[l] = Session[l] /\ Session[l] # c
      <4>1. l \in 0 .. ClientNum - 1
        BY <1>2, <3>1 DEF ControlType
      <4> QED
        BY <1>1, <1>3, <1>6, <4>1 DEF TableInv
    <3>2. Session'[ClientNum] = c
      BY <1>1, <1>3
    <3> QED
      BY <2>2, <3>1, <3>2 DEF TableInv
  <2>3. ASSUME NEW d \in Conns, status'[d] = "open"
        PROVE  \E k \in 0 .. ClientNum' - 1 : Session'[k] = d
    <3>1. CASE d = c
      BY <1>1, <1>2, <1>3, <3>1 DEF ControlType
    <3>2. CASE d # c
      <4>1. PICK k \in 0 .. ClientNum - 1 : Session[k] = d
        BY <1>3, <2>3, <3>2 DEF TableInv
      <4>2. k \in 0 .. ClientNum' - 1
        BY <1>2, <4>1 DEF ControlType
      <4> QED
        BY <1>3, <1>6, <4>1, <4>2
    <3> QED
      BY <3>1, <3>2
  <2>4. ASSUME NEW k \in Entries, Session'[k] # NULL
        PROVE  status'[Session'[k]] \in {"open", "deleted"}
    BY <1>1, <1>3, <1>5, <2>4 DEF TableInv
  <2> QED
    BY <2>1, <2>2, <2>3, <2>4 DEF TableInv, Entries
<1>8. ServerInv'
  BY <1>2 DEF ServerInv, ServerAt
<1>9. TransferInv'
  <2>1. \A k \in Entries : Session[k] # NULL => Session'[k] # NULL
    BY <1>1, <1>3, SessionAssumption
  <2>2. transfer.conn \in Conns /\ status[transfer.conn] \in {"open", "deleted"}
          => status'[transfer.conn] = status[transfer.conn]
    BY <1>1, <1>3
  <2> QED
    BY <1>2, <2>1, <2>2 DEF TransferInv
<1>10. ProcessInv'
  <2>1. \A k \in Entries : Session[k] # NULL => Session'[k] # NULL
    BY <1>1, <1>3, SessionAssumption
  <2>2. process.conn \in Conns /\ status[process.conn] \in {"open", "deleted"}
          => status'[process.conn] = status[process.conn]
    BY <1>1, <1>3
  <2> QED
    BY <1>2, <2>1, <2>2 DEF ProcessInv
<1> QED
  BY <1>4, <1>7, <1>8, <1>9, <1>10

\* Where entry j of the table without entry k was before.
LEMMA WithoutIs ==
  ASSUME ControlType, NEW k \in 0 .. ClientNum - 1, NEW j \in Entries
  PROVE  \E l \in Entries : /\ Without(k)[j] = Session[l]
                            /\ j < k => l = j
                            /\ j >= k /\ j < ClientNum - 1 => l = j + 1
                            /\ j >= ClientNum - 1 => l = j
<1>1. Without(k)[j] = IF j >= k /\ j < ClientNum - 1 THEN Session[j + 1] ELSE Session[j]
  BY DEF Without
<1>2. CASE j >= k /\ j < ClientNum - 1
  <2>1. j + 1 \in Entries
    BY <1>2, SessionAssumption DEF ControlType, Entries
  <2> QED
    BY <1>1, <1>2, <2>1 DEF ControlType, Entries
<1>3. CASE ~(j >= k /\ j < ClientNum - 1)
  BY <1>1, <1>3 DEF ControlType, Entries
<1> QED
  BY <1>2, <1>3

\* The session is taken out of the table as its connection is deleted; an
\* entry that a task stands on still names a connection.
LEMMA DisconnectControl ==
  ASSUME ControlInv, server.pc \in {"scan", "receive"}, server.i < ClientNum, Disconnect,
         inbox' \in [Conns -> Seq(Packets \cup {CLOSED})],
         lastErr' \in [Conns -> {"ok", "closed", "rst"}]
  PROVE  ControlInv'
<1> USE SessionAssumption DEF ControlInv
<1> DEFINE c == Session[server.i]
<1>1. /\ server.i \in 0 .. ClientNum - 1 /\ server.i \in Entries
      /\ c \in Conns /\ status[c] = "open"
      /\ ClientNum - 1 \in 0 .. MaxClients
  BY SessionAssumption DEF ControlType, TableInv, Entries
<1>2. /\ status' = [status EXCEPT ![c] = "deleted"]
      /\ queue' = [queue EXCEPT ![c] = Destroyed(@)]
      /\ Session' = Without(server.i)
      /\ ClientNum' = ClientNum - 1
      /\ server' = ServerNext
      /\ misused' \subseteq misused \cup {"connection", "queue"}
      /\ misused' = {} => /\ misused = {}
                          /\ ~(transfer.pc = "receive" /\ transfer.conn = c)
                          /\ ~InQueue(transfer, c) /\ ~InQueue(process, c)
      /\ UNCHANGED <<sent, transfer, process>>
  BY DEF Disconnect
<1>3. \A d \in Conns : status'[d] = IF d = c THEN "deleted" ELSE status[d]
  BY <1>1, <1>2 DEF ControlType
<1>4. \A j \in Entries : \E l \in Entries : /\ Session'[j] = Session[l]
                                            /\ j < server.i => l = j
                                            /\ j >= server.i /\ j < ClientNum - 1 => l = j + 1
                                            /\ j >= ClientNum - 1 => l = j
  <2> TAKE j \in Entries
  <2>1. \E l \in Entries : /\ Without(server.i)[j] = Session[l]
                           /\ j < server.i => l = j
                           /\ j >= server.i /\ j < ClientNum - 1 => l = j + 1
                           /\ j >= ClientNum - 1 => l = j
    BY <1>1, WithoutIs
  <2> QED
    BY <1>2, <2>1
<1>5. Session' \in [Entries -> Conns \cup {NULL}]
  <2>1. \A j \in Entries : Session'[j] \in Conns \cup {NULL}
    BY <1>4 DEF ControlType
  <2> QED
    BY <1>2, <2>1 DEF Without
<1>6. ControlType'
  <2>1. Destroyed(queue[c]) \in Ring
    <3>1. queue[c].pBase \in [Indices -> Blocks \cup {NULL}]
      BY <1>1 DEF ControlType, Ring
    <3>2. Destroyed(queue[c]).pBase \in [Indices -> Blocks \cup {NULL}]
      BY <3>1 DEF Destroyed
    <3> QED
      BY <3>2, QueueAssumption DEF Destroyed, Indices, Ring
  <2>2. queue' \in [Conns -> Ring]
    BY <1>1, <1>2, <2>1 DEF ControlType
  <2>3. server' \in [pc : {"accept", "connect", "scan", "receive", "delay"},
                     i : 0 .. MaxClients, conn : Conns \cup {NULL}]
    BY <1>1, <1>2 DEF ServerNext, ControlType
  <2>4. status' \in [Conns -> {"away", "pending", "connecting", "open", "abandoned", "deleted"}]
    BY <1>1, <1>2 DEF ControlType
  <2> QED
    BY <1>1, <1>2, <1>5, <2>2, <2>3, <2>4, SMTT(20) DEF ControlType
<1>7. \A j \in 0 .. ClientNum' - 1 : \E l \in 0 .. ClientNum - 1 :
        Session'[j] = Session[l] /\ l # server.i /\ l = IF j < server.i THEN j ELSE j + 1
  <2> TAKE j \in 0 .. ClientNum' - 1
  <2>1. j \in Entries /\ j < ClientNum - 1
    BY <1>1, <1>2, SMTT(20) DEF ControlType, Entries
  <2>2. PICK l \in Entries : /\ Session'[j] = Session[l]
                             /\ j < server.i => l = j
                             /\ j >= server.i /\ j < ClientNum - 1 => l = j + 1
    BY <1>4, <2>1
  <2>3. l \in 0 .. ClientNum - 1 /\ l # server.i /\ l = IF j < server.i THEN j ELSE j + 1
    BY <1>1, <2>1, <2>2, SMTT(20) DEF ControlType, Entries
  <2> QED
    BY <2>2, <2>3
<1>8. TableInv'
  <2>1. ASSUME NEW j \in 0 .. ClientNum' - 1
        PROVE  Session'[j] \in Conns /\ status'[Session'[j]] = "open"
    <3>1. PICK l \in 0 .. ClientNum - 1 : Session'[j] = Session[l] /\ l # server.i
      BY <1>7
    <3>2. Session[l] # c
      BY <1>1, <3>1 DEF TableInv
    <3> QED
      BY <1>3, <3>1, <3>2 DEF TableInv
  <2>2. ASSUME NEW j \in 0 .. ClientNum' - 1, NEW k \in 0 .. ClientNum' - 1, Session'[j] = Session'[k]
        PROVE  j = k
    <3>1. PICK l \in 0 .. ClientNum - 1 : Session'[j] = Session[l] /\ l = IF j < server.i THEN j ELSE j + 1
      BY <1>7
    <3>2. PICK m \in 0 .. ClientNum - 1 : Session'[k] = Session[m] /\ m = IF k < server.i THEN k ELSE k + 1
      BY <1>7
    <3>3. Session[l] = Session[m]
      BY <2>2, <3>1, <3>2
    <3>4. l = m
      BY <3>3 DEF TableInv
    <3> QED
      BY <1>1, <3>1, <3>2, <3>4 DEF ControlType
  <2>3. ASSUME NEW d \in Conns, status'[d] = "open"
        PROVE  \E j \in 0 .. ClientNum' - 1 : Session'[j] = d
    <3>1. d # c /\ status[d] = "open"
      BY <1>3, <2>3
    <3>2. PICK l \in 0 .. ClientNum - 1 : Session[l] = d
      BY <3>1 DEF TableInv
    <3> DEFINE j == IF l < server.i THEN l ELSE l - 1
    <3>3. l # server.i
      BY <3>1, <3>2
    <3>4. j \in 0 .. ClientNum' - 1 /\ l = IF j < server.i THEN j ELSE j + 1
      BY <1>1, <1>2, <3>2, <3>3, SMTT(20) DEF ControlType
    <3>5. Session'[j] = Session[l]
      BY <1>7, <3>4
    <3> QED
      BY <3>2, <3>4, <3>5
  <2>4. ASSUME NEW j \in Entries, Session'[j] # NULL
        PROVE  status'[Session'[j]] \in {"open", "deleted"}
    <3>1. PICK l \in Entries : Session'[j] = Session[l]
      BY <1>4, <2>4
    <3>2. Session[l] \in Conns /\ status[Session[l]] \in {"open", "deleted"}
      BY <2>4, <3>1 DEF ControlType, TableInv
    <3> QED
      BY <1>3, <3>1, <3>2
  <2> QED
    BY <2>1, <2>2, <2>3, <2>4 DEF TableInv, Entries
<1>9. ServerInv'
  BY <1>2 DEF ServerInv, ServerNext
<1>10. \A k \in Entries : Session[k] # NULL => Session'[k] # NULL
  <2> SUFFICES ASSUME NEW k \in Entries, Session[k] # NULL PROVE Session'[k] # NULL
    OBVIOUS
  <2>1. PICK l \in Entries : /\ Session'[k] = Session[l]
                             /\ l = k \/ (l = k + 1 /\ k < ClientNum - 1)
    <3>1. k < server.i \/ (k >= server.i /\ k < ClientNum - 1) \/ k >= ClientNum - 1
      BY <1>1 DEF ControlType, Entries
    <3> QED
      BY <1>4, <3>1
  <2>2. CASE l = k + 1 /\ k < ClientNum - 1
    <3>1. l \in 0 .. ClientNum - 1
      BY <2>2 DEF ControlType, Entries
    <3> QED
      BY <2>1, <3>1, SessionAssumption DEF TableInv
  <2> QED
    BY <2>1, <2>2
<1>11. TransferInv'
  <2>1. transfer.conn \in Conns /\ status[transfer.conn] \in {"open", "deleted"}
          => status'[transfer.conn] \in {"open", "deleted"}
    BY <1>3
  <2>2. misused' = {} /\ transfer.pc \in {"receive", "store", "copy", "push"} /\ transfer.conn \in Conns
          => misused = {} /\ status'[transfer.conn] = status[transfer.conn]
    BY <1>2, <1>3 DEF InQueue
  <2> QED
    BY <1>2, <1>10, <2>1, <2>2 DEF TransferInv
<1>12. ProcessInv'
  <2>1. process.conn \in Conns /\ status[process.conn] \in {"open", "deleted"}
          => status'[process.conn] \in {"open", "deleted"}
    BY <1>3
  <2>2. misused' = {} /\ process.pc \in {"free", "pop"} /\ process.conn \in Conns
          => misused = {} /\ status'[process.conn] = status[process.conn]
    BY <1>2, <1>3 DEF InQueue
  <2> QED
    BY <1>2, <1>10, <2>1, <2>2 DEF ProcessInv
<1> QED
  BY <1>6, <1>8, <1>9, <1>11, <1>12

LEMMA ServerControl ==
  ASSUME ControlInv, ServerStep PROVE ControlInv'
<1>1. ASSUME NEW c \in Conns, Accept(c) PROVE ControlInv'
  BY <1>1, AcceptControl
<1>2. CASE AcceptNothing \/ ScanEnds \/ ScanTimeout \/ ServerWakes
  BY <1>2, QuietServerControl
<1>3. CASE ConnectBack
  BY <1>3, ConnectBackControl
<1>4. CASE ConnectBackFails
  BY <1>4, ConnectBackFailsControl
<1>5. CASE Scan
  <2>1. CASE UNCHANGED <<net, table, queue, history>>
    BY <1>5, <2>1, QuietServerControl
  <2>2. CASE Disconnect /\ UNCHANGED <<inbox, lastErr>>
    BY <1>5, <2>2, DisconnectControl, SMTT(20)
    DEF Scan, ScanOver, ControlInv, ControlType
  <2> QED
    BY <1>5, <2>1, <2>2 DEF Scan
<1>6. CASE ScanReceives
  <2> DEFINE c == Session[server.i]
  <2>1. CASE UNCHANGED <<status, lastErr, sent, table, queue, history>>
    BY <1>6, <2>1, QuietServerControl
  <2>2. CASE Disconnect /\ Closes(c)
    <3>1. server.pc = "receive" /\ server.i < ClientNum /\ c \in Conns /\ inbox[c] # <<>>
      BY <1>6 DEF ScanReceives, ControlInv, ServerInv, TableInv, ControlType
    <3>2. Tail(inbox[c]) \in Seq(Packets \cup {CLOSED})
      BY <3>1, HeadTailProperties DEF ControlInv, ControlType
    <3>3. inbox' \in [Conns -> Seq(Packets \cup {CLOSED})]
      BY <1>6, <3>1, <3>2 DEF ScanReceives, Taken, ControlInv, ControlType
    <3>4. lastErr' \in [Conns -> {"ok", "closed", "rst"}]
      BY <2>2, <3>1 DEF Closes, ControlInv, ControlType
    <3> QED
      BY <2>2, <3>1, <3>3, <3>4, DisconnectControl
  <2> QED
    BY <1>6, <2>1, <2>2 DEF ScanReceives
<1> QED
  BY <1>1, <1>2, <1>3, <1>4, <1>5, <1>6 DEF ServerStep

-----------------------------------------------------------------------------
(* The two tasks that receive and carry out packets.                       *)

TransferType ==
  [pc : {"delay", "loop", "call", "receive", "enter", "store", "copy", "push", "release"},
   i : 0 .. MaxClients, conn : Conns \cup {NULL},
   packet : Packets \cup {Blank}, buffer : Blocks \cup {NULL}]

ProcessType ==
  [pc : {"delay", "loop", "take", "free", "pop", "execute"},
   i : 0 .. MaxClients, conn : Conns \cup {NULL}]

\* What a step of one of them leaves to be shown.
LEMMA TaskControl ==
  ASSUME ControlInv, UNCHANGED <<status, sent, table, server>>,
         inbox' \in [Conns -> Seq(Packets \cup {CLOSED})],
         lastErr' \in [Conns -> {"ok", "closed", "rst"}],
         queue' \in [Conns -> Ring],
         misused' \subseteq {"connection", "queue"},
         transfer' \in TransferType, process' \in ProcessType,
         TransferInv', ProcessInv'
  PROVE  ControlInv'
<1>1. TableInv'
  BY TableKept
<1> QED
  BY <1>1 DEF ControlInv, ControlType, ServerInv, TransferType, ProcessType, Ring, table

\* Without a session in hand, or with the one it was at.
LEMMA TransferStays ==
  ASSUME ControlInv, UNCHANGED <<status, table, misused>>,
         \/ transfer' = TransferNext /\ transfer.pc \notin {"delay", "loop"}
         \/ transfer' = TransferFrom("delay", 0)
         \/ transfer.pc = "delay" /\ transfer' = TransferAt("loop")
         \/ transfer.pc = "loop" /\ transfer.i < ClientNum /\ transfer' = TransferAt("call")
         \/ /\ transfer.pc \in {"store", "copy", "push"}
            /\ \E pc \in {"copy", "push", "release"} : transfer' = TransferAt(pc)
  PROVE  transfer' \in TransferType /\ TransferInv'
<1> USE SessionAssumption DEF ControlInv, ControlType, TransferType, Blank, table
<1>1. CASE transfer' = TransferNext /\ transfer.pc \notin {"delay", "loop"}
  <2>1. transfer.i + 1 \in 0 .. MaxClients
    BY <1>1 DEF TransferInv, Entries
  <2> QED
    BY <1>1, <2>1 DEF TransferNext, TransferFrom, TransferInv
<1>2. CASE transfer' = TransferFrom("delay", 0)
  BY <1>2 DEF TransferFrom, TransferInv
<1>3. CASE transfer.pc = "delay" /\ transfer' = TransferAt("loop")
  BY <1>3 DEF TransferAt, TransferInv
<1>4. CASE transfer.pc = "loop" /\ transfer.i < ClientNum /\ transfer' = TransferAt("call")
  <2>1. transfer.i \in Entries /\ transfer.i \in 0 .. ClientNum - 1
    BY <1>4 DEF Entries
  <2>2. Session[transfer.i] # NULL
    BY <2>1 DEF TableInv
  <2> QED
    BY <1>4, <2>1, <2>2 DEF TransferAt, TransferInv
<1>5. CASE /\ transfer.pc \in {"store", "copy", "push"}
           /\ \E pc \in {"copy", "push", "release"} : transfer' = TransferAt(pc)
  <2>1. PICK pc \in {"copy", "push", "release"} : transfer' = [transfer EXCEPT !.pc = pc]
    BY <1>5 DEF TransferAt
  <2>2. /\ transfer' \in TransferType /\ transfer'.pc = pc
        /\ transfer'.i = transfer.i /\ transfer'.conn = transfer.conn /\ transfer'.packet = transfer.packet
    BY <2>1
  <2> QED
    BY <1>5, <2>2 DEF TransferInv
<1> QED
  BY <1>1, <1>2, <1>3, <1>4, <1>5

LEMMA ProcessKept ==
  ASSUME ControlInv, UNCHANGED <<status, table, process>>, misused \subseteq misused'
  PROVE  process' \in ProcessType /\ ProcessInv'
  BY DEF ControlInv, ControlType, ProcessType, ProcessInv, table

LEMMA TransferKept ==
  ASSUME ControlInv, UNCHANGED <<status, table, transfer, misused>>
  PROVE  transfer' \in TransferType /\ TransferInv'
  BY DEF ControlInv, ControlType, TransferType, TransferInv, table

LEMMA RingKept ==
  ASSUME ControlInv, UNCHANGED queue PROVE queue' \in [Conns -> Ring]
  BY DEF ControlInv, ControlType, Ring

\* The head and the rest of a mailbox.
LEMMA InboxTaken ==
  ASSUME ControlInv, NEW c \in Conns, inbox[c] # <<>>
  PROVE  /\ Head(inbox[c]) \in Packets \cup {CLOSED}
         /\ Taken(c) => inbox' \in [Conns -> Seq(Packets \cup {CLOSED})]
<1>1. inbox \in [Conns -> Seq(Packets \cup {CLOSED})]
  BY DEF ControlInv, ControlType
<1>2. /\ Head(inbox[c]) \in Packets \cup {CLOSED}
      /\ Tail(inbox[c]) \in Seq(Packets \cup {CLOSED})
  BY <1>1, HeadTailProperties
<1>3. Taken(c) => inbox' = [inbox EXCEPT ![c] = Tail(inbox[c])]
  BY DEF Taken
<1> QED
  BY <1>1, <1>2, <1>3

LEMMA TransferQuietControl ==
  ASSUME ControlInv,
         \/ TransferWakes \/ TransferLoop \/ TransferTimeout \/ TransferFindsQueueFull
         \/ TransferCopies \/ TransferReleases
  PROVE  ControlInv'
<1>1. UNCHANGED <<net, table, queue, server, process, misused>>
  BY DEF TransferWakes, TransferLoop, TransferTimeout, TransferFindsQueueFull, TransferCopies,
     TransferReleases, history
<1>2. transfer' \in TransferType /\ TransferInv'
  <2>1. \/ transfer' = TransferNext /\ transfer.pc \notin {"delay", "loop"}
        \/ transfer' = TransferFrom("delay", 0)
        \/ transfer.pc = "delay" /\ transfer' = TransferAt("loop")
        \/ transfer.pc = "loop" /\ transfer.i < ClientNum /\ transfer' = TransferAt("call")
        \/ /\ transfer.pc \in {"store", "copy", "push"}
           /\ \E pc \in {"copy", "push", "release"} : transfer' = TransferAt(pc)
    BY DEF TransferWakes, TransferLoop, TransferTimeout, TransferFindsQueueFull, TransferCopies,
       TransferReleases
  <2> QED
    BY <1>1, <2>1, TransferStays DEF net
<1>3. inbox' \in [Conns -> Seq(Packets \cup {CLOSED})] /\ lastErr' \in [Conns -> {"ok", "closed", "rst"}]
      /\ misused' \subseteq {"connection", "queue"}
  BY <1>1 DEF ControlInv, ControlType, net
<1>4. process' \in ProcessType /\ ProcessInv'
  BY <1>1, ProcessKept DEF net
<1> QED
  BY <1>1, <1>2, <1>3, <1>4, RingKept, TaskControl DEF net

LEMMA TransferCallsControl ==
  ASSUME ControlInv, TransferCalls PROVE ControlInv'
<1> DEFINE c == Session[transfer.i]
<1>1. /\ transfer.pc = "call" /\ transfer.i \in Entries
      /\ c \in Conns /\ status[c] \in {"open", "deleted"}
      /\ UNCHANGED <<net, table, queue, server, process>>
      /\ misused' = misused \cup IF status[c] = "deleted" THEN {"connection"} ELSE {}
  BY DEF TransferCalls, ControlInv, ControlType, TransferInv, TableInv
<1>2. transfer' \in TransferType /\ TransferInv'
  <2>1. CASE transfer' = TransferNext
    <3>1. transfer.i + 1 \in 0 .. MaxClients
      BY <1>1, SessionAssumption DEF Entries
    <3> QED
      BY <2>1, <3>1 DEF TransferNext, TransferFrom, TransferInv, TransferType, Blank
  <2>2. CASE transfer' = [TransferFrom("receive", transfer.i) EXCEPT !.conn = c]
    <3>1. transfer' = [pc |-> "receive", i |-> transfer.i, conn |-> c, packet |-> Blank, buffer |-> NULL]
      BY <2>2 DEF TransferFrom
    <3>2. transfer.i \in 0 .. MaxClients
      BY DEF ControlInv, ControlType
    <3>3. misused' = {} => status[c] = "open"
      BY <1>1
    <3> QED
      BY <1>1, <3>1, <3>2, <3>3 DEF TransferInv, TransferType, Blank, net, table, ControlInv
  <2> QED
    BY <2>1, <2>2 DEF TransferCalls
<1>3. inbox' \in [Conns -> Seq(Packets \cup {CLOSED})] /\ lastErr' \in [Conns -> {"ok", "closed", "rst"}]
      /\ misused' \subseteq {"connection", "queue"}
  BY <1>1 DEF ControlInv, ControlType, net
<1>4. process' \in ProcessType /\ ProcessInv'
  BY <1>1, ProcessKept DEF net
<1> QED
  BY <1>1, <1>2, <1>3, <1>4, RingKept, TaskControl DEF net

LEMMA TransferReceivesControl ==
  ASSUME ControlInv, NEW b \in Blocks \cup {NULL}, TransferReceives(b) PROVE ControlInv'
<1> DEFINE c == transfer.conn
<1>1. /\ transfer.pc = "receive" /\ c \in Conns /\ inbox[c] # <<>>
      /\ UNCHANGED <<status, lastErr, sent, table, queue, server, process, misused>>
      /\ transfer' = [pc |-> "enter", i |-> transfer.i, conn |-> c, packet |-> Head(inbox[c]), buffer |-> b]
      /\ Taken(c) /\ Head(inbox[c]) # CLOSED
  BY DEF TransferReceives, ControlInv, TransferInv, history
<1>2. Head(inbox[c]) \in Packets /\ inbox' \in [Conns -> Seq(Packets \cup {CLOSED})]
  BY <1>1, InboxTaken
<1>3. transfer' \in TransferType /\ TransferInv'
  BY <1>1, <1>2 DEF ControlInv, ControlType, TransferType, TransferInv, table
<1>4. process' \in ProcessType /\ ProcessInv'
  BY <1>1, ProcessKept
<1>5. lastErr' \in [Conns -> {"ok", "closed", "rst"}] /\ misused' \subseteq {"connection", "queue"}
  BY <1>1 DEF ControlInv, ControlType
<1> QED
  BY <1>1, <1>2, <1>3, <1>4, <1>5, RingKept, TaskControl

LEMMA TransferLearnsControl ==
  ASSUME ControlInv, TransferLearnsOfClose PROVE ControlInv'
<1> DEFINE c == transfer.conn
<1>1. /\ transfer.pc = "receive" /\ c \in Conns /\ inbox[c] # <<>>
      /\ UNCHANGED <<status, sent, table, queue, server, process, misused>>
      /\ transfer' = TransferNext
      /\ Taken(c) /\ Closes(c)
  BY DEF TransferLearnsOfClose, ControlInv, TransferInv, history
<1>2. inbox' \in [Conns -> Seq(Packets \cup {CLOSED})]
  BY <1>1, InboxTaken
<1>3. lastErr' \in [Conns -> {"ok", "closed", "rst"}] /\ misused' \subseteq {"connection", "queue"}
  BY <1>1 DEF ControlInv, ControlType, Closes
<1>4. transfer' \in TransferType /\ TransferInv'
  BY <1>1, TransferStays
<1>5. process' \in ProcessType /\ ProcessInv'
  BY <1>1, ProcessKept
<1> QED
  BY <1>1, <1>2, <1>3, <1>4, <1>5, RingKept, TaskControl

LEMMA TransferEntersControl ==
  ASSUME ControlInv, TransferEnters PROVE ControlInv'
<1> DEFINE c == Session[transfer.i]
<1>1. /\ transfer.pc = "enter" /\ transfer.i \in Entries
      /\ c \in Conns /\ status[c] \in {"open", "deleted"}
      /\ UNCHANGED <<net, table, queue, server, process>>
      /\ transfer' = [pc |-> "store", i |-> transfer.i, conn |-> c,
                      packet |-> transfer.packet, buffer |-> transfer.buffer]
      /\ misused' = misused \cup IF status[c] = "deleted" THEN {"queue"} ELSE {}
  BY DEF TransferEnters, ControlInv, ControlType, TransferInv, TableInv
<1>2. transfer' \in TransferType /\ TransferInv'
  <2>1. misused' = {} => status[c] = "open"
    BY <1>1
  <2> QED
    BY <1>1, <2>1 DEF ControlInv, ControlType, TransferInv, TransferType, net, table
<1>3. inbox' \in [Conns -> Seq(Packets \cup {CLOSED})] /\ lastErr' \in [Conns -> {"ok", "closed", "rst"}]
      /\ misused' \subseteq {"connection", "queue"}
  BY <1>1 DEF ControlInv, ControlType, net
<1>4. process' \in ProcessType /\ ProcessInv'
  BY <1>1, ProcessKept DEF net
<1> QED
  BY <1>1, <1>2, <1>3, <1>4, RingKept, TaskControl DEF net

\* enQueue and deQueue change one queue.
LEMMA RingSet ==
  ASSUME ControlInv, NEW c \in Conns, NEW b \in Blocks \cup {NULL},
         \/ queue' = [queue EXCEPT ![c] = Stored(@, b)]
         \/ queue' = [queue EXCEPT ![c] = Pushed(@)]
         \/ queue' = [queue EXCEPT ![c] = Popped(@)]
  PROVE  queue' \in [Conns -> Ring]
<1>1. queue \in [Conns -> Ring]
  BY DEF ControlInv, ControlType, Ring
<1>2. \A k \in Indices : Following(k) \in Indices
  BY QueueAssumption DEF Following, Indices
<1>3. Stored(queue[c], b) \in Ring
  <2> DEFINE q == queue[c]
  <2>1. q \in Ring
    BY <1>1
  <2>2. Stored(q, b) = [q EXCEPT !.pBase = [q.pBase EXCEPT ![q.rear] = b]]
    BY DEF Stored
  <2>3. [q.pBase EXCEPT ![q.rear] = b] \in [Indices -> Blocks \cup {NULL}]
    BY <2>1 DEF Ring
  <2> QED
    BY <2>1, <2>2, <2>3 DEF Ring
<1>4. Pushed(queue[c]) \in Ring /\ Popped(queue[c]) \in Ring
  BY <1>1, <1>2 DEF Ring, Pushed, Popped
<1> QED
  BY <1>1, <1>3, <1>4

LEMMA TransferQueuesControl ==
  ASSUME ControlInv, NEW b \in Blocks \cup {NULL}, TransferStores(b) \/ TransferPushes
  PROVE  ControlInv'
<1>1. UNCHANGED <<net, table, server, process, misused>>
  BY DEF TransferStores, TransferPushes, history
<1>2. transfer' \in TransferType /\ TransferInv'
  <2>1. /\ transfer.pc \in {"store", "copy", "push"}
        /\ \E pc \in {"copy", "push", "release"} : transfer' = TransferAt(pc)
    BY DEF TransferStores, TransferPushes
  <2> QED
    BY <1>1, <2>1, TransferStays DEF net
<1>3. inbox' \in [Conns -> Seq(Packets \cup {CLOSED})] /\ lastErr' \in [Conns -> {"ok", "closed", "rst"}]
      /\ misused' \subseteq {"connection", "queue"}
  BY <1>1 DEF ControlInv, ControlType, net
<1>4. process' \in ProcessType /\ ProcessInv'
  BY <1>1, ProcessKept DEF net
<1>5. queue' \in [Conns -> Ring]
  <2>1. transfer.conn \in Conns
    BY DEF TransferStores, TransferPushes, ControlInv, TransferInv
  <2> QED
    BY <2>1, RingSet DEF TransferStores, TransferPushes
<1> QED
  BY <1>1, <1>2, <1>3, <1>4, <1>5, TaskControl DEF net

LEMMA TransferControl ==
  ASSUME ControlInv, TransferStep PROVE ControlInv'
<1>1. ASSUME NEW b \in Blocks \cup {NULL}, TransferReceives(b) \/ TransferStores(b) PROVE ControlInv'
  BY <1>1, TransferReceivesControl, TransferQueuesControl
<1>2. CASE TransferPushes
  BY <1>2, TransferQueuesControl
<1> QED
  BY <1>1, <1>2, TransferQuietControl, TransferCallsControl, TransferLearnsControl, TransferEntersControl
  DEF TransferStep

LEMMA ProcessStays ==
  ASSUME ControlInv, UNCHANGED <<status, table, misused>>,
         \/ process' = ProcessNext /\ process.pc = "execute"
         \/ /\ process.pc = "loop" /\ process.i < ClientNum
            /\ process' = ProcessNext \/ process' = ProcessAt("take")
         \/ process' = [pc |-> "delay", i |-> 0, conn |-> NULL]
         \/ process.pc = "delay" /\ process' = ProcessAt("loop")
         \/ process.pc \in {"take", "pop"} /\ process' = ProcessAt("execute")
         \/ process.pc = "free" /\ process' = ProcessAt("pop")
  PROVE  process' \in ProcessType /\ ProcessInv'
<1> USE SessionAssumption DEF ControlInv, ControlType, ProcessType, table
<1>1. CASE process' = ProcessNext /\ process.pc = "execute"
  <2>1. process.i + 1 \in 0 .. MaxClients
    BY <1>1 DEF ProcessInv, Entries
  <2> QED
    BY <1>1, <2>1 DEF ProcessNext, ProcessInv
<1>2. CASE /\ process.pc = "loop" /\ process.i < ClientNum
           /\ process' = ProcessNext \/ process' = ProcessAt("take")
  <2>1. process.i \in Entries /\ process.i \in 0 .. ClientNum - 1 /\ process.i + 1 \in 0 .. MaxClients
    BY <1>2 DEF Entries
  <2>2. Session[process.i] # NULL
    BY <2>1 DEF TableInv
  <2>3. CASE process' = ProcessNext
    BY <2>1, <2>3 DEF ProcessNext, ProcessInv
  <2>4. CASE process' = ProcessAt("take")
    BY <2>1, <2>2, <2>4 DEF ProcessAt, ProcessInv
  <2> QED
    BY <1>2, <2>3, <2>4
<1>3. CASE process' = [pc |-> "delay", i |-> 0, conn |-> NULL]
  BY <1>3 DEF ProcessInv
<1>4. CASE process.pc = "delay" /\ process' = ProcessAt("loop")
  BY <1>4 DEF ProcessAt, ProcessInv
<1>5. CASE process.pc \in {"take", "pop"} /\ process' = ProcessAt("execute")
  BY <1>5 DEF ProcessAt, ProcessInv
<1>6. CASE process.pc = "free" /\ process' = ProcessAt("pop")
  BY <1>6 DEF ProcessAt, ProcessInv
<1> QED
  BY <1>1, <1>2, <1>3, <1>4, <1>5, <1>6

\* A queue in use by no open connection is empty: deQueue takes a packet of
\* an open one.
LEMMA ProcessControl ==
  ASSUME ControlInv, ProcessStep,
         \A c \in Conns : status[c] # "open" => queue[c].front = queue[c].rear
  PROVE  ControlInv'
<1>1. UNCHANGED <<net, table, server, transfer, misused>>
  BY DEF ProcessStep, ProcessWakes, ProcessLoop, ProcessTakes, ProcessTakesNothing, ProcessFrees,
     ProcessPops, ProcessExecutes, history
<1>2. process' \in ProcessType /\ ProcessInv'
  <2>1. CASE ProcessTakes
    <3> DEFINE c == Session[process.i]
    <3>1. /\ process.i \in Entries /\ c \in Conns /\ c # NULL
          /\ process' = [pc |-> "free", i |-> process.i, conn |-> c]
          /\ ~isEmpityQueue(queue[c])
      BY <2>1, SessionAssumption DEF ProcessTakes, ControlInv, ControlType, ProcessInv
    <3>2. status[c] = "open"
      BY <3>1 DEF isEmpityQueue
    <3> QED
      BY <1>1, <3>1, <3>2 DEF ControlInv, ControlType, ProcessInv, ProcessType, net, table
  <2>2. CASE ProcessLoop
    BY <1>1, <2>2, ProcessStays DEF ProcessLoop, ControlInv, ControlType, net
  <2>3. CASE ~ProcessTakes /\ ~ProcessLoop
    <3>1. \/ process' = ProcessNext /\ process.pc = "execute"
          \/ process.pc = "delay" /\ process' = ProcessAt("loop")
          \/ process.pc \in {"take", "pop"} /\ process' = ProcessAt("execute")
          \/ process.pc = "free" /\ process' = ProcessAt("pop")
      BY <2>3 DEF ProcessStep, ProcessWakes, ProcessTakesNothing, ProcessFrees, ProcessPops,
         ProcessExecutes
    <3> QED
      BY <1>1, <3>1, ProcessStays DEF net
  <2> QED
    BY <2>1, <2>2, <2>3
<1>3. inbox' \in [Conns -> Seq(Packets \cup {CLOSED})] /\ lastErr' \in [Conns -> {"ok", "closed", "rst"}]
      /\ misused' \subseteq {"connection", "queue"}
  BY <1>1 DEF ControlInv, ControlType, net
<1>4. transfer' \in TransferType /\ TransferInv'
  BY <1>1, TransferKept DEF net
<1>5. queue' \in [Conns -> Ring]
  <2>1. CASE ProcessPops
    <3>1. process.conn \in Conns /\ queue' = [queue EXCEPT ![process.conn] = Popped(@)]
      BY <2>1 DEF ProcessPops, ControlInv, ProcessInv
    <3> QED
      BY <3>1, RingSet, SessionAssumption
  <2>2. CASE UNCHANGED queue
    BY <2>2, RingKept
  <2> QED
    BY <2>1, <2>2 DEF ProcessStep, ProcessWakes, ProcessLoop, ProcessTakes, ProcessTakesNothing,
       ProcessFrees, ProcessExecutes
<1> QED
  BY <1>1, <1>2, <1>3, <1>4, <1>5, TaskControl DEF net

-----------------------------------------------------------------------------
(* Rings.                                                                  *)

\* Within a turn of the ring the modulus is a subtraction at most.
LEMMA ModIs ==
  ASSUME NEW n \in Nat \ {0}, NEW x \in Int, -n < x, x < 2 * n
  PROVE  x % n = IF x < 0 THEN x + n ELSE IF x < n THEN x ELSE x - n
<1> DEFINE d == x \div n
           r == x % n
<1>1. d \in Int /\ r \in 0 .. n - 1
  OBVIOUS
<1>2. x = n * d + r
  OBVIOUS
<1>3. CASE d <= -2
  BY <1>1, <1>2, <1>3
<1>4. CASE d = -1
  BY <1>1, <1>2, <1>4
<1>5. CASE d = 0
  BY <1>1, <1>2, <1>5
<1>6. CASE d = 1
  BY <1>1, <1>2, <1>6
<1>7. CASE d >= 2
  BY <1>1, <1>2, <1>7
<1> QED
  BY <1>1, <1>3, <1>4, <1>5, <1>6, <1>7

LEMMA FollowingIs ==
  ASSUME NEW k \in Indices
  PROVE  /\ Following(k) \in Indices
         /\ Following(k) = IF k + 1 < MaxPointNumInQueue THEN k + 1 ELSE 0
<1> DEFINE x == k + 1
<1>1. /\ MaxPointNumInQueue \in Nat \ {0} /\ x \in Int
      /\ -MaxPointNumInQueue < x /\ x < 2 * MaxPointNumInQueue /\ ~(x < 0)
  BY QueueAssumption DEF Indices
<1>2. x % MaxPointNumInQueue = IF x < MaxPointNumInQueue THEN x ELSE x - MaxPointNumInQueue
  <2> HIDE DEF x
  <2>1. x % MaxPointNumInQueue
          = IF x < 0 THEN x + MaxPointNumInQueue
            ELSE IF x < MaxPointNumInQueue THEN x ELSE x - MaxPointNumInQueue
    BY <1>1, ModIs
  <2> QED
    BY <1>1, <2>1
<1> QED
  BY <1>2, QueueAssumption DEF Indices, Following

LEMMA LengthIs ==
  ASSUME NEW q \in Ring
  PROVE  /\ Length(q) = LengthOf(q) /\ LengthOf(q) \in 0 .. MaxPointNumInQueue - 1
         /\ isEmpityQueue(q) <=> LengthOf(q) = 0
         /\ isFullQueue(q) <=> LengthOf(q) = MaxPointNumInQueue - 1
<1>1. q.front \in Indices /\ q.rear \in Indices
  BY DEF Ring
<1>2. Length(q) = LengthOf(q)
  <2>1. (q.rear - q.front) % MaxPointNumInQueue
          = IF q.rear - q.front < 0 THEN q.rear - q.front + MaxPointNumInQueue ELSE q.rear - q.front
    <3> DEFINE x == q.rear - q.front
    <3>1. /\ MaxPointNumInQueue \in Nat \ {0} /\ x \in Int
          /\ -MaxPointNumInQueue < x /\ x < 2 * MaxPointNumInQueue /\ x < MaxPointNumInQueue
      BY <1>1, QueueAssumption DEF Indices
    <3> HIDE DEF x
    <3>2. x % MaxPointNumInQueue = IF x < 0 THEN x + MaxPointNumInQueue ELSE x
      BY <3>1, ModIs
    <3> QED
      BY <3>2 DEF x
  <2> QED
    BY <1>1, <2>1, QueueAssumption DEF Indices, Length, LengthOf
<1>3. LengthOf(q) \in 0 .. MaxPointNumInQueue - 1
  BY <1>1, QueueAssumption DEF Indices, LengthOf
<1>4. isEmpityQueue(q) <=> LengthOf(q) = 0
  BY <1>1, QueueAssumption DEF Indices, LengthOf, isEmpityQueue
<1>5. isFullQueue(q) <=> LengthOf(q) = MaxPointNumInQueue - 1
  BY <1>1, QueueAssumption, FollowingIs DEF Indices, LengthOf, isFullQueue
<1> QED
  BY <1>2, <1>3, <1>4, <1>5

\* The pointers of a queue are at different places, none at the rear.
LEMMA SpotIs ==
  ASSUME NEW q \in Ring, NEW d \in 0 .. MaxPointNumInQueue - 1
  PROVE  /\ (q.front + d) % MaxPointNumInQueue = Spot(q, d)
         /\ Spot(q, d) \in Indices
         /\ d < LengthOf(q) => Spot(q, d) # q.rear
         /\ \A e \in 0 .. MaxPointNumInQueue - 1 : Spot(q, d) = Spot(q, e) => d = e
         /\ d = LengthOf(q) => Spot(q, d) = q.rear
         /\ Spot(q, 0) = q.front
<1>1. q.front \in Indices /\ q.rear \in Indices
  BY DEF Ring
<1>2. (q.front + d) % MaxPointNumInQueue = Spot(q, d)
  <2> DEFINE x == q.front + d
  <2>1. /\ MaxPointNumInQueue \in Nat \ {0} /\ x \in Int
        /\ -MaxPointNumInQueue < x /\ x < 2 * MaxPointNumInQueue /\ ~(x < 0)
        /\ Spot(q, d) = IF x < MaxPointNumInQueue THEN x ELSE x - MaxPointNumInQueue
    BY <1>1, QueueAssumption DEF Indices, Spot
  <2> SUFFICES x % MaxPointNumInQueue = Spot(q, d)
    OBVIOUS
  <2> HIDE DEF x
  <2>2. x % MaxPointNumInQueue
          = IF x < 0 THEN x + MaxPointNumInQueue
            ELSE IF x < MaxPointNumInQueue THEN x ELSE x - MaxPointNumInQueue
    BY <2>1, ModIs
  <2> QED
    BY <2>1, <2>2
<1> QED
  BY <1>1, <1>2, QueueAssumption DEF Indices, Spot, LengthOf

LEMMA ItemsAre ==
  ASSUME NEW q \in Ring
  PROVE  /\ Items(q) = [k \in 1 .. LengthOf(q) |-> q.pBase[Spot(q, k - 1)]]
         /\ Items(q) \in Seq(Blocks \cup {NULL})
         /\ Len(Items(q)) = LengthOf(q)
<1>1. LengthOf(q) \in 0 .. MaxPointNumInQueue - 1 /\ Length(q) = LengthOf(q)
  BY LengthIs
<1>2. \A k \in 1 .. LengthOf(q) : /\ (q.front + k - 1) % MaxPointNumInQueue = Spot(q, k - 1)
                                  /\ q.pBase[Spot(q, k - 1)] \in Blocks \cup {NULL}
  <2> TAKE k \in 1 .. LengthOf(q)
  <2>1. k - 1 \in 0 .. MaxPointNumInQueue - 1 /\ q.front + k - 1 = q.front + (k - 1)
    BY <1>1, QueueAssumption DEF Indices, Ring
  <2> QED
    BY <2>1, SpotIs DEF Ring
<1>3. Items(q) = [k \in 1 .. LengthOf(q) |-> q.pBase[Spot(q, k - 1)]]
  BY <1>1, <1>2 DEF Items
<1> QED
  BY <1>1, <1>2, <1>3

\* A pointer counted in, with room.
LEMMA PushedIs ==
  ASSUME NEW q \in Ring, LengthOf(q) < MaxPointNumInQueue - 1
  PROVE  /\ Pushed(q).pBase = q.pBase
         /\ LengthOf(Pushed(q)) = LengthOf(q) + 1
         /\ \A d \in 0 .. MaxPointNumInQueue - 1 : Spot(Pushed(q), d) = Spot(q, d)
<1>1. q.front \in Indices /\ q.rear \in Indices
  BY DEF Ring
<1>2. /\ Pushed(q).pBase = q.pBase /\ Pushed(q).front = q.front
      /\ Pushed(q).rear = IF q.rear + 1 < MaxPointNumInQueue THEN q.rear + 1 ELSE 0
  BY <1>1, FollowingIs DEF Pushed, Ring
<1> QED
  BY <1>1, <1>2, QueueAssumption DEF Indices, Spot, LengthOf

\* A pointer counted out.
LEMMA PoppedIs ==
  ASSUME NEW q \in Ring, LengthOf(q) > 0
  PROVE  /\ Popped(q).pBase = q.pBase
         /\ Popped(q).rear = q.rear
         /\ LengthOf(Popped(q)) = LengthOf(q) - 1
         /\ \A d \in 0 .. MaxPointNumInQueue - 2 : Spot(Popped(q), d) = Spot(q, d + 1)
<1>1. q.front \in Indices /\ q.rear \in Indices
  BY DEF Ring
<1>2. /\ Popped(q).pBase = q.pBase /\ Popped(q).rear = q.rear
      /\ Popped(q).front = IF q.front + 1 < MaxPointNumInQueue THEN q.front + 1 ELSE 0
  BY <1>1, FollowingIs DEF Popped, Ring
<1> QED
  BY <1>1, <1>2, QueueAssumption DEF Indices, Spot, LengthOf

\* A pointer stored at the rear is not yet in the queue.
LEMMA StoredIs ==
  ASSUME NEW q \in Ring, NEW b \in Blocks \cup {NULL}
  PROVE  /\ LengthOf(Stored(q, b)) = LengthOf(q)
         /\ Stored(q, b).front = q.front /\ Stored(q, b).rear = q.rear
         /\ Stored(q, b).pBase[q.rear] = b
         /\ \A d \in 0 .. MaxPointNumInQueue - 1 : Spot(Stored(q, b), d) = Spot(q, d)
         /\ \A k \in Indices \ {q.rear} : Stored(q, b).pBase[k] = q.pBase[k]
<1>1. Stored(q, b) = [q EXCEPT !.pBase = [q.pBase EXCEPT ![q.rear] = b]]
  BY DEF Stored
<1>2. /\ Stored(q, b).front = q.front /\ Stored(q, b).rear = q.rear
      /\ Stored(q, b).pBase = [q.pBase EXCEPT ![q.rear] = b]
  BY <1>1 DEF Ring
<1> QED
  BY <1>2 DEF Ring, LengthOf, Spot

-----------------------------------------------------------------------------
(* What the queues hold.                                                   *)

LEMMA CountIs ==
  ASSUME ControlInv, RingInv, NEW c \in Conns
  PROVE  /\ queue[c] \in Ring
         /\ Skip(c) \in {0, 1}
         /\ Count(c) \in 0 .. MaxPointNumInQueue - 1
         /\ LengthOf(queue[c]) = Count(c) + Skip(c)
         /\ LengthOf(queue[c]) \in 0 .. MaxPointNumInQueue - 1
<1>1. queue[c] \in Ring
  BY DEF ControlInv, ControlType
<1>2. LengthOf(queue[c]) \in 0 .. MaxPointNumInQueue - 1
  BY <1>1, LengthIs
<1>3. Skip(c) \in {0, 1} /\ (Skip(c) = 1 => LengthOf(queue[c]) > 0)
  BY DEF Skip, RingInv
<1> QED
  BY <1>1, <1>2, <1>3, QueueAssumption DEF Count

LEMMA HeldAt ==
  ASSUME ControlInv, RingInv, NEW c \in Conns, NEW k \in 1 .. Count(c)
  PROVE  /\ k - 1 + Skip(c) \in 0 .. LengthOf(queue[c]) - 1
         /\ k - 1 + Skip(c) \in 0 .. MaxPointNumInQueue - 1
         /\ Spot(queue[c], k - 1 + Skip(c)) \in Indices \ {queue[c].rear}
         /\ Held(c, k) \in Blocks \cup {NULL}
<1>1. k - 1 + Skip(c) \in 0 .. LengthOf(queue[c]) - 1
  BY CountIs
<1>2. k - 1 + Skip(c) \in 0 .. MaxPointNumInQueue - 1 /\ k - 1 + Skip(c) < LengthOf(queue[c])
  BY <1>1, CountIs, QueueAssumption
<1>3. queue[c] \in Ring
  BY CountIs
<1>4. Spot(queue[c], k - 1 + Skip(c)) \in Indices \ {queue[c].rear}
  BY <1>2, <1>3, SpotIs
<1> QED
  BY <1>1, <1>2, <1>3, <1>4 DEF Held, Ring

\* Nothing waits in a queue that no open connection uses.
LEMMA NotOpenIsEmpty ==
  ASSUME ControlInv, RingInv, NEW c \in Conns, queue[c].front = queue[c].rear
  PROVE  Count(c) = 0 /\ Skip(c) = 0 /\ LengthOf(queue[c]) = 0
<1>1. LengthOf(queue[c]) = 0
  BY DEF LengthOf, ControlInv, ControlType, Ring, Indices
<1> QED
  BY <1>1, CountIs

LEMMA HeldKept ==
  ASSUME \A c \in Conns : Count(c)' = Count(c),
         \A c \in Conns : \A k \in 1 .. Count(c) : Held(c, k)' = Held(c, k)
  PROVE  /\ HeldInv => HeldInv'
         /\ \A b \in Blocks : Queued(b)' <=> Queued(b)
         /\ MeantInv /\ UNCHANGED <<meant, carries>> => MeantInv'
<1>1. HeldInv => HeldInv'
  BY DEF HeldInv
<1>2. \A b \in Blocks : Queued(b)' <=> Queued(b)
  BY DEF Queued
<1>3. MeantInv /\ UNCHANGED <<meant, carries>> => MeantInv'
  BY DEF MeantInv
<1> QED
  BY <1>1, <1>2, <1>3

LEMMA SkipKept ==
  ASSUME UNCHANGED queue, \A c \in Conns : Skip(c)' = Skip(c)
  PROVE  /\ \A c \in Conns : Count(c)' = Count(c)
         /\ \A c \in Conns : \A k \in 1 .. Count(c) : Held(c, k)' = Held(c, k)
  BY DEF Count, Held, LengthOf, Spot

\* A step that concerns neither queues nor blocks.
LEMMA QuietData ==
  ASSUME ControlInv, DataInv, misused = {}, UNCHANGED <<queue, free, meant, carries, leaked>>,
         transfer'.buffer = transfer.buffer,
         transfer.pc \in {"copy", "push"} \/ transfer'.pc \in {"copy", "push"} => transfer' = transfer,
         process.pc \in {"free", "pop"} \/ process'.pc \in {"free", "pop"} => process' = process,
         transfer'.pc \in {"delay", "loop", "call", "receive"} => transfer.buffer = NULL,
         \A c \in Conns : status'[c] # "open" => queue[c].front = queue[c].rear
  PROVE  DataInv'
<1> USE DEF DataInv
<1>1. DataType'
  BY DEF DataType
<1>2. RingInv'
  BY DEF RingInv, Rear, Front, LengthOf
<1>3. \A c \in Conns : Skip(c)' = Skip(c)
  BY DEF Skip
<1>4. HeldInv' /\ MeantInv' /\ \A b \in Blocks : Queued(b)' <=> Queued(b)
  BY <1>3, SkipKept, HeldKept
<1>5. ASSUME NEW b \in Blocks PROVE Claimed(b)'
  <2>1. \A y \in Kinds : Claim(y, b)' <=> Claim(y, b)
    BY <1>4 DEF Claim, Rear, Front
  <2> QED
    BY <2>1 DEF Claimed
<1>6. CopiedInv'
  BY DEF CopiedInv, Rear
<1> QED
  BY <1>1, <1>2, <1>4, <1>5, <1>6

LEMMA InitData == Init => DataInv
<1> SUFFICES ASSUME Init PROVE DataInv
  OBVIOUS
<1> USE SessionAssumption, QueueAssumption
<1>1. DataType
  BY DEF Init, DataType
<1>2. \A c \in Conns : /\ queue[c] = initQueue /\ queue[c].front = 0 /\ queue[c].rear = 0
                       /\ meant[c] = <<>>
  BY DEF Init, initQueue
<1>3. \A c \in Conns : Skip(c) = 0 /\ LengthOf(queue[c]) = 0 /\ Count(c) = 0
  BY <1>2 DEF Init, Skip, LengthOf, Count
<1>4. RingInv /\ CopiedInv
  BY <1>2 DEF Init, RingInv, CopiedInv
<1>5. HeldInv /\ MeantInv
  BY <1>2, <1>3 DEF HeldInv, MeantInv
<1>6. ASSUME NEW b \in Blocks PROVE Claimed(b)
  <2>1. ~Queued(b)
    BY <1>3 DEF Queued
  <2>2. \A y \in Kinds : Claim(y, b) <=> y = "free"
    BY <2>1 DEF Claim, Init, Kinds
  <2> QED
    BY <2>2 DEF Claimed, Kinds
<1> QED
  BY <1>1, <1>4, <1>5, <1>6 DEF DataInv

-----------------------------------------------------------------------------
(* The steps that leave the blocks where they are.                         *)

\* Connections that are not open change, or nothing does.
LEMMA StatusData ==
  ASSUME ControlInv, DataInv, misused = {},
         UNCHANGED <<queue, free, meant, carries, leaked, transfer, process>>,
         \A c \in Conns : status[c] = "open" => status'[c] = "open"
  PROVE  DataInv'
<1>1. transfer'.pc \in {"delay", "loop", "call", "receive"} => transfer.buffer = NULL
  BY DEF DataInv, RingInv
<1>2. \A c \in Conns : status'[c] # "open" => queue[c].front = queue[c].rear
  BY DEF DataInv, RingInv
<1> QED
  BY <1>1, <1>2, QuietData

LEMMA ClientData == ASSUME ControlInv, DataInv, misused = {}, ClientStep PROVE DataInv'
<1>1. PICK c \in Conns : Connect(c) \/ Send(c) \/ Close(c) \/ Reset(c)
  BY DEF ClientStep
<1>2. UNCHANGED <<queue, free, meant, carries, leaked, transfer, process>>
  BY <1>1 DEF Connect, Send, Close, Reset, history
<1>3. \A d \in Conns : status[d] = "open" => status'[d] = "open"
  BY <1>1 DEF Connect, Send, Close, Reset, ControlInv, ControlType
<1> QED
  BY <1>2, <1>3, StatusData

LEMMA QuietServerData ==
  ASSUME ControlInv, DataInv, misused = {},
         \/ \E c \in Conns : Accept(c)
         \/ AcceptNothing \/ ScanEnds \/ ScanTimeout \/ ServerWakes \/ ConnectBackFails
         \/ Scan /\ UNCHANGED <<net, table, queue, free, history>>
         \/ ScanReceives /\ UNCHANGED <<status, lastErr, sent, table, queue, free, history>>
  PROVE  DataInv'
<1>1. UNCHANGED <<queue, free, meant, carries, leaked, transfer, process>>
  BY DEF Accept, AcceptNothing, ScanEnds, ScanTimeout, ServerWakes, ConnectBackFails, Scan, ScanReceives,
     history
<1>2. \A d \in Conns : status[d] = "open" => status'[d] = "open"
  BY ZenonT(40)
  DEF Accept, AcceptNothing, ScanEnds, ScanTimeout, ServerWakes, ConnectBackFails, Scan, ScanReceives,
     net, ControlInv, ControlType, ServerInv
<1> QED
  BY <1>1, <1>2, StatusData

LEMMA QuietTaskData ==
  ASSUME ControlInv, DataInv, misused = {},
         \/ TransferWakes \/ TransferLoop \/ TransferCalls \/ TransferTimeout \/ TransferLearnsOfClose
         \/ TransferEnters
         \/ ProcessWakes \/ ProcessLoop \/ ProcessTakesNothing \/ ProcessExecutes
  PROVE  DataInv'
<1>1. UNCHANGED <<status, queue, free, meant, carries, leaked>>
  BY DEF TransferWakes, TransferLoop, TransferCalls, TransferTimeout, TransferLearnsOfClose,
     TransferEnters, ProcessWakes, ProcessLoop, ProcessTakesNothing, ProcessExecutes, net, history
<1>2. transfer.pc \in {"delay", "loop", "call", "receive"} => transfer.buffer = NULL
  BY DEF DataInv, RingInv
<1>3. \A c \in Conns : status'[c] # "open" => queue[c].front = queue[c].rear
  BY <1>1 DEF DataInv, RingInv
<1>4. CASE UNCHANGED transfer /\ (ProcessWakes \/ ProcessLoop \/ ProcessTakesNothing \/ ProcessExecutes)
  <2>1. process.pc \notin {"free", "pop"} /\ process'.pc \notin {"free", "pop"}
    BY <1>4 DEF ProcessWakes, ProcessLoop, ProcessTakesNothing, ProcessExecutes, ProcessAt, ProcessNext,
       ControlInv, ControlType
  <2> QED
    BY <1>1, <1>2, <1>3, <1>4, <2>1, QuietData
<1>5. CASE /\ UNCHANGED process
           /\ \/ TransferWakes \/ TransferLoop \/ TransferCalls \/ TransferTimeout \/ TransferLearnsOfClose
              \/ TransferEnters
  <2> USE <1>5 DEF ControlInv, ControlType
  <2>1. transfer.pc \notin {"copy", "push"}
    BY DEF TransferWakes, TransferLoop, TransferCalls, TransferTimeout, TransferLearnsOfClose, TransferEnters
  <2>2. CASE transfer' = TransferNext \/ transfer' = TransferFrom("delay", 0)
    <3>1. transfer'.pc \notin {"copy", "push"} /\ transfer'.buffer = NULL /\ transfer.buffer = NULL
      BY <1>2, <2>2 DEF TransferNext, TransferFrom, TransferWakes, TransferLoop, TransferCalls,
         TransferTimeout, TransferLearnsOfClose, TransferEnters, TransferAt
    <3> QED
      BY <1>1, <1>3, <2>1, <3>1, QuietData
  <2>3. CASE TransferWakes \/ (TransferLoop /\ transfer' = TransferAt("call"))
    <3>1. transfer'.pc \notin {"copy", "push"} /\ transfer'.buffer = NULL /\ transfer.buffer = NULL
      BY <1>2, <2>3 DEF TransferWakes, TransferLoop, TransferAt
    <3> QED
      BY <1>1, <1>3, <2>1, <3>1, QuietData
  <2>4. CASE TransferCalls /\ transfer' # TransferNext
    <3>1. transfer' = [TransferFrom("receive", transfer.i) EXCEPT !.conn = Session[transfer.i]]
      BY <2>4 DEF TransferCalls
    <3>2. transfer'.pc \notin {"copy", "push"} /\ transfer'.buffer = NULL
      BY <3>1 DEF TransferFrom
    <3>3. transfer.buffer = NULL
      BY <1>2, <2>4 DEF TransferCalls
    <3> QED
      BY <1>1, <1>3, <2>1, <3>2, <3>3, QuietData
  <2>5. CASE TransferEnters
    <3>1. transfer'.pc = "store" /\ transfer'.buffer = transfer.buffer
      BY <2>5 DEF TransferEnters
    <3> QED
      BY <1>1, <1>3, <2>1, <3>1, QuietData
  <2> QED
    BY <2>2, <2>3, <2>4, <2>5 DEF TransferLoop, TransferTimeout, TransferLearnsOfClose
<1> QED
  BY <1>4, <1>5 DEF TransferWakes, TransferLoop, TransferCalls, TransferTimeout, TransferLearnsOfClose,
     TransferEnters, ProcessWakes, ProcessLoop, ProcessTakesNothing, ProcessExecutes

-----------------------------------------------------------------------------
(* The server gives a queue and takes one back.                            *)

LEMMA ConnectBackData == ASSUME ControlInv, DataInv, misused = {}, ConnectBack PROVE DataInv'
<1> USE DEF DataInv
<1> DEFINE c == server.conn
<1>1. /\ c \in Conns /\ status[c] = "connecting"
      /\ status' = [status EXCEPT ![c] = "open"]
      /\ queue' = [queue EXCEPT ![c] = initQueue]
      /\ UNCHANGED <<free, meant, carries, leaked, transfer, process>>
  BY DEF ConnectBack, ControlInv, ServerInv, history
<1>2. /\ transfer.pc \in {"copy", "push"} => transfer.conn # c /\ transfer.conn \in Conns
      /\ process.pc \in {"free", "pop"} => process.conn # c /\ process.conn \in Conns
  BY <1>1 DEF ControlInv, TransferInv, ProcessInv
<1>3. /\ \A d \in Conns \ {c} : queue'[d] = queue[d]
      /\ queue'[c] = initQueue
      /\ \A d \in Conns : status[d] = "open" => status'[d] = "open"
  BY <1>1 DEF ControlInv, ControlType
<1>4. Count(c) = 0 /\ Skip(c) = 0
  BY <1>1, NotOpenIsEmpty DEF RingInv
<1>5. LengthOf(initQueue) = 0
  BY DEF LengthOf, initQueue
<1>6. \A d \in Conns : Skip(d)' = Skip(d)
  BY <1>1 DEF Skip
<1>7. \A d \in Conns : Count(d)' = Count(d)
  BY <1>3, <1>4, <1>5, <1>6 DEF Count
<1>8. ASSUME NEW d \in Conns, NEW k \in 1 .. Count(d) PROVE Held(d, k)' = Held(d, k)
  <2>1. d # c
    BY <1>4
  <2> QED
    BY <1>3, <1>6, <2>1 DEF Held
<1>9. HeldInv' /\ MeantInv' /\ \A b \in Blocks : Queued(b)' <=> Queued(b)
  BY <1>1, <1>7, <1>8, HeldKept
<1>10. /\ transfer.pc \in {"copy", "push"} => Rear(transfer.conn)' = Rear(transfer.conn)
       /\ process.pc \in {"free", "pop"} => Front(process.conn)' = Front(process.conn)
  BY <1>1, <1>2, <1>3 DEF Rear, Front
<1>11. RingInv'
  <2>1. \A d \in Conns : status'[d] # "open" => queue'[d].front = queue'[d].rear
    BY <1>1, <1>3 DEF RingInv, ControlInv, ControlType
  <2> QED
    BY <1>1, <1>2, <1>3, <1>10, <2>1 DEF RingInv
<1>12. ASSUME NEW b \in Blocks PROVE Claimed(b)'
  <2>1. \A y \in Kinds : Claim(y, b)' <=> Claim(y, b)
    BY <1>1, <1>9, <1>10 DEF Claim
  <2> QED
    BY <2>1 DEF Claimed
<1>13. CopiedInv'
  BY <1>1, <1>10 DEF CopiedInv
<1>14. DataType'
  BY <1>1 DEF DataType
<1> QED
  BY <1>9, <1>11, <1>12, <1>13, <1>14

\* destroyQueue gives back blocks, those that wait if none is being taken.
LEMMA FreedIs ==
  ASSUME ControlInv, DataInv, misused = {}, NEW c \in Conns
  PROVE  /\ Freed(queue[c]) \subseteq Blocks
         /\ Skip(c) = 0 => Freed(queue[c]) = {Held(c, k) : k \in 1 .. Count(c)}
<1> USE DEF DataInv
<1> DEFINE q == queue[c]
<1>1. q \in Ring /\ LengthOf(q) = Count(c) + Skip(c) /\ Skip(c) \in {0, 1} /\ Count(c) \in Nat
  BY CountIs
<1>2. Freed(q) = {q.pBase[Spot(q, k - 1)] : k \in 1 .. LengthOf(q)}
  <2>1. Items(q) = [k \in 1 .. LengthOf(q) |-> q.pBase[Spot(q, k - 1)]]
    BY <1>1, ItemsAre
  <2>2. DOMAIN Items(q) = 1 .. LengthOf(q)
    BY <2>1
  <2>3. \A k \in 1 .. LengthOf(q) : Items(q)[k] = q.pBase[Spot(q, k - 1)]
    BY <2>1
  <2> QED
    BY <2>2, <2>3 DEF Freed
<1>3. CASE Skip(c) = 0
  <2>1. \A k \in 1 .. LengthOf(q) : q.pBase[Spot(q, k - 1)] = Held(c, k)
    BY <1>1, <1>3 DEF Held
  <2>2. LengthOf(q) = Count(c)
    BY <1>1, <1>3
  <2> QED
    BY <1>2, <2>1, <2>2 DEF HeldInv
<1>4. CASE Skip(c) = 1
  <2>1. ASSUME NEW k \in 1 .. LengthOf(q) PROVE q.pBase[Spot(q, k - 1)] \in Blocks
    <3>1. CASE k = 1
      <4>1. Spot(q, 0) = q.front
        BY <1>1, SpotIs, QueueAssumption
      <4>2. Front(c) \in Blocks
        BY <1>4 DEF Skip, RingInv
      <4> QED
        BY <3>1, <4>1, <4>2 DEF Front
    <3>2. CASE k # 1
      <4>1. k - 1 \in 1 .. Count(c) /\ (k - 1) - 1 + Skip(c) = k - 1
        BY <1>1, <1>4, <3>2
      <4>2. Held(c, k - 1) = q.pBase[Spot(q, k - 1)]
        BY <4>1 DEF Held
      <4> QED
        BY <4>1, <4>2 DEF HeldInv
    <3> QED
      BY <3>1, <3>2
  <2> QED
    BY <1>2, <1>4, <2>1
<1> QED
  BY <1>1, <1>3, <1>4

\* The session's queue is emptied, its blocks are free.
LEMMA DisconnectData ==
  ASSUME ControlInv, DataInv, misused = {},
         server.pc \in {"scan", "receive"}, server.i < ClientNum, Disconnect
  PROVE  DataInv'
<1> USE DEF DataInv
<1>1. PICK c \in Conns : c = Session[server.i] /\ status[c] = "open"
  <2>1. server.i \in 0 .. ClientNum - 1
    BY DEF ControlInv, ControlType
  <2> QED
    BY <2>1 DEF ControlInv, TableInv
<1>2. /\ status' = [status EXCEPT ![c] = "deleted"]
      /\ queue' = [queue EXCEPT ![c] = Destroyed(@)]
      /\ free' = free \cup Freed(queue[c])
      /\ meant' = [meant EXCEPT ![c] = <<>>]
      /\ carries' = [b \in Blocks |-> IF b \in Freed(queue[c]) THEN Blank ELSE carries[b]]
      /\ misused' = {} => ~InQueue(transfer, c) /\ ~InQueue(process, c)
      /\ UNCHANGED <<transfer, process, leaked>>
  BY <1>1 DEF Disconnect
<1>3. Freed(queue[c]) \subseteq Blocks
  BY <1>1, FreedIs
<1>4. DataType'
  BY <1>1, <1>2, <1>3 DEF DataType
<1> SUFFICES ASSUME misused' = {}
             PROVE  RingInv' /\ HeldInv' /\ (\A b \in Blocks : Claimed(b)') /\ MeantInv' /\ CopiedInv'
  BY <1>4
<1>5. /\ transfer.pc \in {"copy", "push"} => transfer.conn # c /\ transfer.conn \in Conns
      /\ process.pc \in {"free", "pop"} => process.conn # c /\ process.conn \in Conns
  BY <1>2 DEF InQueue, ControlInv, TransferInv, ProcessInv
<1>6. /\ \A d \in Conns \ {c} : queue'[d] = queue[d] /\ meant'[d] = meant[d] /\ status'[d] = status[d]
      /\ queue'[c] = Destroyed(queue[c]) /\ meant'[c] = <<>>
  BY <1>1, <1>2, <1>4 DEF ControlInv, ControlType, DataType
<1>7. Skip(c) = 0 /\ \A d \in Conns : Skip(d)' = Skip(d)
  BY <1>2, <1>5 DEF Skip
<1>8. LengthOf(queue'[c]) = 0 /\ queue'[c].front = queue'[c].rear
  BY <1>6 DEF Destroyed, LengthOf
<1>9. /\ Count(c)' = 0
      /\ \A d \in Conns \ {c} : /\ Count(d)' = Count(d)
                               /\ \A k \in 1 .. Count(d) : Held(d, k)' = Held(d, k)
  BY <1>6, <1>7, <1>8 DEF Count, Held
<1>10. Freed(queue[c]) = {Held(c, k) : k \in 1 .. Count(c)}
  BY <1>1, <1>7, FreedIs
<1>11. RingInv'
  <2>1. \A d \in Conns : status'[d] # "open" => queue'[d].front = queue'[d].rear
    BY <1>6, <1>8 DEF RingInv
  <2> QED
    BY <1>2, <1>5, <1>6, <2>1 DEF RingInv, Rear, Front
<1>12. HeldInv'
  BY <1>9 DEF HeldInv
<1>13. ASSUME NEW d \in Conns \ {c}, NEW k \in 1 .. Count(d)
       PROVE  Held(d, k) \in Blocks /\ Held(d, k) \notin Freed(queue[c])
  BY <1>1, <1>10, <1>13 DEF HeldInv
<1>14. MeantInv'
  <2>1. \A d \in Conns : Len(meant'[d]) = Count(d)'
    BY <1>6, <1>9 DEF MeantInv
  <2>2. ASSUME NEW d \in Conns, NEW k \in 1 .. Count(d)' PROVE meant'[d][k] = carries'[Held(d, k)']
    <3>1. d # c /\ k \in 1 .. Count(d) /\ Held(d, k)' = Held(d, k)
      BY <1>9
    <3>2. carries'[Held(d, k)] = carries[Held(d, k)]
      BY <1>2, <1>13, <3>1
    <3> QED
      BY <1>6, <3>1, <3>2 DEF MeantInv
  <2> QED
    BY <2>1, <2>2 DEF MeantInv
<1>15. ASSUME NEW b \in Blocks PROVE Claimed(b)'
  <2>1. PICK x \in Kinds : \A y \in Kinds : Claim(y, b) <=> y = x
    BY DEF Claimed
  <2>2. Queued(b)' <=> Queued(b) /\ b \notin Freed(queue[c])
    <3>1. Queued(b)' <=> \E d \in Conns \ {c} : \E k \in 1 .. Count(d) : Held(d, k) = b
      BY <1>9 DEF Queued
    <3>2. b \in Freed(queue[c]) <=> \E k \in 1 .. Count(c) : Held(c, k) = b
      BY <1>10
    <3>3. \A d \in Conns \ {c} : \A k \in 1 .. Count(d) : Held(d, k) \notin Freed(queue[c])
      BY <1>13
    <3> QED
      BY <1>1, <3>1, <3>2, <3>3 DEF Queued
  <2>3. /\ transfer.pc \in {"copy", "push"} => Rear(transfer.conn)' = Rear(transfer.conn)
        /\ process.pc \in {"free", "pop"} => Front(process.conn)' = Front(process.conn)
    BY <1>2, <1>5, <1>6 DEF Rear, Front
  <2>4. CASE b \in Freed(queue[c])
    <3>1. Queued(b)
      BY <1>1, <1>10, <2>4 DEF Queued
    <3>2. x = "queue"
      BY <2>1, <3>1 DEF Claim, Kinds
    <3>3. \A y \in Kinds : Claim(y, b)' <=> y = "free"
      BY <1>2, <2>1, <2>2, <2>3, <2>4, <3>2 DEF Claim, Kinds
    <3> QED
      BY <3>3 DEF Claimed, Kinds
  <2>5. CASE b \notin Freed(queue[c])
    <3>1. \A y \in Kinds : Claim(y, b)' <=> Claim(y, b)
      BY <1>2, <2>2, <2>3, <2>5 DEF Claim
    <3> QED
      BY <2>1, <3>1 DEF Claimed
  <2> QED
    BY <2>4, <2>5
<1>16. CopiedInv'
  <2> SUFFICES ASSUME transfer.pc = "push" PROVE carries'[Rear(transfer.conn)'] = transfer.packet
    BY <1>2 DEF CopiedInv
  <2>1. Rear(transfer.conn)' = Rear(transfer.conn) /\ Rear(transfer.conn) \in Blocks
    BY <1>2, <1>5, <1>6 DEF Rear, RingInv
  <2>2. ~Queued(Rear(transfer.conn))
    <3>1. Claim("enQueue", Rear(transfer.conn)) /\ Claimed(Rear(transfer.conn))
      BY <2>1 DEF Claim
    <3> QED
      BY <3>1 DEF Claimed, Claim, Kinds
  <2>3. Rear(transfer.conn) \notin Freed(queue[c])
    BY <1>1, <1>10, <2>2 DEF Queued
  <2> QED
    BY <1>2, <2>1, <2>3 DEF CopiedInv
<1> QED
  BY <1>11, <1>12, <1>14, <1>15, <1>16

LEMMA ServerData == ASSUME ControlInv, DataInv, misused = {}, ServerStep PROVE DataInv'
<1>1. CASE ConnectBack
  BY <1>1, ConnectBackData
<1>2. CASE (Scan \/ ScanReceives) /\ Disconnect
  <2>1. server.pc \in {"scan", "receive"} /\ server.i < ClientNum
    BY <1>2 DEF Scan, ScanReceives, ScanOver, ControlInv, ControlType, ServerInv
  <2> QED
    BY <1>2, <2>1, DisconnectData
<1>3. CASE Scan /\ ~Disconnect
  <2>1. UNCHANGED <<net, table, queue, free, history>>
    BY <1>3 DEF Scan
  <2> QED
    BY <1>3, <2>1, QuietServerData
<1>4. CASE ScanReceives /\ ~Disconnect
  <2>1. UNCHANGED <<status, lastErr, sent, table, queue, free, history>>
    BY <1>4 DEF ScanReceives
  <2> QED
    BY <1>4, <2>1, QuietServerData
<1> QED
  BY <1>1, <1>2, <1>3, <1>4, QuietServerData DEF ServerStep

-----------------------------------------------------------------------------
(* The blocks of the transfer task.                                        *)

\* A block that has a claim has no other.
LEMMA OneClaim ==
  ASSUME NEW b \in Blocks, Claimed(b), NEW x \in Kinds, Claim(x, b)
  PROVE  \A y \in Kinds : Claim(y, b) <=> y = x
  BY DEF Claimed

LEMMA ReceivesData ==
  ASSUME ControlInv, DataInv, misused = {}, NEW b0 \in Blocks \cup {NULL}, TransferReceives(b0)
  PROVE  DataInv'
<1> USE DEF DataInv
<1>1. /\ transfer.pc = "receive" /\ transfer.buffer = NULL
      /\ transfer'.pc = "enter" /\ transfer'.buffer = b0
      /\ free' = free \ {b0}
      /\ b0 \in free \/ b0 = NULL
      /\ UNCHANGED <<status, queue, process, meant, carries, leaked>>
  BY DEF TransferReceives, RingInv, history
<1>2. HeldInv' /\ MeantInv' /\ \A b \in Blocks : Queued(b)' <=> Queued(b)
  BY <1>1, SkipKept, HeldKept DEF Skip
<1>3. RingInv'
  BY <1>1 DEF RingInv, Front, LengthOf
<1>4. ASSUME NEW b \in Blocks PROVE Claimed(b)'
  <2>1. b # NULL /\ Claimed(b)
    BY SessionAssumption
  <2>2. CASE b = b0
    <3>1. Claim("free", b)
      BY <1>1, <2>1, <2>2 DEF Claim
    <3>2. \A y \in Kinds : Claim(y, b) <=> y = "free"
      BY <2>1, <3>1, OneClaim DEF Kinds
    <3>3. \A y \in Kinds : Claim(y, b)' <=> y = "buffer"
      BY <1>1, <1>2, <2>1, <2>2, <3>2 DEF Claim, Kinds, Front
    <3> QED
      BY <3>3 DEF Claimed, Kinds
  <2>3. CASE b # b0
    <3>1. \A y \in Kinds : Claim(y, b)' <=> Claim(y, b)
      BY <1>1, <1>2, <2>1, <2>3 DEF Claim, Front
    <3> QED
      BY <2>1, <3>1 DEF Claimed
  <2> QED
    BY <2>2, <2>3
<1> QED
  BY <1>1, <1>2, <1>3, <1>4 DEF DataType, CopiedInv

\* What is stored at the rear is not yet in the queue.
LEMMA StoresData ==
  ASSUME ControlInv, DataInv, misused = {}, NEW b0 \in Blocks \cup {NULL}, TransferStores(b0)
  PROVE  DataInv'
<1> USE DEF DataInv
<1>1. PICK c \in Conns : c = transfer.conn /\ status[c] = "open"
  BY DEF TransferStores, ControlInv, TransferInv
<1>2. /\ transfer.pc = "store"
      /\ transfer' = TransferAt(IF b0 = NULL THEN "release" ELSE "copy")
      /\ free' = free \ {b0}
      /\ b0 \in free \/ b0 = NULL
      /\ queue' = [queue EXCEPT ![c] = Stored(queue[c], b0)]
      /\ UNCHANGED <<status, process, meant, carries, leaked>>
  BY <1>1 DEF TransferStores, history, net
<1>3. /\ transfer'.pc = IF b0 = NULL THEN "release" ELSE "copy"
      /\ transfer'.conn = c /\ transfer'.buffer = transfer.buffer
  BY <1>1, <1>2 DEF TransferAt, ControlInv, ControlType
<1>4. /\ \A d \in Conns \ {c} : queue'[d] = queue[d]
      /\ queue'[c] = Stored(queue[c], b0) /\ queue[c] \in Ring
  BY <1>2 DEF ControlInv, ControlType
<1>5. /\ LengthOf(queue'[c]) = LengthOf(queue[c])
      /\ queue'[c].front = queue[c].front /\ queue'[c].rear = queue[c].rear
      /\ queue'[c].pBase[queue[c].rear] = b0
      /\ \A d \in 0 .. MaxPointNumInQueue - 1 : Spot(queue'[c], d) = Spot(queue[c], d)
      /\ \A k \in Indices \ {queue[c].rear} : queue'[c].pBase[k] = queue[c].pBase[k]
  BY <1>4, StoredIs
<1>6. \A d \in Conns : Skip(d)' = Skip(d) /\ Count(d)' = Count(d)
  BY <1>2, <1>4, <1>5 DEF Skip, Count
<1>7. ASSUME NEW d \in Conns, NEW k \in 1 .. Count(d) PROVE Held(d, k)' = Held(d, k)
  <2>1. CASE d = c
    <3>1. /\ k - 1 + Skip(c) \in 0 .. MaxPointNumInQueue - 1
          /\ Spot(queue[c], k - 1 + Skip(c)) \in Indices \ {queue[c].rear}
      BY <2>1, HeldAt
    <3> QED
      BY <1>5, <1>6, <2>1, <3>1 DEF Held
  <2>2. CASE d # c
    BY <1>4, <1>6, <2>2 DEF Held
  <2> QED
    BY <2>1, <2>2
<1>8. HeldInv' /\ MeantInv' /\ \A b \in Blocks : Queued(b)' <=> Queued(b)
  BY <1>2, <1>6, <1>7, HeldKept
<1>9. process.pc \in {"free", "pop"} =>
        /\ LengthOf(queue[process.conn])' = LengthOf(queue[process.conn])
        /\ Front(process.conn)' = Front(process.conn)
  <2> SUFFICES ASSUME process.pc \in {"free", "pop"}
               PROVE  /\ LengthOf(queue[process.conn])' = LengthOf(queue[process.conn])
                      /\ Front(process.conn)' = Front(process.conn)
    OBVIOUS
  <2>1. process.conn \in Conns
    BY DEF ControlInv, ProcessInv
  <2>2. CASE process.conn = c
    <3>1. queue[c].front # queue[c].rear
      BY <1>4, <2>2 DEF RingInv, LengthOf, Ring, Indices
    <3>2. queue[c].front \in Indices
      BY <1>4 DEF Ring
    <3> QED
      BY <1>2, <1>5, <2>2, <3>1, <3>2 DEF Front
  <2>3. CASE process.conn # c
    BY <1>2, <1>4, <2>1, <2>3 DEF Front
  <2> QED
    BY <2>2, <2>3
<1>10. RingInv'
  <2>1. \A d \in Conns : status'[d] # "open" => queue'[d].front = queue'[d].rear
    BY <1>2, <1>4, <1>5 DEF RingInv
  <2>2. transfer'.pc = "copy" => Rear(transfer.conn)' = b0 /\ b0 \in Blocks
    BY <1>3, <1>5 DEF Rear
  <2>3. process'.pc \in {"free", "pop"} => LengthOf(queue[process.conn])' > 0 /\ Front(process.conn)' \in Blocks
    BY <1>2, <1>9 DEF RingInv
  <2>4. transfer'.pc \in {"release", "copy"}
    BY <1>3
  <2> QED
    BY <2>1, <2>2, <2>3, <2>4 DEF RingInv
<1>11. ASSUME NEW b \in Blocks PROVE Claimed(b)'
  <2>1. b # NULL /\ Claimed(b)
    BY SessionAssumption
  <2>2. CASE b = b0
    <3>1. Claim("free", b)
      BY <1>2, <2>1, <2>2 DEF Claim
    <3>2. \A y \in Kinds : Claim(y, b) <=> y = "free"
      BY <2>1, <3>1, OneClaim DEF Kinds
    <3>3. transfer'.pc = "copy" /\ Rear(transfer.conn)' = b0
      BY <1>3, <1>5, <2>1, <2>2 DEF Rear
    <3>4. \A y \in Kinds : Claim(y, b)' <=> y = "enQueue"
      BY <1>2, <1>3, <1>8, <1>9, <2>1, <2>2, <3>2, <3>3 DEF Claim, Kinds
    <3> QED
      BY <3>4 DEF Claimed, Kinds
  <2>3. CASE b # b0
    <3>1. ~(transfer'.pc \in {"copy", "push"} /\ b = Rear(transfer.conn)')
      BY <1>3, <1>5, <2>3 DEF Rear
    <3>2. \A y \in Kinds : Claim(y, b)' <=> Claim(y, b)
      BY <1>2, <1>3, <1>8, <1>9, <2>3, <3>1 DEF Claim
    <3> QED
      BY <2>1, <3>2 DEF Claimed
  <2> QED
    BY <2>2, <2>3
<1>12. CopiedInv'
  BY <1>3 DEF CopiedInv
<1>13. DataType'
  BY <1>2 DEF DataType
<1> QED
  BY <1>8, <1>10, <1>11, <1>12, <1>13

\* The block that a full queue does not take is lost; a packet is copied into
\* one that it does.
LEMMA CopiesData ==
  ASSUME ControlInv, DataInv, misused = {}, TransferFindsQueueFull \/ TransferCopies
  PROVE  DataInv'
<1> USE DEF DataInv
<1>1. PICK c \in Conns : c = transfer.conn /\ queue[c] \in Ring
  BY DEF TransferFindsQueueFull, TransferCopies, ControlInv, ControlType, TransferInv
<1> DEFINE r == queue[c].pBase[queue[c].rear]
<1>2. /\ transfer.pc = "copy" /\ r \in Blocks
      /\ UNCHANGED <<status, queue, free, process, meant>>
  BY <1>1 DEF TransferFindsQueueFull, TransferCopies, RingInv, Rear, history, net
<1>3. Claim("enQueue", r) /\ \A y \in Kinds : Claim(y, r) <=> y = "enQueue"
  <2>1. Claim("enQueue", r)
    BY <1>1, <1>2 DEF Claim, Rear
  <2> QED
    BY <1>2, <2>1, OneClaim DEF Kinds
<1>4. /\ \A d \in Conns : Count(d)' = Count(d)
      /\ \A d \in Conns : \A k \in 1 .. Count(d) : Held(d, k)' = Held(d, k)
  BY <1>2, SkipKept DEF Skip
<1>5. HeldInv' /\ \A b \in Blocks : Queued(b)' <=> Queued(b)
  BY <1>4, HeldKept
<1>6. CASE TransferFindsQueueFull
  <2>1. /\ leaked' = leaked \cup {r} /\ carries' = carries
        /\ transfer'.pc = "release" /\ transfer'.buffer = transfer.buffer
    BY <1>1, <1>6 DEF TransferFindsQueueFull, TransferAt, ControlInv, ControlType
  <2>2. MeantInv' /\ CopiedInv'
    BY <1>2, <1>4, <2>1, HeldKept DEF CopiedInv
  <2>3. RingInv'
    BY <1>2, <2>1 DEF RingInv, Front, LengthOf
  <2>4. ASSUME NEW b \in Blocks PROVE Claimed(b)'
    <3>1. CASE b = r
      <4>1. \A y \in Kinds : Claim(y, b)' <=> y = "lost"
        BY <1>2, <1>3, <1>5, <2>1, <3>1 DEF Claim, Kinds, Front
      <4> QED
        BY <4>1 DEF Claimed, Kinds
    <3>2. CASE b # r
      <4>1. \A y \in Kinds : Claim(y, b)' <=> Claim(y, b)
        BY <1>1, <1>2, <1>5, <2>1, <3>2 DEF Claim, Rear, Front
      <4> QED
        BY <4>1 DEF Claimed
    <3> QED
      BY <3>1, <3>2
  <2> QED
    BY <1>2, <1>5, <2>1, <2>2, <2>3, <2>4 DEF DataType
<1>7. CASE TransferCopies
  <2>1. /\ carries' = [carries EXCEPT ![r] = transfer.packet] /\ leaked' = leaked
        /\ transfer'.pc = "push" /\ transfer'.buffer = transfer.buffer
        /\ transfer'.conn = c /\ transfer'.packet = transfer.packet
        /\ ~isFullQueue(queue[c])
    BY <1>1, <1>7 DEF TransferCopies, TransferAt, ControlInv, ControlType
  <2>2. DataType'
    BY <1>1, <1>2, <1>7, <2>1 DEF DataType, TransferCopies, ControlInv, ControlType
  <2>3. MeantInv'
    <3>1. ASSUME NEW d \in Conns, NEW k \in 1 .. Count(d) PROVE Held(d, k) \in Blocks \ {r}
      <4>1. Held(d, k) \in Blocks /\ Queued(Held(d, k))
        BY DEF HeldInv, Queued
      <4>2. ~Queued(r)
        BY <1>3 DEF Claim, Kinds
      <4> QED
        BY <4>1, <4>2
    <3>2. \A d \in Conns : \A k \in 1 .. Count(d) : carries'[Held(d, k)'] = carries[Held(d, k)]
      BY <1>4, <2>1, <3>1 DEF DataType
    <3> QED
      BY <1>2, <1>4, <3>2 DEF MeantInv
  <2>4. CopiedInv'
    BY <1>2, <2>1 DEF CopiedInv, Rear, DataType
  <2>5. RingInv'
    <3>1. LengthOf(queue[c]) < MaxPointNumInQueue - 1
      BY <1>1, <2>1, LengthIs, QueueAssumption
    <3> QED
      BY <1>1, <1>2, <2>1, <3>1 DEF RingInv, Front, Rear, LengthOf
  <2>6. ASSUME NEW b \in Blocks PROVE Claimed(b)'
    <3>1. \A y \in Kinds : Claim(y, b)' <=> Claim(y, b)
      BY <1>1, <1>2, <1>5, <2>1 DEF Claim, Rear, Front
    <3> QED
      BY <3>1 DEF Claimed
  <2> QED
    BY <1>5, <2>2, <2>3, <2>4, <2>5, <2>6
<1> QED
  BY <1>6, <1>7

\* The new pointer is counted in as the last.
LEMMA PushesData ==
  ASSUME ControlInv, ControlInv', DataInv, misused = {}, TransferPushes
  PROVE  DataInv'
<1> USE DEF DataInv
<1>1. PICK c \in Conns : c = transfer.conn /\ status[c] = "open" /\ queue[c] \in Ring
  BY DEF TransferPushes, ControlInv, ControlType, TransferInv
<1>0. PICK n \in Nat : n = Count(c)
  BY CountIs
<1>2. /\ transfer.pc = "push" /\ transfer.packet \in Packets
      /\ transfer'.pc = "release" /\ transfer'.buffer = transfer.buffer
      /\ queue' = [queue EXCEPT ![c] = Pushed(queue[c])]
      /\ meant' = [meant EXCEPT ![c] = Append(meant[c], transfer.packet)]
      /\ UNCHANGED <<status, free, process, carries, leaked>>
  BY <1>1 DEF TransferPushes, TransferAt, ControlInv, ControlType, TransferInv, history, net
<1>3. PICK r \in Blocks : r = Rear(c) /\ carries[r] = transfer.packet
  BY <1>1, <1>2 DEF RingInv, CopiedInv
<1>4. /\ \A d \in Conns \ {c} : queue'[d] = queue[d] /\ meant'[d] = meant[d]
      /\ queue'[c] = Pushed(queue[c])
      /\ meant'[c] = Append(meant[c], transfer.packet)
  BY <1>2 DEF ControlInv, ControlType, DataType
<1>5. /\ queue'[c].pBase = queue[c].pBase /\ queue'[c].front = queue[c].front
      /\ LengthOf(queue'[c]) = LengthOf(queue[c]) + 1
      /\ \A d \in 0 .. MaxPointNumInQueue - 1 : Spot(queue'[c], d) = Spot(queue[c], d)
  <2>1. LengthOf(queue[c]) < MaxPointNumInQueue - 1
    BY <1>1, <1>2 DEF RingInv
  <2>2. Pushed(queue[c]).front = queue[c].front
    BY <1>1 DEF Pushed, Ring
  <2> QED
    BY <1>1, <1>4, <2>1, <2>2, PushedIs
<1>6. \A d \in Conns : Skip(d)' = Skip(d)
  BY <1>2 DEF Skip
<1>7. /\ Count(c)' = n + 1
      /\ \A d \in Conns \ {c} : Count(d)' = Count(d) /\ \A k \in 1 .. Count(d) : Held(d, k)' = Held(d, k)
  <2>1. Count(c)' = n + 1
    <3>1. /\ n \in 0 .. MaxPointNumInQueue - 1 /\ Skip(c) \in {0, 1}
          /\ LengthOf(queue[c]) = n + Skip(c)
      BY <1>0, CountIs
    <3>2. Count(c)' = LengthOf(queue'[c]) - Skip(c)
      BY <1>6 DEF Count
    <3> QED
      BY <1>5, <3>1, <3>2, QueueAssumption
  <2> QED
    BY <1>4, <1>6, <2>1 DEF Count, Held
<1>8. /\ \A k \in 1 .. n : Held(c, k)' = Held(c, k)
      /\ Held(c, n + 1)' = r
  <2>1. ASSUME NEW k \in 1 .. n PROVE Held(c, k)' = Held(c, k)
    <3>1. k - 1 + Skip(c) \in 0 .. MaxPointNumInQueue - 1
      BY <1>0, HeldAt
    <3> QED
      BY <1>5, <1>6, <3>1 DEF Held
  <2>2. Held(c, n + 1)' = r
    <3>1. /\ n + 1 - 1 + Skip(c) = LengthOf(queue[c])
          /\ LengthOf(queue[c]) \in 0 .. MaxPointNumInQueue - 1
      BY <1>0, CountIs
    <3>2. Spot(queue[c], LengthOf(queue[c])) = queue[c].rear
      BY <1>1, <3>1, SpotIs
    <3>3. Held(c, n + 1)' = queue'[c].pBase[Spot(queue'[c], n + 1 - 1 + Skip(c))]
      BY <1>6 DEF Held
    <3> QED
      BY <1>3, <1>5, <3>1, <3>2, <3>3 DEF Rear
  <2> QED
    BY <2>1, <2>2
<1>9. /\ \A y \in Kinds : Claim(y, r) <=> y = "enQueue"
      /\ ~Queued(r)
  <2>1. Claim("enQueue", r)
    BY <1>1, <1>2, <1>3 DEF Claim
  <2>2. \A y \in Kinds : Claim(y, r) <=> y = "enQueue"
    BY <2>1, OneClaim DEF Kinds
  <2> QED
    BY <2>2 DEF Claim, Kinds
<1>10. \A b \in Blocks : Queued(b)' <=> Queued(b) \/ b = r
  <2> TAKE b \in Blocks
  <2>1. ASSUME Queued(b)' PROVE Queued(b) \/ b = r
    <3> PICK d \in Conns : \E k \in 1 .. Count(d)' : Held(d, k)' = b
      BY <2>1 DEF Queued
    <3>1. PICK k \in 1 .. Count(d)' : Held(d, k)' = b
      OBVIOUS
    <3>2. CASE d = c /\ k = n + 1
      BY <1>0, <1>8, <3>1, <3>2
    <3>3. CASE ~(d = c /\ k = n + 1)
      <4>1. k \in 1 .. Count(d) /\ Held(d, k) = b
        BY <1>0, <1>7, <1>8, <3>1, <3>3
      <4> QED
        BY <4>1 DEF Queued
    <3> QED
      BY <3>2, <3>3
  <2>2. ASSUME Queued(b) PROVE Queued(b)'
    <3> PICK d \in Conns : \E k \in 1 .. Count(d) : Held(d, k) = b
      BY <2>2 DEF Queued
    <3>1. PICK k \in 1 .. Count(d) : Held(d, k) = b
      OBVIOUS
    <3>2. k \in 1 .. Count(d)' /\ Held(d, k)' = b
      BY <1>0, <1>7, <1>8, <3>1
    <3> QED
      BY <3>2 DEF Queued
  <2>3. ASSUME b = r PROVE Queued(b)'
    <3>1. n + 1 \in 1 .. Count(c)' /\ Held(c, n + 1)' = b
      BY <1>0, <1>7, <1>8, <2>3
    <3> QED
      BY <3>1 DEF Queued
  <2> QED
    BY <2>1, <2>2, <2>3
<1>11. \A d \in Conns : \A k \in 1 .. Count(d)' :
         \/ d = c /\ k = n + 1 /\ Held(d, k)' = r
         \/ k \in 1 .. Count(d) /\ Held(d, k)' = Held(d, k) /\ Held(d, k) \in Blocks \ {r}
  <2> TAKE d \in Conns
  <2> TAKE k \in 1 .. Count(d)'
  <2>1. CASE d = c /\ k = n + 1
    BY <1>0, <1>8, <2>1
  <2>2. CASE ~(d = c /\ k = n + 1)
    <3>1. k \in 1 .. Count(d) /\ Held(d, k)' = Held(d, k)
      BY <1>0, <1>7, <1>8, <2>2
    <3>2. Held(d, k) # r
      BY <1>0, <1>9, <3>1 DEF Queued
    <3> QED
      BY <3>1, <3>2 DEF HeldInv
  <2> QED
    BY <2>1, <2>2
<1>12. HeldInv'
  <2>1. \A d \in Conns : \A k \in 1 .. Count(d)' : Held(d, k)' \in Blocks
    BY <1>11
  <2>2. ASSUME NEW d \in Conns, NEW e \in Conns, NEW k \in 1 .. Count(d)', NEW l \in 1 .. Count(e)',
               Held(d, k)' = Held(e, l)'
        PROVE  d = e /\ k = l
    <3>1. CASE d = c /\ k = n + 1 /\ Held(d, k)' = r
      BY <1>11, <2>2, <3>1
    <3>2. CASE k \in 1 .. Count(d) /\ Held(d, k)' = Held(d, k) /\ Held(d, k) \in Blocks \ {r}
      <4>1. l \in 1 .. Count(e) /\ Held(e, l)' = Held(e, l)
        BY <1>11, <2>2, <3>2
      <4> QED
        BY <2>2, <3>2, <4>1, ZenonT(40) DEF HeldInv
    <3> QED
      BY <1>11, <3>1, <3>2
  <2> QED
    BY <2>1, <2>2 DEF HeldInv
<1>13. MeantInv'
  <2>1. /\ Len(meant'[c]) = n + 1
        /\ \A k \in 1 .. n : meant'[c][k] = meant[c][k]
        /\ meant'[c][n + 1] = transfer.packet
    <3>1. meant[c] \in Seq(Packets) /\ Len(meant[c]) = n
      BY <1>0 DEF DataType, MeantInv
    <3> QED
      BY <1>2, <1>4, <3>1, AppendProperties
  <2>2. \A d \in Conns : Len(meant'[d]) = Count(d)'
    BY <1>0, <1>4, <1>7, <2>1 DEF MeantInv
  <2>3. ASSUME NEW d \in Conns, NEW k \in 1 .. Count(d)' PROVE meant'[d][k] = carries'[Held(d, k)']
    <3>1. CASE d = c /\ k = n + 1 /\ Held(d, k)' = r
      BY <1>2, <1>3, <2>1, <3>1
    <3>2. CASE k \in 1 .. Count(d) /\ Held(d, k)' = Held(d, k)
      <4>1. meant'[d][k] = meant[d][k]
        BY <1>0, <1>4, <2>1, <3>2
      <4> QED
        BY <1>2, <3>2, <4>1 DEF MeantInv
    <3> QED
      BY <1>11, <3>1, <3>2
  <2> QED
    BY <2>2, <2>3 DEF MeantInv
<1>14. RingInv'
  <2>1. \A d \in Conns : status'[d] # "open" => queue'[d].front = queue'[d].rear
    BY <1>1, <1>2, <1>4 DEF RingInv
  <2>2. process'.pc \in {"free", "pop"} => LengthOf(queue[process.conn])' > 0 /\ Front(process.conn)' \in Blocks
    <3> SUFFICES ASSUME process.pc \in {"free", "pop"}
                 PROVE  LengthOf(queue[process.conn])' > 0 /\ Front(process.conn)' \in Blocks
      BY <1>2
    <3>1. process.conn \in Conns /\ LengthOf(queue[process.conn]) \in 0 .. MaxPointNumInQueue - 1
      BY CountIs DEF ControlInv, ProcessInv
    <3> QED
      BY <1>2, <1>4, <1>5, <3>1, QueueAssumption DEF RingInv, Front
  <2> QED
    BY <1>2, <2>1, <2>2 DEF RingInv
<1>15. ASSUME NEW b \in Blocks PROVE Claimed(b)'
  <2>1. process.pc = "free" => Front(process.conn)' = Front(process.conn)
    BY <1>2, <1>4, <1>5 DEF Front, ControlInv, ProcessInv
  <2>2. CASE b = r
    <3>1. \A y \in Kinds : Claim(y, b)' <=> y = "queue"
      BY <1>2, <1>9, <1>10, <2>1, <2>2 DEF Claim, Kinds
    <3> QED
      BY <3>1 DEF Claimed, Kinds
  <2>3. CASE b # r
    <3>1. \A y \in Kinds : Claim(y, b)' <=> Claim(y, b)
      BY <1>1, <1>2, <1>3, <1>10, <2>1, <2>3 DEF Claim
    <3> QED
      BY <3>1 DEF Claimed
  <2> QED
    BY <2>2, <2>3
<1>16. DataType'
  <2>1. Append(meant[c], transfer.packet) \in Seq(Packets)
    BY <1>2, AppendProperties DEF DataType
  <2> QED
    BY <1>2, <2>1 DEF DataType
<1>17. CopiedInv'
  BY <1>2 DEF CopiedInv
<1> QED
  BY <1>12, <1>13, <1>14, <1>15, <1>16, <1>17

\* The buffer is given back.
LEMMA ReleasesData ==
  ASSUME ControlInv, DataInv, misused = {}, TransferReleases
  PROVE  DataInv'
<1> USE DEF DataInv
<1>1. /\ transfer.pc = "release" /\ transfer'.pc = "loop" /\ transfer'.buffer = NULL
      /\ free' = free \cup ({transfer.buffer} \ {NULL})
      /\ transfer.buffer \in Blocks \cup {NULL}
      /\ UNCHANGED <<status, queue, process, meant, carries, leaked>>
  BY DEF TransferReleases, TransferNext, TransferFrom, ControlInv, ControlType, net, history
<1>2. /\ \A d \in Conns : Count(d)' = Count(d)
      /\ \A d \in Conns : \A k \in 1 .. Count(d) : Held(d, k)' = Held(d, k)
  BY <1>1, SkipKept DEF Skip
<1>3. HeldInv' /\ MeantInv' /\ \A b \in Blocks : Queued(b)' <=> Queued(b)
  BY <1>1, <1>2, HeldKept
<1>4. RingInv'
  BY <1>1 DEF RingInv, Front, LengthOf
<1>5. ASSUME NEW b \in Blocks PROVE Claimed(b)'
  <2>1. b # NULL /\ Claimed(b)
    BY SessionAssumption
  <2>2. CASE b = transfer.buffer
    <3>1. Claim("buffer", b)
      BY <2>2 DEF Claim
    <3>2. \A y \in Kinds : Claim(y, b) <=> y = "buffer"
      BY <2>1, <3>1, OneClaim DEF Kinds
    <3>3. \A y \in Kinds : Claim(y, b)' <=> y = "free"
      BY <1>1, <1>3, <2>1, <2>2, <3>2 DEF Claim, Kinds, Front
    <3> QED
      BY <3>3 DEF Claimed, Kinds
  <2>3. CASE b # transfer.buffer
    <3>1. \A y \in Kinds : Claim(y, b)' <=> Claim(y, b)
      BY <1>1, <1>3, <2>1, <2>3 DEF Claim, Front
    <3> QED
      BY <2>1, <3>1 DEF Claimed
  <2> QED
    BY <2>2, <2>3
<1>6. DataType' /\ CopiedInv'
  BY <1>1 DEF DataType, CopiedInv
<1> QED
  BY <1>3, <1>4, <1>5, <1>6

-----------------------------------------------------------------------------
(* The steps of the command processing task on a queue.                    *)

\* The oldest packet is taken; its block stays in the ring until it is
\* counted out.
LEMMA TakesData ==
  ASSUME ControlInv, ControlInv', DataInv, misused = {}, ProcessTakes
  PROVE  DataInv'
<1> USE DEF DataInv
<1>1. PICK c \in Conns : c = Session[process.i] /\ queue[c] \in Ring
  <2>1. Session[process.i] \in Conns
    BY SessionAssumption DEF ProcessTakes, ControlInv, ControlType, ProcessInv
  <2> QED
    BY <2>1 DEF ControlInv, ControlType
<1>2. /\ process.pc = "take" /\ ~isEmpityQueue(queue[c])
      /\ process'.pc = "free" /\ process'.conn = c
      /\ meant' = [meant EXCEPT ![c] = Tail(meant[c])]
      /\ UNCHANGED <<status, queue, free, transfer, carries, leaked>>
  BY <1>1 DEF ProcessTakes, net, history
<1>3. /\ \A d \in Conns : Skip(d) = 0 /\ Skip(d)' = IF d = c THEN 1 ELSE 0
      /\ \A d \in Conns : Count(d) = LengthOf(queue[d]) /\ Count(d) \in 0 .. MaxPointNumInQueue - 1
  <2>1. \A d \in Conns : Skip(d) = 0 /\ Skip(d)' = IF d = c THEN 1 ELSE 0
    BY <1>2 DEF Skip
  <2> QED
    BY <2>1, CountIs DEF Count
<1>4. Count(c) > 0
  BY <1>1, <1>2, <1>3, LengthIs
<1>5. \A d \in Conns : Count(d)' = IF d = c THEN Count(d) - 1 ELSE Count(d)
  BY <1>2, <1>3, QueueAssumption DEF Count
<1>6. \A d \in Conns : \A k \in 1 .. Count(d)' : Held(d, k)' = IF d = c THEN Held(d, k + 1) ELSE Held(d, k)
  <2> TAKE d \in Conns
  <2> TAKE k \in 1 .. Count(d)'
  <2>1. CASE d = c
    <3>1. k - 1 + 1 = k + 1 - 1 + 0
      BY <1>3, <1>5, QueueAssumption
    <3> QED
      BY <1>2, <1>3, <2>1, <3>1 DEF Held
  <2>2. CASE d # c
    BY <1>2, <1>3, <2>2 DEF Held
  <2> QED
    BY <2>1, <2>2
<1>7. PICK f \in Blocks : f = Held(c, 1) /\ f = Front(c)
  <2>1. Held(c, 1) \in Blocks
    BY <1>3, <1>4 DEF HeldInv
  <2>2. Held(c, 1) = Front(c)
    BY <1>1, <1>3, SpotIs, QueueAssumption DEF Held, Front
  <2> QED
    BY <2>1, <2>2
<1>8. \A d \in Conns : \A k \in 1 .. Count(d)' :
        /\ d = c => k + 1 \in 1 .. Count(d)
        /\ d # c => k \in 1 .. Count(d)
  BY <1>3, <1>5, QueueAssumption
<1>9. HeldInv'
  <2>1. \A d \in Conns : \A k \in 1 .. Count(d)' : Held(d, k)' \in Blocks
    BY <1>6, <1>8 DEF HeldInv
  <2>2. ASSUME NEW d \in Conns, NEW e \in Conns, NEW k \in 1 .. Count(d)', NEW l \in 1 .. Count(e)',
               Held(d, k)' = Held(e, l)'
        PROVE  d = e /\ k = l
    <3>1. CASE d = c /\ e = c
      <4>1. k + 1 = l + 1
        BY <1>6, <1>8, <2>2, <3>1 DEF HeldInv
      <4>2. k \in Int /\ l \in Int
        BY <1>3, <1>5, QueueAssumption
      <4> QED
        BY <3>1, <4>1, <4>2
    <3>2. CASE ~(d = c /\ e = c)
      BY <1>6, <1>8, <2>2, <3>2 DEF HeldInv
    <3> QED
      BY <3>1, <3>2
  <2> QED
    BY <2>1, <2>2 DEF HeldInv
<1>10. MeantInv'
  <2>1. /\ meant[c] \in Seq(Packets) /\ Len(meant[c]) = Count(c) /\ meant[c] # <<>>
    BY <1>3, <1>4 DEF DataType, MeantInv
  <2>2. /\ Len(Tail(meant[c])) = Count(c) - 1
        /\ \A k \in 1 .. Count(c) - 1 : Tail(meant[c])[k] = meant[c][k + 1]
    BY <1>3, <2>1, HeadTailProperties
  <2>3. \A d \in Conns : meant'[d] = IF d = c THEN Tail(meant[c]) ELSE meant[d]
    BY <1>2 DEF DataType
  <2>4. \A d \in Conns : Len(meant'[d]) = Count(d)'
    BY <1>5, <2>2, <2>3 DEF MeantInv
  <2>5. ASSUME NEW d \in Conns, NEW k \in 1 .. Count(d)' PROVE meant'[d][k] = carries'[Held(d, k)']
    <3>1. CASE d = c
      <4>1. k \in 1 .. Count(c) - 1 /\ k + 1 \in 1 .. Count(c)
        BY <1>5, <1>8, <3>1
      <4>2. meant'[d][k] = meant[c][k + 1] /\ Held(d, k)' = Held(c, k + 1)
        BY <1>6, <2>2, <2>3, <3>1, <4>1
      <4> QED
        BY <1>2, <4>1, <4>2 DEF MeantInv
    <3>2. CASE d # c
      BY <1>2, <1>6, <1>8, <2>3, <3>2 DEF MeantInv
    <3> QED
      BY <3>1, <3>2
  <2> QED
    BY <2>4, <2>5 DEF MeantInv
<1>11. \A b \in Blocks : Queued(b)' <=> Queued(b) /\ b # f
  <2> TAKE b \in Blocks
  <2>1. ASSUME Queued(b)' PROVE Queued(b) /\ b # f
    <3> PICK d \in Conns : \E k \in 1 .. Count(d)' : Held(d, k)' = b
      BY <2>1 DEF Queued
    <3>1. PICK k \in 1 .. Count(d)' : Held(d, k)' = b
      OBVIOUS
    <3>2. 1 \in 1 .. Count(c) /\ Held(c, 1) = f
      BY <1>3, <1>4, <1>7
    <3>3. CASE d = c
      <4>1. k + 1 \in 1 .. Count(c) /\ Held(c, k + 1) = b /\ k \in Nat \ {0}
        BY <1>6, <1>8, <3>1, <3>3
      <4>2. b # f
        BY <3>2, <4>1 DEF HeldInv
      <4> QED
        BY <4>1, <4>2 DEF Queued
    <3>4. CASE d # c
      <4>1. k \in 1 .. Count(d) /\ Held(d, k) = b
        BY <1>6, <1>8, <3>1, <3>4
      <4>2. b # f
        BY <3>2, <3>4, <4>1 DEF HeldInv
      <4> QED
        BY <4>1, <4>2 DEF Queued
    <3> QED
      BY <3>3, <3>4
  <2>2. ASSUME Queued(b), b # f PROVE Queued(b)'
    <3> PICK d \in Conns : \E k \in 1 .. Count(d) : Held(d, k) = b
      BY <2>2 DEF Queued
    <3>1. PICK k \in 1 .. Count(d) : Held(d, k) = b
      OBVIOUS
    <3>2. CASE d = c
      <4>1. k # 1 /\ k - 1 \in 1 .. Count(c)' /\ (k - 1) + 1 = k
        BY <1>3, <1>5, <1>7, <2>2, <3>1, <3>2
      <4>2. Held(c, k - 1)' = b
        BY <1>6, <3>1, <3>2, <4>1
      <4> QED
        BY <4>1, <4>2 DEF Queued
    <3>3. CASE d # c
      <4>1. k \in 1 .. Count(d)' /\ Held(d, k)' = b
        BY <1>5, <1>6, <3>1, <3>3
      <4> QED
        BY <4>1 DEF Queued
    <3> QED
      BY <3>2, <3>3
  <2> QED
    BY <2>1, <2>2
<1>12. ASSUME NEW b \in Blocks PROVE Claimed(b)'
  <2>1. Claimed(b)
    OBVIOUS
  <2>2. CASE b = f
    <3>1. Queued(b)
      BY <1>3, <1>4, <1>7, <2>2 DEF Queued
    <3>2. \A y \in Kinds : Claim(y, b) <=> y = "queue"
      BY <2>1, <3>1, OneClaim DEF Kinds, Claim
    <3>3. \A y \in Kinds : Claim(y, b)' <=> y = "deQueue"
      BY <1>2, <1>7, <1>11, <2>2, <3>2 DEF Claim, Kinds, Front, Rear
    <3> QED
      BY <3>3 DEF Claimed, Kinds
  <2>3. CASE b # f
    <3>1. \A y \in Kinds : Claim(y, b)' <=> Claim(y, b)
      BY <1>2, <1>7, <1>11, <2>3 DEF Claim, Front, Rear
    <3> QED
      BY <2>1, <3>1 DEF Claimed
  <2> QED
    BY <2>2, <2>3
<1>13. RingInv'
  <2>1. LengthOf(queue[c]) > 0
    BY <1>3, <1>4
  <2> QED
    BY <1>2, <1>7, <2>1 DEF RingInv, Front, Rear, LengthOf
<1>14. DataType'
  <2>1. Tail(meant[c]) \in Seq(Packets)
    <3>1. meant[c] \in Seq(Packets) /\ meant[c] # <<>>
      BY <1>3, <1>4 DEF DataType, MeantInv
    <3> QED
      BY <3>1, HeadTailProperties
  <2> QED
    BY <1>2, <2>1 DEF DataType
<1>15. CopiedInv'
  BY <1>2 DEF CopiedInv, Rear
<1> QED
  BY <1>9, <1>10, <1>12, <1>13, <1>14, <1>15

\* The block of the packet taken is freed: no queue holds it any more.
LEMMA FreesData ==
  ASSUME ControlInv, DataInv, misused = {}, ProcessFrees
  PROVE  DataInv'
<1> USE DEF DataInv
<1>1. PICK c \in Conns : c = process.conn
  BY DEF ProcessFrees, ControlInv, ProcessInv
<1>2. PICK f \in Blocks : f = Front(c)
  BY <1>1 DEF ProcessFrees, RingInv
<1>3. /\ process.pc = "free" /\ process'.pc = "pop" /\ process'.conn = c
      /\ free' = free \cup {f}
      /\ carries' = [carries EXCEPT ![f] = Blank]
      /\ UNCHANGED <<status, queue, transfer, meant, leaked>>
  BY <1>1, <1>2 DEF ProcessFrees, ProcessAt, Front, ControlInv, ControlType, net, history
<1>4. \A y \in Kinds : Claim(y, f) <=> y = "deQueue"
  <2>1. Claim("deQueue", f)
    BY <1>1, <1>2, <1>3 DEF Claim
  <2> QED
    BY <2>1, OneClaim DEF Kinds
<1>5. /\ \A d \in Conns : Count(d)' = Count(d)
      /\ \A d \in Conns : \A k \in 1 .. Count(d) : Held(d, k)' = Held(d, k)
  BY <1>1, <1>3, SkipKept DEF Skip
<1>6. HeldInv' /\ \A b \in Blocks : Queued(b)' <=> Queued(b)
  BY <1>5, HeldKept
<1>7. MeantInv'
  <2>1. ASSUME NEW d \in Conns, NEW k \in 1 .. Count(d) PROVE Held(d, k) \in Blocks \ {f}
    <3>1. Held(d, k) \in Blocks /\ Queued(Held(d, k))
      BY DEF HeldInv, Queued
    <3>2. ~Queued(f)
      BY <1>4 DEF Claim, Kinds
    <3> QED
      BY <3>1, <3>2
  <2>2. \A d \in Conns : \A k \in 1 .. Count(d) : carries'[Held(d, k)'] = carries[Held(d, k)]
    BY <1>3, <1>5, <2>1 DEF DataType
  <2> QED
    BY <1>3, <1>5, <2>2 DEF MeantInv
<1>8. RingInv'
  BY <1>1, <1>2, <1>3 DEF RingInv, Front, Rear, LengthOf
<1>9. ASSUME NEW b \in Blocks PROVE Claimed(b)'
  <2>1. CASE b = f
    <3>1. \A y \in Kinds : Claim(y, b)' <=> y = "free"
      BY <1>3, <1>4, <1>6, <2>1 DEF Claim, Kinds, Rear
    <3> QED
      BY <3>1 DEF Claimed, Kinds
  <2>2. CASE b # f
    <3>1. \A y \in Kinds : Claim(y, b)' <=> Claim(y, b)
      BY <1>1, <1>2, <1>3, <1>6, <2>2 DEF Claim, Rear
    <3> QED
      BY <3>1 DEF Claimed
  <2> QED
    BY <2>1, <2>2
<1>10. CopiedInv'
  <2> SUFFICES ASSUME transfer.pc = "push" PROVE (carries[Rear(transfer.conn)] = transfer.packet)'
    BY <1>3 DEF CopiedInv
  <2>1. Rear(transfer.conn) \in Blocks /\ carries[Rear(transfer.conn)] = transfer.packet
    BY DEF RingInv, CopiedInv
  <2>2. Rear(transfer.conn) # f
    BY <1>4, <2>1 DEF Claim, Kinds
  <2> QED
    BY <1>3, <2>1, <2>2 DEF DataType, Rear
<1>11. DataType'
  BY <1>3 DEF DataType
<1> QED
  BY <1>6, <1>7, <1>8, <1>9, <1>10, <1>11

\* Counting the packet out moves nothing.
LEMMA PopsData ==
  ASSUME ControlInv, ControlInv', DataInv, misused = {}, ProcessPops
  PROVE  DataInv'
<1> USE DEF DataInv
<1>1. PICK c \in Conns : c = process.conn /\ queue[c] \in Ring
  BY DEF ProcessPops, ControlInv, ControlType, ProcessInv
<1>2. /\ process.pc = "pop" /\ process'.pc = "execute"
      /\ queue' = [queue EXCEPT ![c] = Popped(queue[c])]
      /\ UNCHANGED <<status, free, transfer, meant, carries, leaked>>
  BY <1>1 DEF ProcessPops, ProcessAt, ControlInv, ControlType, net, history
<1>3. /\ \A d \in Conns \ {c} : queue'[d] = queue[d]
      /\ queue'[c] = Popped(queue[c])
  BY <1>2 DEF ControlInv, ControlType
<1>4. LengthOf(queue[c]) > 0
  BY <1>1, <1>2 DEF RingInv
<1>5. /\ queue'[c].pBase = queue[c].pBase /\ queue'[c].rear = queue[c].rear
      /\ LengthOf(queue'[c]) = LengthOf(queue[c]) - 1
      /\ \A d \in 0 .. MaxPointNumInQueue - 2 : Spot(queue'[c], d) = Spot(queue[c], d + 1)
  BY <1>1, <1>3, <1>4, PoppedIs
<1>6. \A d \in Conns : Skip(d) = (IF d = c THEN 1 ELSE 0) /\ Skip(d)' = 0
  BY <1>1, <1>2 DEF Skip
<1>7. \A d \in Conns : Count(d)' = Count(d)
  BY <1>3, <1>5, <1>6, CountIs, QueueAssumption DEF Count
<1>8. ASSUME NEW d \in Conns, NEW k \in 1 .. Count(d) PROVE Held(d, k)' = Held(d, k)
  <2>1. CASE d = c
    <3>1. k - 1 + 1 \in 0 .. MaxPointNumInQueue - 1
      BY <1>6, <2>1, HeldAt
    <3>2. k - 1 \in 0 .. MaxPointNumInQueue - 2 /\ k - 1 + 0 = k - 1
      BY <3>1, QueueAssumption
    <3> QED
      BY <1>5, <1>6, <2>1, <3>2 DEF Held
  <2>2. CASE d # c
    BY <1>3, <1>6, <2>2 DEF Held
  <2> QED
    BY <2>1, <2>2
<1>9. HeldInv' /\ MeantInv' /\ \A b \in Blocks : Queued(b)' <=> Queued(b)
  BY <1>2, <1>7, <1>8, HeldKept
<1>10. transfer.pc \in {"copy", "push"} =>
         /\ Rear(transfer.conn)' = Rear(transfer.conn)
         /\ LengthOf(queue[transfer.conn])' <= LengthOf(queue[transfer.conn])
  <2> SUFFICES ASSUME transfer.pc \in {"copy", "push"}
               PROVE  /\ Rear(transfer.conn)' = Rear(transfer.conn)
                      /\ LengthOf(queue[transfer.conn])' <= LengthOf(queue[transfer.conn])
    OBVIOUS
  <2>1. transfer.conn \in Conns /\ LengthOf(queue[transfer.conn]) \in 0 .. MaxPointNumInQueue - 1
    BY CountIs DEF ControlInv, TransferInv
  <2>2. LengthOf(queue[c]) \in 0 .. MaxPointNumInQueue - 1
    BY CountIs
  <2> QED
    BY <1>2, <1>3, <1>5, <2>1, <2>2, QueueAssumption DEF Rear
<1>11. RingInv'
  <2>1. \A d \in Conns : status'[d] # "open" => queue'[d].front = queue'[d].rear
    <3>1. status[c] = "open"
      BY <1>1, <1>2 DEF ControlInv, ProcessInv
    <3> QED
      BY <1>2, <1>3, <3>1 DEF RingInv
  <2>2. transfer'.pc = "push" => LengthOf(queue[transfer.conn])' < MaxPointNumInQueue - 1
    <3> SUFFICES ASSUME transfer.pc = "push"
                 PROVE  LengthOf(queue[transfer.conn])' < MaxPointNumInQueue - 1
      BY <1>2
    <3>1. transfer.conn \in Conns /\ LengthOf(queue[transfer.conn]) \in 0 .. MaxPointNumInQueue - 1
      BY CountIs DEF ControlInv, TransferInv
    <3>2. LengthOf(queue[transfer.conn])' \in 0 .. MaxPointNumInQueue - 1
      BY <1>2, <3>1, LengthIs DEF ControlInv, ControlType
    <3> QED
      BY <1>10, <3>1, <3>2, QueueAssumption DEF RingInv
  <2> QED
    BY <1>2, <1>10, <2>1, <2>2 DEF RingInv
<1>12. ASSUME NEW b \in Blocks PROVE Claimed(b)'
  <2>1. \A y \in Kinds : Claim(y, b)' <=> Claim(y, b)
    BY <1>2, <1>9, <1>10 DEF Claim
  <2> QED
    BY <2>1 DEF Claimed
<1>13. DataType' /\ CopiedInv'
  BY <1>2, <1>10 DEF DataType, CopiedInv
<1> QED
  BY <1>9, <1>11, <1>12, <1>13

-----------------------------------------------------------------------------
(* Every step.                                                             *)

LEMMA TransferData ==
  ASSUME ControlInv, ControlInv', DataInv, misused = {}, TransferStep PROVE DataInv'
<1>1. ASSUME NEW b \in Blocks \cup {NULL}, TransferReceives(b) \/ TransferStores(b) PROVE DataInv'
  BY <1>1, ReceivesData, StoresData
<1> QED
  BY <1>1, QuietTaskData, CopiesData, PushesData, ReleasesData DEF TransferStep

LEMMA ProcessData ==
  ASSUME ControlInv, ControlInv', DataInv, misused = {}, ProcessStep PROVE DataInv'
  BY QuietTaskData, TakesData, FreesData, PopsData DEF ProcessStep

LEMMA NextInv == ControlInv /\ DataInv /\ [Next]_vars => ControlInv' /\ DataInv'
<1> SUFFICES ASSUME ControlInv, DataInv, [Next]_vars PROVE ControlInv' /\ DataInv'
  OBVIOUS
<1>1. CASE misused = {} /\ ClientStep
  BY <1>1, ClientControl, ClientData
<1>2. CASE misused = {} /\ ServerStep
  BY <1>2, ServerControl, ServerData
<1>3. CASE misused = {} /\ TransferStep
  BY <1>3, TransferControl, TransferData
<1>4. CASE misused = {} /\ ProcessStep
  <2>1. ControlInv'
    BY <1>4, ProcessControl DEF DataInv, RingInv
  <2> QED
    BY <1>4, <2>1, ProcessData
<1>5. CASE UNCHANGED vars
  <2> USE <1>5 DEF vars, net, table, history
  <2>1. ControlInv'
    BY DEF ControlInv, ControlType, TableInv, ServerInv, TransferInv, ProcessInv
  <2>2. CASE misused = {}
    <3>1. transfer.pc \in {"delay", "loop", "call", "receive"} => transfer.buffer = NULL
      BY <2>2 DEF DataInv, RingInv
    <3>2. \A c \in Conns : status'[c] # "open" => queue[c].front = queue[c].rear
      BY <2>2 DEF DataInv, RingInv
    <3> QED
      BY <2>1, <2>2, <3>1, <3>2, QuietData
  <2>3. CASE misused # {}
    BY <2>1, <2>3 DEF DataInv, DataType
  <2> QED
    BY <2>2, <2>3
<1> QED
  BY <1>1, <1>2, <1>3, <1>4, <1>5 DEF Next, Undefined

-----------------------------------------------------------------------------
(* What the invariants say of the properties.                              *)

LEMMA WaitingIs ==
  ASSUME ControlInv, RingInv, NEW c \in Conns
  PROVE  /\ Waiting(c) = [k \in 1 .. Count(c) |-> Held(c, k)]
         /\ Count(c) \in 0 .. MaxPointNumInQueue - 1
<1>1. /\ queue[c] \in Ring /\ Skip(c) \in {0, 1}
      /\ Count(c) \in 0 .. MaxPointNumInQueue - 1
      /\ LengthOf(queue[c]) = Count(c) + Skip(c)
  BY CountIs
<1>2. /\ Items(queue[c]) = [k \in 1 .. LengthOf(queue[c]) |-> queue[c].pBase[Spot(queue[c], k - 1)]]
      /\ Items(queue[c]) \in Seq(Blocks \cup {NULL})
      /\ Len(Items(queue[c])) = LengthOf(queue[c])
  BY <1>1, ItemsAre
<1>3. CASE Skip(c) = 0
  <2>1. Waiting(c) = Items(queue[c])
    BY <1>3 DEF Waiting, Skip
  <2>2. \A k \in 1 .. Count(c) : Held(c, k) = queue[c].pBase[Spot(queue[c], k - 1)]
    BY <1>1, <1>3, QueueAssumption DEF Held
  <2>3. LengthOf(queue[c]) = Count(c)
    BY <1>1, <1>3, QueueAssumption
  <2> QED
    BY <1>1, <1>2, <2>1, <2>2, <2>3
<1>4. CASE Skip(c) = 1
  <2>1. PICK s \in Seq(Blocks \cup {NULL}) : s = Items(queue[c])
    BY <1>2
  <2>2. Waiting(c) = Tail(s)
    BY <1>4, <2>1 DEF Waiting, Skip
  <2>3. LengthOf(queue[c]) = Count(c) + 1 /\ Len(s) = Count(c) + 1 /\ s # <<>>
    BY <1>1, <1>2, <1>4, <2>1, QueueAssumption
  <2>4. /\ Tail(s) \in Seq(Blocks \cup {NULL})
        /\ Len(Tail(s)) = Len(s) - 1
        /\ \A k \in 1 .. Len(Tail(s)) : Tail(s)[k] = s[k + 1]
    BY <2>3, HeadTailProperties
  <2>5. Len(Tail(s)) = Count(c)
    BY <1>1, <2>3, <2>4, QueueAssumption
  <2>6. \A k \in 1 .. Count(c) : s[k + 1] = Held(c, k)
    <3> TAKE k \in 1 .. Count(c)
    <3>1. k + 1 \in 1 .. LengthOf(queue[c]) /\ k + 1 - 1 = k - 1 + 1
      BY <1>1, <2>3, QueueAssumption
    <3> QED
      BY <1>2, <1>4, <2>1, <3>1 DEF Held
  <2>7. PICK t \in Seq(Blocks \cup {NULL}) : t = Tail(s)
    BY <2>4
  <2>8. Len(t) = Count(c) /\ \A k \in 1 .. Count(c) : t[k] = Held(c, k)
    BY <2>4, <2>5, <2>6, <2>7
  <2>9. t = [k \in 1 .. Count(c) |-> Held(c, k)]
    BY <2>8
  <2> QED
    BY <1>1, <2>2, <2>7, <2>9
<1> QED
  BY <1>1, <1>3, <1>4

LEMMA OneOfOwners ==
  ASSUME ControlInv, DataInv, misused = {}, NEW b \in Blocks
  PROVE  Cardinality(Owners(b)) = 1
<1>1. RingInv /\ HeldInv /\ Claimed(b)
  BY DEF DataInv
<1> DEFINE Places == {x \in Conns \X (1 .. MaxPointNumInQueue) :
                        x[2] \in DOMAIN Waiting(x[1]) /\ Waiting(x[1])[x[2]] = b}
<1>2. \A c \in Conns : \A k \in 1 .. MaxPointNumInQueue :
        <<c, k>> \in Places <=> k \in 1 .. Count(c) /\ Held(c, k) = b
  <2> TAKE c \in Conns
  <2> TAKE k \in 1 .. MaxPointNumInQueue
  <2>1. Waiting(c) = [l \in 1 .. Count(c) |-> Held(c, l)]
    BY <1>1, WaitingIs
  <2> QED
    BY <2>1
<1>3. Owners(b) = Places \cup {x \in Kinds \ {"queue"} : Claim(x, b)}
  <2> HIDE DEF Places
  <2>1. Owners(b) = Places
          \cup {x \in {"free"} : b \in free}
          \cup {x \in {"lost"} : b \in leaked}
          \cup {x \in {"buffer"} : b = transfer.buffer}
          \cup {x \in {"enQueue"} : transfer.pc \in {"copy", "push"} /\ b = Rear(transfer.conn)}
          \cup {x \in {"deQueue"} : process.pc = "free" /\ b = Front(process.conn)}
    BY DEF Owners, Rear, Front, Places
  <2> QED
    BY <2>1 DEF Kinds, Claim
<1>4. PICK x \in Kinds : \A y \in Kinds : Claim(y, b) <=> y = x
  BY <1>1 DEF Claimed
<1>5. CASE x = "queue"
  <2>1. PICK c \in Conns : \E k \in 1 .. Count(c) : Held(c, k) = b
    BY <1>4, <1>5 DEF Claim, Queued
  <2>2. PICK k \in 1 .. Count(c) : Held(c, k) = b
    BY <2>1
  <2>3. k \in 1 .. MaxPointNumInQueue
    BY <1>1, CountIs, QueueAssumption
  <2>4. <<c, k>> \in Places
    BY <1>2, <2>2, <2>3
  <2>5. \A p \in Places : p = <<c, k>>
    <3> TAKE p \in Places
    <3>1. PICK d \in Conns : \E l \in 1 .. MaxPointNumInQueue : p = <<d, l>>
      OBVIOUS
    <3>2. PICK l \in 1 .. MaxPointNumInQueue : p = <<d, l>>
      BY <3>1
    <3>3. l \in 1 .. Count(d) /\ Held(d, l) = b
      BY <1>2, <3>2
    <3> QED
      BY <1>1, <2>2, <3>2, <3>3 DEF HeldInv
  <2>6. \A y \in Kinds \ {"queue"} : ~Claim(y, b)
    BY <1>4, <1>5
  <2>7. Owners(b) = {<<c, k>>}
    <3> HIDE DEF Places
    <3> QED
      BY <1>3, <2>4, <2>5, <2>6
  <2> QED
    BY <2>7, FS_Singleton
<1>6. CASE x # "queue"
  <2>1. ~Queued(b)
    BY <1>4, <1>6 DEF Claim, Kinds
  <2>2. Places = {}
    <3> SUFFICES ASSUME NEW p \in Places PROVE FALSE
      OBVIOUS
    <3>1. PICK d \in Conns : \E l \in 1 .. MaxPointNumInQueue : p = <<d, l>>
      OBVIOUS
    <3>2. PICK l \in 1 .. MaxPointNumInQueue : p = <<d, l>>
      BY <3>1
    <3> QED
      BY <1>2, <2>1, <3>2 DEF Queued
  <2>3. Owners(b) = {x}
    <3> HIDE DEF Places
    <3> QED
      BY <1>3, <1>4, <1>6, <2>2
  <2> QED
    BY <2>3, FS_Singleton
<1> QED
  BY <1>5, <1>6

-----------------------------------------------------------------------------

LEMMA InvariantsHold == Spec => [](ControlInv /\ DataInv)
<1>1. Init => ControlInv /\ DataInv
  BY InitControl, InitData
<1> QED
  BY <1>1, NextInv, PTL DEF Spec

\* Every variable keeps its type: no step of a task names an entry that was
\* never in use, counts past the table or the ring, or works on no connection.
THEOREM TypeCorrect == Spec => []TypeOK
<1>1. ControlInv /\ DataInv => TypeOK
  BY DEF ControlInv, ControlType, DataInv, DataType, Ring, TypeOK
<1> QED
  BY <1>1, InvariantsHold, PTL

\* The session table (TcpPacketServer.c:124-134, 166-170) lists the open
\* connections, each once, for any number of clients and entries.
THEOREM TableCorrect == Spec => []SessionsMatchConnections
<1>1. ControlInv => SessionsMatchConnections
  BY DEF ControlInv, TableInv, SessionsMatchConnections
<1> QED
  BY <1>1, InvariantsHold, PTL

\* A ring of any size holds the packets put in and not taken, in their order,
\* whatever statements of enQueue and deQueue come between each other.
THEOREM QueuesCorrect == Spec => []QueuesHoldPackets
<1>1. ControlInv /\ DataInv => QueuesHoldPackets
  <2> SUFFICES ASSUME ControlInv, DataInv, misused = {}, NEW c \in Conns
               PROVE  meant[c] = [k \in 1 .. Len(Waiting(c)) |-> carries[Waiting(c)[k]]]
    BY DEF QueuesHoldPackets
  <2>1. Waiting(c) = [k \in 1 .. Count(c) |-> Held(c, k)] /\ Count(c) \in Nat
    BY WaitingIs, QueueAssumption DEF DataInv
  <2>2. Len(Waiting(c)) = Count(c)
    BY <2>1
  <2>3. /\ meant[c] \in Seq(Packets) /\ Len(meant[c]) = Count(c)
        /\ \A k \in 1 .. Count(c) : meant[c][k] = carries[Held(c, k)]
    BY DEF DataInv, DataType, MeantInv
  <2>4. meant[c] = [k \in 1 .. Count(c) |-> meant[c][k]]
    BY <2>3
  <2> QED
    BY <2>1, <2>2, <2>3, <2>4
<1> QED
  BY <1>1, InvariantsHold, PTL

\* Every block of the pool belongs to one: no allocation is given to two, no
\* block is freed while a queue holds it, and none is lost but by enQueue into
\* a full queue.
THEOREM OneOwner == Spec => []BlocksHaveOneOwner
<1>1. ControlInv /\ DataInv => BlocksHaveOneOwner
  BY OneOfOwners DEF BlocksHaveOneOwner
<1> QED
  BY <1>1, InvariantsHold, PTL
=============================================================================
