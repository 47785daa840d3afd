-------------------------- MODULE PacketSendProofs --------------------------
(***************************************************************************)
(* The loop of TCPSendPacket stays in the table, packets are freed once,   *)
(* connections open unless raced, and clients told, for any numbers.       *)
(***************************************************************************)
EXTENDS PacketSend, TLAPS

-----------------------------------------------------------------------------
(* The inductive invariant of the loop: the session table, and what holds  *)
(* of a task with the variables s, given the table S of n sessions.        *)

Sending == {"testing", "calling", "writing", "freeing"}

\* The sessions in use are open connections, each in the table once.
TableInv ==
  /\ \A k \in 0 .. ClientNum - 1 : Session[k] \in open
  /\ \A j, k \in 0 .. ClientNum - 1 : Session[j] = Session[k] => j = k

\* The loop stays in the table, and a packet that is written is one.  An entry
\* that was tested holds a connection, still in use if none was removed since.
LoopInv(s, S, n) ==
  /\ s.pc \notin Sending => s.packet = Null
  /\ s.pc \in {"calling", "writing", "freeing"} => s.i < MaxClients
  /\ s.pc = "calling" => S[s.i] \in Connections
  /\ s.pc = "calling" /\ ~s.raced => s.i < n
  /\ s.pc \in {"writing", "freeing"} =>
       s.conn \in Connections /\ s.packet \in Blocks /\ s.matched > 0 /\ s.matched <= s.i + 1
  /\ s.pc \notin {"writing", "freeing"} => s.matched <= s.i

SendInv ==
  /\ TypeOK
  /\ TableInv
  /\ \A t \in Tasks : LoopInv(sender[t], Session, ClientNum)

-----------------------------------------------------------------------------

LEMMA IdleType ==
  Idle \in Sender /\ Idle.pc = "delay" /\ LoopInv(Idle, Session, ClientNum)
BY SendAssumption DEF Idle, Sender, LoopInv, Sending

LEMMA InitInv == Init => SendInv
<1> SUFFICES ASSUME Init PROVE SendInv
  OBVIOUS
<1>1. TypeOK
  <2>1. /\ Session \in [Entries -> Connections \cup {Null}]
        /\ ClientNum \in 0 .. MaxClients /\ open \subseteq Connections
        /\ owner \in [Blocks -> {"free", "other", "lost"} \cup Tasks]
        /\ twoMatched \in BOOLEAN /\ misused \in BOOLEAN
    <3>1. Session \in [Entries -> Connections \cup {Null}]
      BY DEF Init
    <3>2. ClientNum \in 0 .. MaxClients /\ open \subseteq Connections
      BY SendAssumption DEF Init
    <3>3. owner \in [Blocks -> {"free", "other", "lost"} \cup Tasks]
      BY DEF Init
    <3>4. twoMatched \in BOOLEAN /\ misused \in BOOLEAN
      BY DEF Init
    <3> QED BY <3>1, <3>2, <3>3, <3>4
  <2>2. /\ sender \in [Tasks -> Sender]
        /\ \A t \in Tasks : sender[t].pc = "calling" => sender[t].i < MaxClients
    BY IdleType DEF Init
  <2> QED BY <2>1, <2>2 DEF TypeOK
<1>2. TableInv
  BY DEF Init, TableInv
<1>3. ASSUME NEW t \in Tasks PROVE LoopInv(sender[t], Session, ClientNum)
  BY IdleType DEF Init
<1> QED BY <1>1, <1>2, <1>3 DEF SendInv

\* A step of one task that leaves the table alone.
LEMMA TaskStep ==
  ASSUME SendInv, NEW t \in Tasks, NEW r \in Sender,
         sender' = [sender EXCEPT ![t] = r],
         LoopInv(r, Session, ClientNum),
         UNCHANGED <<Session, ClientNum>>,
         open' \subseteq open, \A k \in 0 .. ClientNum - 1 : Session[k] \in open',
         owner' \in [Blocks -> {"free", "other", "lost"} \cup Tasks],
         twoMatched' \in BOOLEAN, misused' \in BOOLEAN
  PROVE SendInv'
<1>1. \A u \in Tasks : sender'[u] = IF u = t THEN r ELSE sender[u]
  BY DEF SendInv, TypeOK
<1>2. TypeOK'
  <2>1. sender' \in [Tasks -> Sender]
    BY DEF SendInv, TypeOK
  <2>2. ASSUME NEW u \in Tasks, sender'[u].pc = "calling"
        PROVE sender'[u].i < MaxClients
    BY <1>1, <2>2 DEF SendInv, TypeOK, LoopInv
  <2> QED BY <2>1, <2>2 DEF SendInv, TypeOK
<1>3. TableInv'
  BY DEF SendInv, TableInv
<1>4. ASSUME NEW u \in Tasks PROVE LoopInv(sender'[u], Session', ClientNum')
  BY <1>1 DEF SendInv
<1> QED BY <1>2, <1>3, <1>4 DEF SendInv

LEMMA TestsInv == ASSUME SendInv, NEW t \in Tasks, Tests(t) PROVE SendInv'
<1> DEFINE s == sender[t]
           r == IF s.clientID = SessionID
                  THEN [s EXCEPT !.pc = "calling", !.raced = FALSE]
                  ELSE [s EXCEPT !.i = @ + 1]
<1>1. /\ s \in Sender /\ s.pc = "testing" /\ s.i < ClientNum
      /\ LoopInv(s, Session, ClientNum)
  BY DEF SendInv, TypeOK, Tests, At, MoreSessions
<1>2. ClientNum \in Nat /\ ClientNum <= MaxClients /\ MaxClients \in Nat
  BY SendAssumption DEF SendInv, TypeOK
<1>3. r \in Sender /\ LoopInv(r, Session, ClientNum)
  <2>1. CASE s.clientID = SessionID
    <3> DEFINE q == [s EXCEPT !.pc = "calling", !.raced = FALSE]
    <3>1. q \in Sender
      BY <1>1 DEF Sender
    <3>2. Session[s.i] \in Connections
      BY <1>1, <1>2 DEF SendInv, TypeOK, TableInv, Sender
    <3>3. /\ q.pc = "calling" /\ q.i = s.i /\ q.matched = s.matched
      BY <1>1 DEF Sender
    <3>4. LoopInv(q, Session, ClientNum)
      BY <1>1, <1>2, <3>2, <3>3 DEF LoopInv, Sender, Sending
    <3> QED BY <3>1, <3>4, <2>1
  <2>2. CASE s.clientID # SessionID
    <3> DEFINE q == [s EXCEPT !.i = @ + 1]
    <3>1. q \in Sender
      BY <1>1, <1>2 DEF Sender
    <3>3. /\ q.pc = "testing" /\ q.i = s.i + 1 /\ q.matched = s.matched
      BY <1>1 DEF Sender
    <3>4. LoopInv(q, Session, ClientNum)
      BY <1>1, <1>2, <3>3 DEF LoopInv, Sender, Sending
    <3> QED BY <3>1, <3>4, <2>2
  <2> QED BY <2>1, <2>2
<1>5. sender' = [sender EXCEPT ![t] = r] /\ UNCHANGED <<Session, ClientNum, open, owner, twoMatched, misused>>
  BY DEF Tests
<1>6. /\ open' \subseteq open /\ \A k \in 0 .. ClientNum - 1 : Session[k] \in open'
      /\ owner' \in [Blocks -> {"free", "other", "lost"} \cup Tasks]
      /\ twoMatched' \in BOOLEAN /\ misused' \in BOOLEAN
  BY <1>5 DEF SendInv, TypeOK, TableInv
<1> HIDE DEF r
<1> QED BY <1>3, <1>5, <1>6, TaskStep

\* What holds of the table and of a task in every proof below.
LEMMA Facts ==
  ASSUME SendInv, NEW t \in Tasks
  PROVE  /\ sender[t] \in Sender /\ LoopInv(sender[t], Session, ClientNum)
         /\ ClientNum \in Nat /\ ClientNum <= MaxClients /\ MaxClients \in Nat
         /\ open \subseteq Connections
         /\ \A k \in 0 .. ClientNum - 1 : Session[k] \in open
         /\ owner \in [Blocks -> {"free", "other", "lost"} \cup Tasks]
         /\ twoMatched \in BOOLEAN /\ misused \in BOOLEAN
BY SendAssumption DEF SendInv, TypeOK, TableInv

LEMMA CallsInv == ASSUME SendInv, NEW t \in Tasks, Calls(t) PROVE SendInv'
<1> DEFINE s == sender[t]
           c == Session[s.i]
<1>1. s \in Sender /\ s.pc = "calling" /\ LoopInv(s, Session, ClientNum)
  BY Facts DEF Calls, At
<1>2. /\ s.i \in Nat /\ s.i < MaxClients /\ MaxClients \in Nat /\ c \in Connections
      /\ s.matched \in Nat /\ s.matched <= s.i /\ s.packet \in Blocks \cup {Null}
  BY <1>1, Facts DEF LoopInv, Sender
<1>5. s.i + 1 \in 0 .. MaxClients /\ s.matched + 1 \in 0 .. MaxClients
  BY <1>2
<1>3. CASE s.packet = Null
  <2> DEFINE r == [s EXCEPT !.pc = "testing", !.i = @ + 1]
  <2>1. r \in Sender
    BY <1>1, <1>2, <1>5 DEF Sender
  <2>2. r.pc = "testing" /\ r.i = s.i + 1 /\ r.matched = s.matched
    BY <1>1 DEF Sender
  <2>3. LoopInv(r, Session, ClientNum)
    BY <1>2, <2>2 DEF LoopInv, Sending
  <2>4. /\ sender' = [sender EXCEPT ![t] = r]
        /\ UNCHANGED <<Session, ClientNum, open, owner, twoMatched, misused>>
    BY <1>3 DEF Calls
  <2> HIDE DEF r
  <2> QED BY <2>1, <2>3, <2>4, Facts, TaskStep
<1>4. CASE s.packet # Null
  <2> DEFINE r == [s EXCEPT !.pc = "writing", !.conn = c, !.matched = @ + 1]
  <2>1. r \in Sender
    BY <1>1, <1>2, <1>5 DEF Sender
  <2>2. /\ r.pc = "writing" /\ r.i = s.i /\ r.matched = s.matched + 1
        /\ r.conn = c /\ r.packet = s.packet
    BY <1>1 DEF Sender
  <2>3. LoopInv(r, Session, ClientNum)
    BY <1>2, <1>4, <2>2 DEF LoopInv, Sending
  <2>4. /\ sender' = [sender EXCEPT ![t] = r]
        /\ UNCHANGED <<Session, ClientNum, open, owner>>
        /\ twoMatched' \in BOOLEAN /\ misused' \in BOOLEAN
    BY <1>4, Facts DEF Calls
  <2> HIDE DEF r
  <2> QED BY <2>1, <2>3, <2>4, Facts, TaskStep
<1> QED BY <1>3, <1>4

LEMMA WriteEndsInv == ASSUME SendInv, NEW t \in Tasks, WriteEnds(t) PROVE SendInv'
<1> DEFINE s == sender[t]
<1>1. s \in Sender /\ s.pc = "writing" /\ LoopInv(s, Session, ClientNum)
  BY Facts DEF WriteEnds, At
<1>2. /\ s.i < MaxClients /\ s.conn \in Connections /\ s.packet \in Blocks
      /\ s.matched > 0 /\ s.matched <= s.i + 1
  BY <1>1 DEF LoopInv
<1>3. PICK ok \in BOOLEAN :
        sender' = [sender EXCEPT ![t] =
            IF ok THEN [s EXCEPT !.pc = "freeing", !.told = @ \cup {s.conn}]
            ELSE [s EXCEPT !.pc = "freeing", !.present = @ \ {s.conn}]]
  BY DEF WriteEnds
<1> DEFINE r == sender'[t]
<1>4. /\ r \in Sender /\ r.pc = "freeing" /\ r.i = s.i /\ r.conn = s.conn
      /\ r.packet = s.packet /\ r.matched = s.matched
      /\ sender' = [sender EXCEPT ![t] = r]
  <2>0. sender \in [Tasks -> Sender]
    BY DEF SendInv, TypeOK
  <2>1. CASE ok
    <3> DEFINE q == [s EXCEPT !.pc = "freeing", !.told = @ \cup {s.conn}]
    <3>1. /\ q \in Sender /\ q.pc = "freeing" /\ q.i = s.i /\ q.conn = s.conn
          /\ q.packet = s.packet /\ q.matched = s.matched
      BY <1>1, <1>2 DEF Sender
    <3>2. sender' = [sender EXCEPT ![t] = q]
      BY <1>3, <2>1
    <3> HIDE DEF q
    <3> QED BY <3>1, <3>2, <2>0
  <2>2. CASE ~ok
    <3> DEFINE q == [s EXCEPT !.pc = "freeing", !.present = @ \ {s.conn}]
    <3>1. /\ q \in Sender /\ q.pc = "freeing" /\ q.i = s.i /\ q.conn = s.conn
          /\ q.packet = s.packet /\ q.matched = s.matched
      BY <1>1, <1>2 DEF Sender
    <3>2. sender' = [sender EXCEPT ![t] = q]
      BY <1>3, <2>2
    <3> HIDE DEF q
    <3> QED BY <3>1, <3>2, <2>0
  <2> QED BY <2>1, <2>2
<1>5. LoopInv(r, Session, ClientNum)
  BY <1>2, <1>4 DEF LoopInv, Sending
<1>6. /\ UNCHANGED <<Session, ClientNum, owner, twoMatched, misused>>
      /\ open' \subseteq open /\ \A k \in 0 .. ClientNum - 1 : Session[k] \in open'
  BY Facts DEF WriteEnds, Table
<1> HIDE DEF r
<1> QED BY <1>4, <1>5, <1>6, Facts, TaskStep

LEMMA FreesInv == ASSUME SendInv, NEW t \in Tasks, Frees(t) PROVE SendInv'
<1> DEFINE s == sender[t]
           r == [s EXCEPT !.pc = "testing", !.i = @ + 1, !.conn = Null]
<1>1. s \in Sender /\ s.pc = "freeing" /\ LoopInv(s, Session, ClientNum)
  BY Facts DEF Frees, At
<1>2. /\ s.i \in Nat /\ s.i < MaxClients /\ MaxClients \in Nat
      /\ s.matched \in Nat /\ s.matched <= s.i + 1
  BY <1>1, Facts DEF LoopInv, Sender
<1>7. s.i + 1 \in 0 .. MaxClients
  BY <1>2
<1>3. r \in Sender
  BY <1>1, <1>7 DEF Sender
<1>4. r.pc = "testing" /\ r.i = s.i + 1 /\ r.matched = s.matched
  BY <1>1 DEF Sender
<1>5. LoopInv(r, Session, ClientNum)
  BY <1>2, <1>4 DEF LoopInv, Sending
<1>6. /\ sender' = [sender EXCEPT ![t] = r]
      /\ UNCHANGED <<Session, ClientNum, open, twoMatched, misused>>
      /\ owner' \in [Blocks -> {"free", "other", "lost"} \cup Tasks]
  BY Facts DEF Frees, OwnerAfter
<1> HIDE DEF r
<1> QED BY <1>3, <1>5, <1>6, Facts, TaskStep

LEMMA ReturnsInv == ASSUME SendInv, NEW t \in Tasks, Returns(t) PROVE SendInv'
<1> DEFINE s == sender[t]
           r == [Idle EXCEPT !.pc = "pass", !.left = s.left]
<1>1. s.left \in BOOLEAN
  BY Facts DEF Sender
<1>2. r \in Sender /\ r.pc = "pass" /\ r.packet = Null /\ r.matched = 0 /\ r.i = 0
  BY <1>1, IdleType DEF Sender, Idle
<1>3. LoopInv(r, Session, ClientNum)
  BY <1>2 DEF LoopInv, Sending
<1>4. /\ sender' = [sender EXCEPT ![t] = r]
      /\ UNCHANGED <<Session, ClientNum, open, twoMatched, misused>>
      /\ owner' \in [Blocks -> {"free", "other", "lost"} \cup Tasks]
  BY Facts DEF Returns, OwnerAtReturn
<1> HIDE DEF r
<1> QED BY <1>2, <1>3, <1>4, Facts, TaskStep

LEMMA StartPassInv == ASSUME SendInv, NEW t \in Tasks, StartPass(t) PROVE SendInv'
<1> DEFINE s == sender[t]
           r == [s EXCEPT !.pc = "pass"]
<1>1. s \in Sender /\ s.pc = "delay" /\ LoopInv(s, Session, ClientNum)
  BY Facts DEF StartPass, At
<1>2. /\ r \in Sender /\ r.pc = "pass" /\ r.packet = s.packet
      /\ r.matched = s.matched /\ r.i = s.i
  BY <1>1 DEF Sender
<1>3. LoopInv(r, Session, ClientNum)
  BY <1>1, <1>2 DEF LoopInv, Sending
<1>4. /\ sender' = [sender EXCEPT ![t] = r]
      /\ UNCHANGED <<Session, ClientNum, open, owner, twoMatched, misused>>
  BY DEF StartPass
<1> HIDE DEF r
<1> QED BY <1>2, <1>3, <1>4, Facts, TaskStep

LEMMA EndPassInv == ASSUME SendInv, NEW t \in Tasks, EndPass(t) PROVE SendInv'
<1>1. /\ sender' = [sender EXCEPT ![t] = Idle]
      /\ UNCHANGED <<Session, ClientNum, open, owner, twoMatched, misused>>
  BY DEF EndPass
<1> QED BY <1>1, IdleType, Facts, TaskStep

LEMMA BuildAndSendInv ==
  ASSUME SendInv, NEW t \in Tasks, NEW clientID \in {0, 1}, BuildAndSend(t, clientID)
  PROVE  SendInv'
<1>1. PICK b \in Blocks \cup {Null} :
        /\ Allocated(b, t)
        /\ sender' = [sender EXCEPT ![t] =
             [Idle EXCEPT !.pc = "testing", !.clientID = clientID, !.packet = b,
                          !.present = Table, !.left = sender[t].left]]
  BY DEF BuildAndSend
<1> DEFINE r == [Idle EXCEPT !.pc = "testing", !.clientID = clientID, !.packet = b,
                             !.present = Table, !.left = sender[t].left]
<1>2. Table \subseteq Connections
  BY Facts DEF Table
<1>3. sender[t].left \in BOOLEAN
  BY Facts DEF Sender
<1>4. r \in Sender /\ r.pc = "testing" /\ r.matched = 0 /\ r.i = 0
  BY <1>2, <1>3, IdleType DEF Sender, Idle
<1>5. LoopInv(r, Session, ClientNum)
  BY <1>4 DEF LoopInv, Sending
<1>6. /\ sender' = [sender EXCEPT ![t] = r]
      /\ UNCHANGED <<Session, ClientNum, open, twoMatched, misused>>
      /\ owner' \in [Blocks -> {"free", "other", "lost"} \cup Tasks]
  BY <1>1, Facts DEF BuildAndSend, Allocated
<1> HIDE DEF r
<1> QED BY <1>4, <1>5, <1>6, Facts, TaskStep

\* The blocks of the others, and the packets that go nowhere.
LEMMA BlocksInv ==
  ASSUME SendInv, UNCHANGED <<Session, ClientNum, open, sender, twoMatched, misused>>,
         owner' \in [Blocks -> {"free", "other", "lost"} \cup Tasks]
  PROVE  SendInv'
<1>1. TypeOK' /\ TableInv'
  BY DEF SendInv, TypeOK, TableInv
<1> QED BY <1>1 DEF SendInv

LEMMA OthersInv == ASSUME SendInv, OthersAllocate \/ OthersFree PROVE SendInv'
<1>1. owner' \in [Blocks -> {"free", "other", "lost"} \cup Tasks]
  BY DEF SendInv, TypeOK, OthersAllocate, OthersFree
<1> QED BY <1>1, BlocksInv DEF OthersAllocate, OthersFree

LEMMA TrPushesOutInv == ASSUME SendInv, TrPushesOut PROVE SendInv'
<1>1. owner' \in [Blocks -> {"free", "other", "lost"} \cup Tasks]
  BY DEF SendInv, TypeOK, TrPushesOut, Allocated
<1> QED BY <1>1, BlocksInv DEF TrPushesOut

LEMMA ServerAddsInv == ASSUME SendInv, ServerAdds PROVE SendInv'
<1>1. PICK c \in Connections \ UsedConnections :
        Session' = [Session EXCEPT ![ClientNum] = c] /\ open' = open \cup {c}
  BY DEF ServerAdds
<1>2. /\ ClientNum \in Nat /\ ClientNum < MaxClients /\ MaxClients \in Nat
      /\ ClientNum' = ClientNum + 1 /\ UNCHANGED <<owner, sender, twoMatched, misused>>
      /\ c \in Connections /\ c \notin open
  BY <1>1, SendAssumption DEF ServerAdds, SendInv, TypeOK, UsedConnections
<1>3. \A k \in Entries : Session'[k] = IF k = ClientNum THEN c ELSE Session[k]
  BY <1>1 DEF SendInv, TypeOK
<1>4. TypeOK'
  <2>1. Session' \in [Entries -> Connections \cup {Null}]
    BY <1>1 DEF SendInv, TypeOK
  <2>2. ClientNum' \in 0 .. MaxClients
    BY <1>2
  <2> QED BY <1>1, <1>2, <2>1, <2>2 DEF SendInv, TypeOK
<1>5. TableInv'
  <2>1. \A k \in 0 .. ClientNum' - 1 :
          /\ k \in Entries
          /\ k = ClientNum \/ k \in 0 .. ClientNum - 1
    BY <1>2 DEF Entries
  <2>2. \A k \in 0 .. ClientNum' - 1 : Session'[k] \in open'
    BY <1>1, <1>3, <2>1 DEF SendInv, TableInv
  <2>3. ASSUME NEW j \in 0 .. ClientNum' - 1, NEW k \in 0 .. ClientNum' - 1,
               Session'[j] = Session'[k]
        PROVE  j = k
    BY <1>2, <1>3, <2>1, <2>3 DEF SendInv, TableInv
  <2> QED BY <2>2, <2>3 DEF TableInv
<1>6. ASSUME NEW u \in Tasks PROVE LoopInv(sender'[u], Session', ClientNum')
  <2>1. sender[u] \in Sender /\ LoopInv(sender[u], Session, ClientNum)
    BY Facts
  <2>2. sender[u].pc = "calling" => Session'[sender[u].i] \in Connections
    BY <1>2, <1>3, <2>1 DEF LoopInv, Sender, Entries
  <2>3. sender[u].i < ClientNum => sender[u].i < ClientNum'
    BY <1>2, <2>1 DEF Sender
  <2> QED BY <1>2, <2>1, <2>2, <2>3 DEF LoopInv
<1> QED BY <1>4, <1>5, <1>6 DEF SendInv

\* What the removal of session k leaves.
LEMMA Removal ==
  ASSUME SendInv, NEW k \in 0 .. ClientNum - 1, Session' = MovedUp(k)
  PROVE  /\ \A j \in Entries :
              Session'[j] = IF j >= k /\ j <= ClientNum - 2 THEN Session[j + 1] ELSE Session[j]
         /\ \A j \in 0 .. ClientNum - 1 : j \in Entries
         /\ Session' \in [Entries -> Connections \cup {Null}]
<1>1. /\ ClientNum \in Nat /\ ClientNum <= MaxClients /\ MaxClients \in Nat
      /\ Session \in [Entries -> Connections \cup {Null}]
  BY SendAssumption DEF SendInv, TypeOK
<1>2. \A j \in 0 .. ClientNum - 1 : j \in Entries
  BY <1>1 DEF Entries
<1>3. \A j \in Entries : j \in k .. ClientNum - 2 <=> j >= k /\ j <= ClientNum - 2
  BY <1>1 DEF Entries
<1>4. \A j \in k .. ClientNum - 2 : j + 1 \in Entries
  BY <1>1 DEF Entries
<1> QED BY <1>1, <1>2, <1>3, <1>4 DEF MovedUp

LEMMA ServerRemovesInv == ASSUME SendInv, ServerRemoves PROVE SendInv'
<1>1. PICK k \in 0 .. ClientNum - 1 :
        /\ Session' = MovedUp(k)
        /\ ClientNum' = ClientNum - 1
        /\ open' = open \/ open' = open \ {Session[k]}
        /\ sender' = [t \in Tasks |->
             IF sender[t].pc = "delay" THEN sender[t]
             ELSE [sender[t] EXCEPT !.left = TRUE, !.removed = TRUE, !.raced = TRUE,
                                    !.present = @ \ {Session[k]}]]
        /\ UNCHANGED <<owner, twoMatched, misused>>
  BY DEF ServerRemoves
<1>2. /\ ClientNum \in Nat /\ ClientNum <= MaxClients /\ MaxClients \in Nat
      /\ ClientNum' \in Nat /\ ClientNum' = ClientNum - 1 /\ k \in Nat /\ k < ClientNum
  <2>1. /\ ClientNum \in Nat /\ ClientNum <= MaxClients /\ MaxClients \in Nat
    BY SendAssumption DEF SendInv, TypeOK
  <2>2. ClientNum' = ClientNum - 1
    BY <1>1
  <2> QED BY <2>1, <2>2
<1>3. ASSUME NEW u \in Tasks
      PROVE  /\ sender'[u] \in Sender /\ sender'[u].pc = sender[u].pc
             /\ sender'[u].i = sender[u].i /\ sender'[u].conn = sender[u].conn
             /\ sender'[u].packet = sender[u].packet
             /\ sender'[u].matched = sender[u].matched
             /\ sender[u].pc # "delay" => sender'[u].raced
  <2>1. CASE sender[u].pc = "delay"
    BY <1>1, <2>1, Facts
  <2>2. CASE sender[u].pc # "delay"
    <3> DEFINE r == [sender[u] EXCEPT !.left = TRUE, !.removed = TRUE, !.raced = TRUE,
                                      !.present = @ \ {Session[k]}]
    <3>1. /\ r \in Sender /\ r.pc = sender[u].pc /\ r.i = sender[u].i
          /\ r.conn = sender[u].conn /\ r.packet = sender[u].packet
          /\ r.matched = sender[u].matched /\ r.raced
      BY Facts, ZenonT(40) DEF Sender
    <3>2. sender'[u] = r
      BY <1>1, <2>2
    <3> QED BY <3>1, <3>2
  <2> QED BY <2>1, <2>2
<1>4. TypeOK'
  <2>1. sender' \in [Tasks -> Sender]
    BY <1>1, <1>3
  <2>2. Session' \in [Entries -> Connections \cup {Null}]
    BY <1>1, Removal
  <2>3. ClientNum' \in 0 .. MaxClients
    BY <1>2
  <2>4. open' \subseteq Connections
    BY <1>1, Facts DEF SendInv, TypeOK
  <2> QED BY <1>1, <1>3, <2>1, <2>2, <2>3, <2>4 DEF SendInv, TypeOK
<1> DEFINE old(j) == IF j >= k THEN j + 1 ELSE j
<1>5. \A j \in 0 .. ClientNum' - 1 :
        /\ old(j) \in 0 .. ClientNum - 1 /\ old(j) # k
        /\ Session'[j] = Session[old(j)]
  <2>1. ASSUME NEW j \in 0 .. ClientNum' - 1
        PROVE  j \in 0 .. ClientNum - 1 /\ j <= ClientNum - 2
    BY <1>2
  <2>2. \A j \in 0 .. ClientNum' - 1 : old(j) \in 0 .. ClientNum - 1 /\ old(j) # k
    BY <1>2, <2>1
  <2> QED BY <1>1, <1>2, <2>1, <2>2, Removal
<1>6. TableInv'
  <2>1. \A j \in 0 .. ClientNum' - 1 : Session'[j] \in open'
    BY <1>1, <1>5, ZenonT(40) DEF SendInv, TableInv
  <2>2. ASSUME NEW i \in 0 .. ClientNum' - 1, NEW j \in 0 .. ClientNum' - 1,
               Session'[i] = Session'[j]
        PROVE  i = j
    <3>1. old(i) = old(j)
      BY <1>5, <2>2 DEF SendInv, TableInv
    <3> QED BY <1>2, <3>1
  <2> QED BY <2>1, <2>2 DEF TableInv
<1>7. ASSUME NEW u \in Tasks PROVE LoopInv(sender'[u], Session', ClientNum')
  <2>1. sender[u] \in Sender /\ LoopInv(sender[u], Session, ClientNum)
    BY Facts
  <2>2. sender[u].pc = "calling" => Session'[sender[u].i] \in Connections
    <3> SUFFICES ASSUME sender[u].pc = "calling" PROVE Session'[sender[u].i] \in Connections
      OBVIOUS
    <3>1. sender[u].i \in Entries /\ Session[sender[u].i] \in Connections
      BY <1>2, <2>1 DEF LoopInv, Sender, Entries
    <3>2. \A j \in 0 .. ClientNum - 1 : Session[j] \in Connections
      BY Facts
    <3>3. sender[u].i <= ClientNum - 2 => sender[u].i + 1 \in 0 .. ClientNum - 1
      BY <1>2, <3>1 DEF Entries
    <3> QED BY <1>1, <3>1, <3>2, <3>3, Removal
  <2>3. sender'[u].pc = "calling" => sender'[u].raced
    BY <1>3
  <2> QED BY <1>3, <2>1, <2>2, <2>3 DEF LoopInv
<1> QED BY <1>4, <1>6, <1>7 DEF SendInv

LEMMA NextInv == SendInv /\ [Next]_vars => SendInv'
<1> SUFFICES ASSUME SendInv, [Next]_vars PROVE SendInv'
  OBVIOUS
<1>1. CASE UNCHANGED vars
  BY <1>1 DEF vars, SendInv, TypeOK, TableInv
<1>2. CASE ServerAdds
  BY <1>2, ServerAddsInv
<1>3. CASE ServerRemoves
  BY <1>3, ServerRemovesInv
<1>4. CASE OthersAllocate \/ OthersFree
  BY <1>4, OthersInv
<1>5. CASE OdStartsTracking \/ TrTriggersCamera
  BY <1>5, BuildAndSendInv DEF OdStartsTracking, TrTriggersCamera, Tasks
<1>6. CASE TrPushesOut
  BY <1>6, TrPushesOutInv
<1>7. ASSUME NEW t \in Tasks, StartPass(t) \/ EndPass(t) \/ TCPSendPacket(t) PROVE SendInv'
  BY <1>7, StartPassInv, EndPassInv, TestsInv, CallsInv, WriteEndsInv, FreesInv, ReturnsInv
     DEF TCPSendPacket
<1> QED BY <1>1, <1>2, <1>3, <1>4, <1>5, <1>6, <1>7 DEF Next, Run, Stop

\* Whatever comes and goes meanwhile, the loop of TCPSendPacket stays in the
\* table, it counts no further than the sessions, and each variable keeps its
\* type.
THEOREM TypeCorrect == Spec => []TypeOK
<1>1. SendInv => TypeOK
  BY DEF SendInv
<1> QED BY <1>1, InitInv, NextInv, PTL DEF Spec

-----------------------------------------------------------------------------
(* Deleted connections.                                                    *)

\* A connection that is called for and not open was tested before a session
\* was removed.
LEMMA MisuseStep ==
  ASSUME SendInv, WritesToOpenConnections, [Next]_vars PROVE WritesToOpenConnections'
<1>1. CASE UNCHANGED vars
  BY <1>1 DEF vars, WritesToOpenConnections
<1>2. CASE UNCHANGED misused /\ ~misused
  BY <1>2 DEF WritesToOpenConnections
<1>3. ASSUME NEW t \in Tasks, Calls(t), ~misused PROVE WritesToOpenConnections'
  <2> SUFFICES ASSUME misused' PROVE sender'[t].pc = "writing" /\ sender'[t].raced
    BY DEF WritesToOpenConnections
  <2> DEFINE s == sender[t]
             r == [s EXCEPT !.pc = "writing", !.conn = Session[s.i], !.matched = @ + 1]
  <2>1. s \in Sender /\ s.pc = "calling" /\ LoopInv(s, Session, ClientNum)
    BY <1>3, Facts DEF Calls, At
  <2>2. Session[s.i] \notin open /\ sender' = [sender EXCEPT ![t] = r]
    BY <1>3 DEF Calls
  <2>3. s.i \notin 0 .. ClientNum - 1
    BY <2>2, Facts
  <2>4. s.raced
    BY <2>1, <2>3, Facts DEF LoopInv, Sender
  <2>5. sender \in [Tasks -> Sender]
    BY DEF SendInv, TypeOK
  <2>6. r.pc = "writing" /\ r.raced
    BY <2>1, <2>4 DEF Sender
  <2> HIDE DEF r
  <2> QED BY <2>2, <2>5, <2>6
<1>4. ASSUME NEW t \in Tasks, StartPass(t) \/ EndPass(t) \/ TCPSendPacket(t), ~misused
      PROVE  WritesToOpenConnections'
  BY <1>4, <1>2, <1>3 DEF TCPSendPacket, StartPass, EndPass, Tests, WriteEnds, Frees, Returns
<1>5. CASE ~misused /\ (ServerAdds \/ ServerRemoves \/ OthersAllocate \/ OthersFree)
  BY <1>5, <1>2 DEF ServerAdds, ServerRemoves, OthersAllocate, OthersFree
<1>6. CASE ~misused /\ (OdStartsTracking \/ TrTriggersCamera \/ TrPushesOut)
  BY <1>6, <1>2 DEF OdStartsTracking, TrTriggersCamera, TrPushesOut, BuildAndSend
<1> QED BY <1>1, <1>4, <1>5, <1>6 DEF Next, Run, Stop

\* A deleted connection is written to only when its session was removed between
\* the test of ClientNum and the call of netconn_write.
THEOREM DeletedOnlyWhenRaced == Spec => []WritesToOpenConnections
<1>1. Init => WritesToOpenConnections
  BY DEF Init, WritesToOpenConnections
<1>2. SendInv /\ WritesToOpenConnections /\ [Next]_vars => WritesToOpenConnections'
  BY MisuseStep
<1> QED BY <1>1, <1>2, InitInv, NextInv, PTL DEF Spec

-----------------------------------------------------------------------------
(* Packets and blocks.                                                     *)

\* A block that a task owns is the packet it holds or writes: TasksHoldPackets,
\* made inductive.
BlocksHeld ==
  \A b \in Blocks : owner[b] \in Tasks =>
    /\ sender[owner[b]].packet = b
    /\ Holds(owner[b]) \/ Writes(owner[b])

OwnerInv == ~twoMatched => PacketIsTasks /\ BlocksHeld

\* A task with the variables r is to have a block for its packet.
Keeps(r) == (r.packet # Null /\ r.matched = 0) \/ r.pc \in {"writing", "freeing"}

\* A step of one task that takes no block of the other.
LEMMA OwnerTaskStep ==
  ASSUME SendInv, OwnerInv, ~twoMatched, NEW t \in Tasks, NEW r,
         sender' = [sender EXCEPT ![t] = r],
         Keeps(r) => r.packet = Null \/ owner'[r.packet] = t,
         \A b \in Blocks : owner'[b] = t => r.packet = b /\ Keeps(r),
         \A b \in Blocks : \A u \in Tasks \ {t} : owner'[b] = u <=> owner[b] = u
  PROVE  PacketIsTasks' /\ BlocksHeld'
<1>1. \A u \in Tasks : sender'[u] = IF u = t THEN r ELSE sender[u]
  BY DEF SendInv, TypeOK
<1>2. \A u \in Tasks : sender[u].packet \in Blocks \cup {Null}
  BY Facts DEF Sender
<1>3. PacketIsTasks'
  BY <1>1, <1>2 DEF OwnerInv, PacketIsTasks, Holds, Writes, Keeps
<1>4. BlocksHeld'
  BY <1>1 DEF OwnerInv, BlocksHeld, Holds, Writes, Keeps
<1> QED BY <1>3, <1>4

\* A step that leaves the tasks' packets alone, and takes no block of a task.
LEMMA OwnerOtherStep ==
  ASSUME SendInv, OwnerInv, ~twoMatched,
         \A u \in Tasks : /\ sender'[u].pc = sender[u].pc
                          /\ sender'[u].packet = sender[u].packet
                          /\ sender'[u].matched = sender[u].matched,
         \A b \in Blocks : \A u \in Tasks : owner'[b] = u <=> owner[b] = u
  PROVE  PacketIsTasks' /\ BlocksHeld'
<1>2. \A u \in Tasks : sender[u].packet \in Blocks \cup {Null}
  BY Facts DEF Sender
<1>3. PacketIsTasks'
  BY <1>2 DEF OwnerInv, PacketIsTasks, Holds, Writes
<1>4. BlocksHeld'
  BY DEF OwnerInv, BlocksHeld, Holds, Writes
<1> QED BY <1>3, <1>4

LEMMA OwnerBuild ==
  ASSUME SendInv, OwnerInv, ~twoMatched, NEW t \in Tasks, NEW clientID \in {0, 1},
         BuildAndSend(t, clientID)
  PROVE  PacketIsTasks' /\ BlocksHeld'
<1>1. PICK b \in Blocks \cup {Null} :
        /\ Allocated(b, t)
        /\ sender' = [sender EXCEPT ![t] =
             [Idle EXCEPT !.pc = "testing", !.clientID = clientID, !.packet = b,
                          !.present = Table, !.left = sender[t].left]]
  BY DEF BuildAndSend
<1> DEFINE r == [Idle EXCEPT !.pc = "testing", !.clientID = clientID, !.packet = b,
                             !.present = Table, !.left = sender[t].left]
<1>2. r.pc = "testing" /\ r.packet = b /\ r.matched = 0
  BY DEF Idle
<1>3. sender[t].pc = "pass" /\ sender[t].packet = Null
  BY Facts DEF BuildAndSend, At, LoopInv, Sending
<1>4. \A d \in Blocks : owner[d] # t
  BY <1>3, SendAssumption DEF OwnerInv, BlocksHeld
<1>5. CASE b = Null
  <2>1. owner' = owner
    BY <1>1, <1>5, SendAssumption DEF Allocated
  <2>2. sender' = [sender EXCEPT ![t] = r]
    BY <1>1
  <2>3. \A d \in Blocks : owner'[d] = owner[d] /\ owner'[d] # t
    BY <1>4, <2>1
  <2> HIDE DEF r
  <2> QED BY <1>2, <1>5, <2>2, <2>3, OwnerTaskStep
<1>6. CASE b # Null
  <2>1. b \in Blocks /\ owner[b] = "free" /\ owner' = [owner EXCEPT ![b] = t]
    BY <1>1, <1>6 DEF Allocated
  <2>2. \A d \in Blocks : owner'[d] = IF d = b THEN t ELSE owner[d]
    BY <2>1, Facts
  <2>3. \A u \in Tasks : u # "free"
    BY DEF Tasks
  <2>4. \A d \in Blocks : \A u \in Tasks \ {t} : owner'[d] = u <=> owner[d] = u
    BY <2>1, <2>2, <2>3
  <2>5. sender' = [sender EXCEPT ![t] = r]
    BY <1>1
  <2>6. r.packet = b /\ owner'[r.packet] = t /\ Keeps(r)
    BY <1>2, <1>6, <2>1, <2>2 DEF Keeps
  <2>7. \A d \in Blocks : owner'[d] = t => d = b
    BY <1>4, <2>2
  <2> HIDE DEF r
  <2> QED BY <2>4, <2>5, <2>6, <2>7, OwnerTaskStep
<1> QED BY <1>5, <1>6

LEMMA OwnerOthers ==
  ASSUME SendInv, OwnerInv, ~twoMatched, OthersAllocate \/ OthersFree \/ TrPushesOut
  PROVE  PacketIsTasks' /\ BlocksHeld'
<1>1. \A u \in Tasks : u \notin {"free", "other", "lost"}
  BY DEF Tasks
<1>2. owner \in [Blocks -> {"free", "other", "lost"} \cup Tasks]
  BY DEF SendInv, TypeOK
<1>3. \A b \in Blocks : \A u \in Tasks : owner'[b] = u <=> owner[b] = u
  <2>1. CASE owner' = owner
    BY <2>1
  <2>2. ASSUME NEW b \in Blocks, NEW v \in {"free", "other", "lost"},
               owner[b] \in {"free", "other"}, owner' = [owner EXCEPT ![b] = v]
        PROVE  \A d \in Blocks : \A u \in Tasks : owner'[d] = u <=> owner[d] = u
    BY <1>1, <1>2, <2>2
  <2> QED BY <2>1, <2>2, SendAssumption DEF OthersAllocate, OthersFree, TrPushesOut, Allocated
<1>4. sender' = sender
  BY DEF OthersAllocate, OthersFree, TrPushesOut
<1> QED BY <1>3, <1>4, OwnerOtherStep

LEMMA OwnerFrees ==
  ASSUME SendInv, OwnerInv, ~twoMatched, NEW t \in Tasks, Frees(t)
  PROVE  PacketIsTasks' /\ BlocksHeld'
<1> DEFINE s == sender[t]
           r == [s EXCEPT !.pc = "testing", !.i = @ + 1, !.conn = Null]
<1>1. s \in Sender /\ s.pc = "freeing" /\ s.packet \in Blocks /\ s.matched > 0
  BY Facts DEF Frees, At, LoopInv
<1>2. r.pc = "testing" /\ r.packet = s.packet /\ r.matched = s.matched
  BY <1>1 DEF Sender
<1>3. owner[s.packet] = t
  BY <1>1, SendAssumption DEF OwnerInv, PacketIsTasks, Writes
<1>4. \A b \in Blocks : owner'[b] = IF b = s.packet THEN "free" ELSE owner[b]
  BY <1>1, Facts DEF Frees, OwnerAfter
<1>5. \A b \in Blocks : owner'[b] # t
  BY <1>1, <1>3, <1>4 DEF OwnerInv, BlocksHeld, Tasks
<1>6. \A b \in Blocks : \A u \in Tasks \ {t} : owner'[b] = u <=> owner[b] = u
  BY <1>3, <1>4 DEF Tasks
<1>7. ~Keeps(r)
  BY <1>1, <1>2 DEF Keeps
<1>8. sender' = [sender EXCEPT ![t] = r]
  BY DEF Frees
<1> HIDE DEF r
<1> QED BY <1>5, <1>6, <1>7, <1>8, OwnerTaskStep

LEMMA OwnerReturns ==
  ASSUME SendInv, OwnerInv, ~twoMatched, NEW t \in Tasks, Returns(t)
  PROVE  PacketIsTasks' /\ BlocksHeld'
<1> DEFINE s == sender[t]
           r == [Idle EXCEPT !.pc = "pass", !.left = s.left]
<1>1. s \in Sender /\ s.pc = "testing" /\ s.packet \in Blocks \cup {Null}
  BY Facts DEF Returns, At, Sender
<1>2. r.pc = "pass" /\ r.packet = Null
  BY DEF Idle
<1>3. s.packet # Null /\ s.matched = 0 => owner[s.packet] = t
  BY <1>1 DEF OwnerInv, PacketIsTasks, Holds
<1>4. \A b \in Blocks : owner'[b] =
         IF s.packet # Null /\ s.matched = 0 /\ b = s.packet THEN "lost" ELSE owner[b]
  BY <1>1, Facts DEF Returns, OwnerAtReturn
<1>5. \A b \in Blocks : owner'[b] # t
  BY <1>1, <1>4, SendAssumption DEF OwnerInv, BlocksHeld, Holds, Writes, Tasks
<1>6. \A b \in Blocks : \A u \in Tasks \ {t} : owner'[b] = u <=> owner[b] = u
  BY <1>3, <1>4 DEF Tasks
<1>7. ~Keeps(r)
  BY <1>2 DEF Keeps
<1>8. sender' = [sender EXCEPT ![t] = r]
  BY DEF Returns
<1> HIDE DEF r
<1> QED BY <1>5, <1>6, <1>7, <1>8, OwnerTaskStep

\* The steps of TCPSendPacket and of the loop that only look at the packet.
LEMMA OwnerKept ==
  ASSUME SendInv, OwnerInv, ~twoMatched, ~twoMatched', NEW t \in Tasks,
         StartPass(t) \/ EndPass(t) \/ Tests(t) \/ Calls(t) \/ WriteEnds(t)
  PROVE  PacketIsTasks' /\ BlocksHeld'
<1> DEFINE s == sender[t]
<1>1. s \in Sender /\ LoopInv(s, Session, ClientNum) /\ owner' = owner
  BY Facts DEF StartPass, EndPass, Tests, Calls, WriteEnds
<1>0. s.packet # Null => s.packet \in Blocks
  BY <1>1 DEF Sender
<1>2. ASSUME NEW r, sender' = [sender EXCEPT ![t] = r], r.packet = s.packet,
             s.packet = Null \/ (Keeps(r) <=> Holds(t) \/ Writes(t))
      PROVE  PacketIsTasks' /\ BlocksHeld'
  <2>1. \A b \in Blocks : owner[b] = t => s.packet = b /\ (Holds(t) \/ Writes(t))
    BY DEF OwnerInv, BlocksHeld
  <2>2. Holds(t) \/ Writes(t) => s.packet = Null \/ owner[s.packet] = t
    BY DEF OwnerInv, PacketIsTasks
  <2>3. \A b \in Blocks : owner[b] = t => s.packet # Null
    BY <2>1, SendAssumption
  <2>4. \A b \in Blocks : owner'[b] = t => r.packet = b /\ Keeps(r)
    BY <1>1, <1>2, <2>1, <2>3
  <2>5. Keeps(r) => r.packet = Null \/ owner'[r.packet] = t
    BY <1>1, <1>2, <2>2
  <2> QED BY <1>1, <1>2, <2>4, <2>5, OwnerTaskStep
<1>3. CASE StartPass(t) \/ EndPass(t)
  <2>1. s.pc \notin Sending /\ s.packet = Null
    BY <1>1, <1>3 DEF LoopInv, StartPass, EndPass, At, Sending
  <2>2. PICK r : sender' = [sender EXCEPT ![t] = r] /\ r.packet = Null
    <3>1. CASE StartPass(t)
      <4>1. [s EXCEPT !.pc = "pass"].packet = Null
        BY <1>1, <2>1 DEF Sender
      <4> QED BY <3>1, <4>1 DEF StartPass
    <3>2. CASE EndPass(t)
      <4>1. Idle.packet = Null
        BY DEF Idle
      <4> QED BY <3>2, <4>1 DEF EndPass
    <3> QED BY <1>3, <3>1, <3>2
  <2> QED BY <1>2, <2>1, <2>2
<1>4. CASE Tests(t)
  <2>1. PICK r : /\ sender' = [sender EXCEPT ![t] = r] /\ r.packet = s.packet
                 /\ r.matched = s.matched /\ r.pc \in {"testing", "calling"}
    <3>1. ASSUME NEW q, q = [s EXCEPT !.pc = "calling", !.raced = FALSE]
                         \/ q = [s EXCEPT !.i = @ + 1]
          PROVE  q.packet = s.packet /\ q.matched = s.matched /\ q.pc \in {"calling", s.pc}
      BY <1>1, <3>1 DEF Sender
    <3> QED BY <1>4, <3>1 DEF Tests, At
  <2>2. s.pc = "testing"
    BY <1>4 DEF Tests, At
  <2> QED BY <1>2, <2>1, <2>2 DEF Holds, Writes, Keeps
<1>5. CASE Calls(t)
  <2>1. s.pc = "calling"
    BY <1>5 DEF Calls, At
  <2>2. CASE s.packet = Null
    <3> DEFINE r == [s EXCEPT !.pc = "testing", !.i = @ + 1]
    <3>1. r.packet = Null
      BY <1>1, <2>2 DEF Sender
    <3>2. sender' = [sender EXCEPT ![t] = r]
      BY <1>5, <2>2 DEF Calls
    <3> HIDE DEF r
    <3> QED BY <1>2, <2>2, <3>1, <3>2
  <2>3. CASE s.packet # Null
    <3> DEFINE r == [s EXCEPT !.pc = "writing", !.conn = Session[s.i], !.matched = @ + 1]
    <3>1. r.packet = s.packet /\ r.pc = "writing"
      BY <1>1 DEF Sender
    <3>2. sender' = [sender EXCEPT ![t] = r] /\ ~(s.matched > 0)
      BY <1>5, <2>3 DEF Calls
    <3>3. s.matched = 0
      BY <1>1, <3>2, Facts DEF Sender
    <3> HIDE DEF r
    <3> QED BY <1>2, <2>3, <3>1, <3>2, <3>3 DEF Holds, Keeps
  <2> QED BY <2>2, <2>3
<1>6. CASE WriteEnds(t)
  <2>1. s.pc = "writing"
    BY <1>6 DEF WriteEnds, At
  <2>2. PICK r : /\ sender' = [sender EXCEPT ![t] = r] /\ r.packet = s.packet
                 /\ r.pc = "freeing"
    <3>1. ASSUME NEW q, q = [s EXCEPT !.pc = "freeing", !.told = @ \cup {s.conn}]
                         \/ q = [s EXCEPT !.pc = "freeing", !.present = @ \ {s.conn}]
          PROVE  q.packet = s.packet /\ q.pc = "freeing"
      BY <1>1, <3>1 DEF Sender
    <3> QED BY <1>6, <3>1 DEF WriteEnds
  <2> QED BY <1>2, <2>1, <2>2 DEF Writes, Keeps
<1> QED BY <1>3, <1>4, <1>5, <1>6

LEMMA OwnerStep == SendInv /\ OwnerInv /\ [Next]_vars => OwnerInv'
<1> SUFFICES ASSUME SendInv, OwnerInv, [Next]_vars, ~twoMatched'
             PROVE  PacketIsTasks' /\ BlocksHeld'
  BY DEF OwnerInv
<1>1. CASE UNCHANGED vars
  BY <1>1 DEF vars, OwnerInv, PacketIsTasks, BlocksHeld, Holds, Writes
<1>2. CASE ServerAdds
  BY <1>2, OwnerOtherStep DEF ServerAdds
<1>3. CASE ServerRemoves
  <2>1. PICK k \in 0 .. ClientNum - 1 :
          /\ sender' = [t \in Tasks |->
               IF sender[t].pc = "delay" THEN sender[t]
               ELSE [sender[t] EXCEPT !.left = TRUE, !.removed = TRUE, !.raced = TRUE,
                                      !.present = @ \ {Session[k]}]]
          /\ UNCHANGED <<owner, twoMatched>>
    BY <1>3 DEF ServerRemoves
  <2>2. ASSUME NEW u \in Tasks
        PROVE  /\ sender'[u].pc = sender[u].pc /\ sender'[u].packet = sender[u].packet
               /\ sender'[u].matched = sender[u].matched
    <3>1. sender[u] \in Sender
      BY Facts
    <3> QED BY <2>1, <3>1 DEF Sender
  <2> QED BY <2>1, <2>2, OwnerOtherStep
<1>4. CASE OthersAllocate \/ OthersFree \/ TrPushesOut
  BY <1>4, OwnerOthers DEF OthersAllocate, OthersFree, TrPushesOut
<1>5. CASE OdStartsTracking \/ TrTriggersCamera
  <2>1. PICK t \in Tasks, clientID \in {0, 1} : BuildAndSend(t, clientID)
    BY <1>5 DEF OdStartsTracking, TrTriggersCamera, Tasks
  <2>2. ~twoMatched
    BY <2>1 DEF BuildAndSend
  <2> QED BY <2>1, <2>2, OwnerBuild
<1>6. ASSUME NEW t \in Tasks, Frees(t) \/ Returns(t) PROVE PacketIsTasks' /\ BlocksHeld'
  <2>1. ~twoMatched
    BY <1>6 DEF Frees, Returns
  <2> QED BY <1>6, <2>1, OwnerFrees, OwnerReturns
<1>7. ASSUME NEW t \in Tasks,
             StartPass(t) \/ EndPass(t) \/ Tests(t) \/ Calls(t) \/ WriteEnds(t)
      PROVE  PacketIsTasks' /\ BlocksHeld'
  <2>1. ~twoMatched
    BY <1>7, Facts DEF StartPass, EndPass, Tests, Calls, WriteEnds
  <2> QED BY <1>7, <2>1, OwnerKept
<1> QED BY <1>1, <1>2, <1>3, <1>4, <1>5, <1>6, <1>7 DEF Next, Run, Stop, TCPSendPacket

\* A packet that is built, written or freed is in a block that belongs to its
\* task alone, and a task owns nothing else: TCPSendPacket frees every packet
\* exactly once, as long as none was written for two sessions.
THEOREM FreedOnce == Spec => []PacketFreedOnce
<1>1. Init => OwnerInv
  <2>1. \A t \in Tasks : t # "free"
    BY DEF Tasks
  <2> QED BY <2>1 DEF Init, OwnerInv, PacketIsTasks, BlocksHeld, Holds, Writes, Idle
<1>2. SendInv /\ OwnerInv => PacketFreedOnce
  <2> SUFFICES ASSUME SendInv, OwnerInv, ~twoMatched PROVE PacketIsTasks /\ TasksHoldPackets
    BY DEF PacketFreedOnce
  <2>1. ASSUME NEW t \in Tasks, Holds(t) \/ Writes(t)
        PROVE  sender[t].pc \in {"testing", "calling", "writing", "freeing"}
    BY <2>1, Facts DEF Holds, Writes, LoopInv, Sending
  <2> QED BY <2>1 DEF OwnerInv, BlocksHeld, TasksHoldPackets
<1> QED BY <1>1, <1>2, InitInv, NextInv, OwnerStep, PTL DEF Spec

-----------------------------------------------------------------------------
(* Who has been told.                                                      *)

\* The entries the loop has still to come to, with the one it is at.
Ahead(s, n) ==
  {k \in 0 .. n - 1 : IF s.pc \in {"writing", "freeing"} THEN k > s.i ELSE k >= s.i}

\* No client that has the packet, or is being written to, is still to come.
ToldInv(s, S, n) ==
  /\ s.pc \in Sending => \A k \in Ahead(s, n) : S[k] \notin s.told
  /\ s.pc = "calling" => S[s.i] \notin s.told
  /\ s.pc = "writing" => s.conn \notin s.told
  /\ s.pc \in {"writing", "freeing"} => \A k \in Ahead(s, n) : S[k] # s.conn

\* While no session was removed, there is one, and every client that was there
\* when the send began has the packet, is being written to, or is still to come.
PresentInv(s, S, n) ==
  /\ s.pc # "delay" /\ ~s.left => n > 0
  /\ s.pc \in Sending /\ s.clientID = 0 /\ s.packet # Null =>
       /\ s.matched = 0 => s.i = 0
       /\ ~s.removed => \A c \in s.present \ s.told :
            \/ s.pc = "writing" /\ c = s.conn
            \/ \E k \in Ahead(s, n) : S[k] = c

ClientsInv ==
  \A t \in Tasks : ToldInv(sender[t], Session, ClientNum)
                  /\ PresentInv(sender[t], Session, ClientNum)

LEMMA ClientsTaskStep ==
  ASSUME SendInv, ClientsInv, NEW t \in Tasks, NEW r,
         sender' = [sender EXCEPT ![t] = r], UNCHANGED <<Session, ClientNum>>,
         ToldInv(r, Session, ClientNum), PresentInv(r, Session, ClientNum)
  PROVE  ClientsInv'
<1>1. \A u \in Tasks : sender'[u] = IF u = t THEN r ELSE sender[u]
  BY DEF SendInv, TypeOK
<1> QED BY <1>1 DEF ClientsInv

\* The step into the loop of a task, and out of it.
LEMMA ClientsPass ==
  ASSUME SendInv, ClientsInv, NEW t \in Tasks, StartPass(t) \/ EndPass(t) \/ Returns(t)
  PROVE  ClientsInv'
<1> DEFINE s == sender[t]
<1>1. /\ s \in Sender /\ ToldInv(s, Session, ClientNum) /\ PresentInv(s, Session, ClientNum)
      /\ UNCHANGED <<Session, ClientNum>> /\ ClientNum \in Nat
  BY Facts DEF ClientsInv, StartPass, EndPass, Returns
<1>2. ASSUME NEW r, sender' = [sender EXCEPT ![t] = r], r.pc \in {"delay", "pass"},
             r.pc = "pass" /\ ~r.left => ClientNum > 0
      PROVE  ClientsInv'
  <2>1. ToldInv(r, Session, ClientNum)
    BY <1>2 DEF ToldInv, Sending
  <2>2. PresentInv(r, Session, ClientNum)
    BY <1>2 DEF PresentInv, Sending
  <2> QED BY <1>1, <1>2, <2>1, <2>2, ClientsTaskStep
<1>3. CASE StartPass(t)
  <2>1. [s EXCEPT !.pc = "pass"].pc = "pass"
    BY <1>1 DEF Sender
  <2>2. sender' = [sender EXCEPT ![t] = [s EXCEPT !.pc = "pass"]] /\ ClientNum > 0
    BY <1>3 DEF StartPass
  <2> QED BY <1>2, <2>1, <2>2
<1>4. CASE EndPass(t)
  <2>1. Idle.pc = "delay"
    BY DEF Idle
  <2>2. sender' = [sender EXCEPT ![t] = Idle]
    BY <1>4 DEF EndPass
  <2> QED BY <1>2, <2>1, <2>2
<1>5. CASE Returns(t)
  <2> DEFINE r == [Idle EXCEPT !.pc = "pass", !.left = s.left]
  <2>1. r.pc = "pass" /\ r.left = s.left
    BY DEF Idle
  <2>2. sender' = [sender EXCEPT ![t] = r] /\ s.pc = "testing"
    BY <1>5 DEF Returns, At
  <2>3. ~s.left => ClientNum > 0
    BY <1>1, <2>2 DEF PresentInv
  <2> HIDE DEF r
  <2> QED BY <1>2, <2>1, <2>2, <2>3
<1> QED BY <1>3, <1>4, <1>5

LEMMA ClientsBuild ==
  ASSUME SendInv, ClientsInv, NEW t \in Tasks, NEW clientID \in {0, 1},
         BuildAndSend(t, clientID)
  PROVE  ClientsInv'
<1>1. PICK b \in Blocks \cup {Null} : sender' = [sender EXCEPT ![t] =
             [Idle EXCEPT !.pc = "testing", !.clientID = clientID, !.packet = b,
                          !.present = Table, !.left = sender[t].left]]
  BY DEF BuildAndSend
<1> DEFINE r == [Idle EXCEPT !.pc = "testing", !.clientID = clientID, !.packet = b,
                             !.present = Table, !.left = sender[t].left]
<1>2. /\ r.pc = "testing" /\ r.left = sender[t].left /\ r.i = 0 /\ r.told = {}
      /\ r.present = Table /\ r.matched = 0
  BY DEF Idle
<1>3. PresentInv(sender[t], Session, ClientNum) /\ sender[t].pc = "pass"
  BY DEF ClientsInv, BuildAndSend, At
<1>4. ToldInv(r, Session, ClientNum)
  BY <1>2 DEF ToldInv
<1>5. PresentInv(r, Session, ClientNum)
  <2>1. Ahead(r, ClientNum) = 0 .. ClientNum - 1
    BY <1>2, Facts DEF Ahead
  <2>2. ~r.left => ClientNum > 0
    BY <1>2, <1>3 DEF PresentInv
  <2>3. \A c \in r.present : \E k \in Ahead(r, ClientNum) : Session[k] = c
    BY <1>2, <2>1 DEF Table
  <2> HIDE DEF r
  <2> QED BY <1>2, <2>2, <2>3 DEF PresentInv
<1>6. sender' = [sender EXCEPT ![t] = r] /\ UNCHANGED <<Session, ClientNum>>
  BY <1>1 DEF BuildAndSend
<1> HIDE DEF r
<1> QED BY <1>4, <1>5, <1>6, ClientsTaskStep

LEMMA ClientsTests == ASSUME SendInv, ClientsInv, NEW t \in Tasks, Tests(t) PROVE ClientsInv'
<1> DEFINE s == sender[t]
<1>1. /\ s \in Sender /\ s.pc = "testing" /\ s.i \in 0 .. ClientNum - 1 /\ ClientNum \in Nat
      /\ ToldInv(s, Session, ClientNum) /\ PresentInv(s, Session, ClientNum)
  BY Facts DEF ClientsInv, Tests, At, MoreSessions, Sender
<1>2. /\ UNCHANGED <<Session, ClientNum>>
      /\ sender' = [sender EXCEPT ![t] =
          IF s.clientID = SessionID
            THEN [s EXCEPT !.pc = "calling", !.raced = FALSE]
            ELSE [s EXCEPT !.i = @ + 1]]
  BY DEF Tests
<1>3. CASE s.clientID = SessionID
  <2> DEFINE r == [s EXCEPT !.pc = "calling", !.raced = FALSE]
  <2>1. /\ r.pc = "calling" /\ r.i = s.i /\ r.told = s.told /\ r.present = s.present
        /\ r.left = s.left /\ r.removed = s.removed /\ r.matched = s.matched
        /\ r.packet = s.packet /\ r.clientID = s.clientID
    BY <1>1 DEF Sender
  <2>2. Ahead(r, ClientNum) = Ahead(s, ClientNum) /\ s.i \in Ahead(s, ClientNum)
    BY <1>1, <2>1 DEF Ahead
  <2>3. sender' = [sender EXCEPT ![t] = r]
    BY <1>2, <1>3
  <2> HIDE DEF r
  <2>4. ToldInv(r, Session, ClientNum)
    BY <1>1, <2>1, <2>2 DEF ToldInv, Sending
  <2>5. PresentInv(r, Session, ClientNum)
    BY <1>1, <2>1, <2>2 DEF PresentInv, Sending
  <2> QED BY <1>2, <2>3, <2>4, <2>5, ClientsTaskStep
<1>4. CASE s.clientID # SessionID
  <2> DEFINE r == [s EXCEPT !.i = @ + 1]
  <2>1. /\ r.pc = "testing" /\ r.i = s.i + 1 /\ r.told = s.told
        /\ r.left = s.left /\ r.clientID = s.clientID
    BY <1>1 DEF Sender
  <2>2. Ahead(r, ClientNum) \subseteq Ahead(s, ClientNum)
    BY <1>1, <2>1 DEF Ahead
  <2>3. sender' = [sender EXCEPT ![t] = r]
    BY <1>2, <1>4
  <2> HIDE DEF r
  <2>4. ToldInv(r, Session, ClientNum)
    BY <1>1, <2>1, <2>2 DEF ToldInv, Sending
  <2>5. PresentInv(r, Session, ClientNum)
    BY <1>1, <1>4, <2>1 DEF PresentInv, SessionID
  <2> QED BY <1>2, <2>3, <2>4, <2>5, ClientsTaskStep
<1> QED BY <1>3, <1>4

LEMMA ClientsCalls == ASSUME SendInv, ClientsInv, NEW t \in Tasks, Calls(t) PROVE ClientsInv'
<1> DEFINE s == sender[t]
           c == Session[s.i]
<1>1. /\ s \in Sender /\ s.pc = "calling" /\ s.i \in Nat /\ ClientNum \in Nat
      /\ s.matched \in Nat
      /\ ToldInv(s, Session, ClientNum) /\ PresentInv(s, Session, ClientNum)
  BY Facts DEF ClientsInv, Calls, At, Sender
<1>2. CASE s.packet = Null
  <2> DEFINE r == [s EXCEPT !.pc = "testing", !.i = @ + 1]
  <2>1. /\ r.pc = "testing" /\ r.i = s.i + 1 /\ r.told = s.told
        /\ r.left = s.left /\ r.packet = s.packet
    BY <1>1 DEF Sender
  <2>2. Ahead(r, ClientNum) \subseteq Ahead(s, ClientNum)
    BY <1>1, <2>1 DEF Ahead
  <2>3. sender' = [sender EXCEPT ![t] = r] /\ UNCHANGED <<Session, ClientNum>>
    BY <1>2 DEF Calls
  <2> HIDE DEF r
  <2>4. ToldInv(r, Session, ClientNum)
    BY <1>1, <2>1, <2>2 DEF ToldInv, Sending
  <2>5. PresentInv(r, Session, ClientNum)
    BY <1>1, <1>2, <2>1 DEF PresentInv
  <2> QED BY <2>3, <2>4, <2>5, ClientsTaskStep
<1>3. CASE s.packet # Null
  <2> DEFINE r == [s EXCEPT !.pc = "writing", !.conn = c, !.matched = @ + 1]
  <2>1. /\ r.pc = "writing" /\ r.i = s.i /\ r.told = s.told /\ r.present = s.present
        /\ r.left = s.left /\ r.removed = s.removed /\ r.matched = s.matched + 1
        /\ r.packet = s.packet /\ r.clientID = s.clientID /\ r.conn = c
    BY <1>1 DEF Sender
  <2>2. \A k \in Ahead(s, ClientNum) : k = s.i \/ k \in Ahead(r, ClientNum)
    BY <1>1, <2>1 DEF Ahead
  <2>3. sender' = [sender EXCEPT ![t] = r] /\ UNCHANGED <<Session, ClientNum>>
    BY <1>3 DEF Calls
  <2>4. Ahead(r, ClientNum) \subseteq Ahead(s, ClientNum)
    BY <1>1, <2>1 DEF Ahead
  <2>5. \A k \in Ahead(r, ClientNum) : Session[k] # c
    BY <1>1, <2>1 DEF Ahead, SendInv, TableInv
  <2> HIDE DEF r
  <2>6. ToldInv(r, Session, ClientNum)
    BY <1>1, <2>1, <2>4, <2>5 DEF ToldInv, Sending
  <2>7. r.matched # 0
    BY <1>1, <2>1
  <2>8. PresentInv(r, Session, ClientNum)
    BY <1>1, <2>1, <2>2, <2>7 DEF PresentInv, Sending
  <2> QED BY <2>3, <2>6, <2>8, ClientsTaskStep
<1> QED BY <1>2, <1>3

LEMMA ClientsWriteEnds ==
  ASSUME SendInv, ClientsInv, NEW t \in Tasks, WriteEnds(t) PROVE ClientsInv'
<1> DEFINE s == sender[t]
<1>1. /\ s \in Sender /\ s.pc = "writing"
      /\ ToldInv(s, Session, ClientNum) /\ PresentInv(s, Session, ClientNum)
  BY Facts DEF ClientsInv, WriteEnds, At
<1>2. PICK r :
        /\ sender' = [sender EXCEPT ![t] = r]
        /\ r.pc = "freeing" /\ r.i = s.i /\ r.left = s.left /\ r.removed = s.removed
        /\ r.matched = s.matched /\ r.packet = s.packet /\ r.clientID = s.clientID
        /\ r.conn = s.conn /\ r.told \subseteq s.told \cup {s.conn}
        /\ r.present \ r.told \subseteq (s.present \ s.told) \ {s.conn}
  <2>1. ASSUME NEW q, q = [s EXCEPT !.pc = "freeing", !.told = @ \cup {s.conn}]
        PROVE  /\ q.pc = "freeing" /\ q.i = s.i /\ q.left = s.left /\ q.removed = s.removed
               /\ q.matched = s.matched /\ q.packet = s.packet /\ q.clientID = s.clientID
               /\ q.conn = s.conn /\ q.told = s.told \cup {s.conn} /\ q.present = s.present
    BY <1>1, <2>1 DEF Sender
  <2>2. ASSUME NEW q, q = [s EXCEPT !.pc = "freeing", !.present = @ \ {s.conn}]
        PROVE  /\ q.pc = "freeing" /\ q.i = s.i /\ q.left = s.left /\ q.removed = s.removed
               /\ q.matched = s.matched /\ q.packet = s.packet /\ q.clientID = s.clientID
               /\ q.conn = s.conn /\ q.told = s.told /\ q.present = s.present \ {s.conn}
    BY <1>1, <2>2 DEF Sender
  <2>3. \/ sender' = [sender EXCEPT ![t] = [s EXCEPT !.pc = "freeing", !.told = @ \cup {s.conn}]]
        \/ sender' = [sender EXCEPT ![t] = [s EXCEPT !.pc = "freeing", !.present = @ \ {s.conn}]]
    BY DEF WriteEnds
  <2> QED BY <2>1, <2>2, <2>3
<1>3. Ahead(r, ClientNum) = Ahead(s, ClientNum)
  BY <1>1, <1>2 DEF Ahead
<1>4. ToldInv(r, Session, ClientNum)
  BY <1>1, <1>2, <1>3 DEF ToldInv, Sending
<1>5. PresentInv(r, Session, ClientNum)
  BY <1>1, <1>2, <1>3 DEF PresentInv, Sending
<1>6. UNCHANGED <<Session, ClientNum>>
  BY DEF WriteEnds
<1> QED BY <1>2, <1>4, <1>5, <1>6, ClientsTaskStep

LEMMA ClientsFrees == ASSUME SendInv, ClientsInv, NEW t \in Tasks, Frees(t) PROVE ClientsInv'
<1> DEFINE s == sender[t]
           r == [s EXCEPT !.pc = "testing", !.i = @ + 1, !.conn = Null]
<1>1. /\ s \in Sender /\ s.pc = "freeing" /\ s.i \in Nat /\ ClientNum \in Nat /\ s.matched # 0
      /\ ToldInv(s, Session, ClientNum) /\ PresentInv(s, Session, ClientNum)
  BY Facts DEF ClientsInv, Frees, At, LoopInv, Sender
<1>2. /\ r.pc = "testing" /\ r.i = s.i + 1 /\ r.told = s.told /\ r.present = s.present
      /\ r.left = s.left /\ r.removed = s.removed /\ r.matched = s.matched
      /\ r.packet = s.packet /\ r.clientID = s.clientID
  BY <1>1 DEF Sender
<1>3. Ahead(r, ClientNum) = Ahead(s, ClientNum)
  BY <1>1, <1>2 DEF Ahead
<1>4. sender' = [sender EXCEPT ![t] = r] /\ UNCHANGED <<Session, ClientNum>>
  BY DEF Frees
<1> HIDE DEF r
<1>5. ToldInv(r, Session, ClientNum)
  BY <1>1, <1>2, <1>3 DEF ToldInv, Sending
<1>6. PresentInv(r, Session, ClientNum)
  BY <1>1, <1>2, <1>3 DEF PresentInv, Sending
<1> QED BY <1>4, <1>5, <1>6, ClientsTaskStep

\* The connection of a new session is one no task remembers.
LEMMA ClientsAdds == ASSUME SendInv, ClientsInv, ServerAdds PROVE ClientsInv'
<1>1. PICK c \in Connections \ UsedConnections :
        Session' = [Session EXCEPT ![ClientNum] = c]
  BY DEF ServerAdds
<1>0. ClientNum \in Nat /\ ClientNum < MaxClients /\ MaxClients \in Nat
  BY SendAssumption DEF ServerAdds, SendInv, TypeOK
<1>2. /\ ClientNum \in Nat /\ ClientNum < MaxClients /\ MaxClients \in Nat
      /\ ClientNum' = ClientNum + 1 /\ sender' = sender
      /\ Session \in [Entries -> Connections \cup {Null}]
  BY SendAssumption DEF ServerAdds, SendInv, TypeOK
<1>3. \A k \in Entries : Session'[k] = IF k = ClientNum THEN c ELSE Session[k]
  BY <1>1, <1>2
<1>4. ASSUME NEW t \in Tasks
      PROVE  ToldInv(sender[t], Session', ClientNum') /\ PresentInv(sender[t], Session', ClientNum')
  <2> DEFINE s == sender[t]
  <2>1. /\ s \in Sender /\ s.i \in Nat /\ LoopInv(s, Session, ClientNum)
        /\ ToldInv(s, Session, ClientNum) /\ PresentInv(s, Session, ClientNum)
    BY Facts DEF ClientsInv, Sender
  <2>2. c # s.conn /\ c \notin s.told
    BY DEF UsedConnections
  <2>3. \A k \in Ahead(s, ClientNum') : Session'[k] = c
          \/ (k \in Ahead(s, ClientNum) /\ Session'[k] = Session[k])
    <3> SUFFICES ASSUME NEW k \in Ahead(s, ClientNum'), k # ClientNum
                 PROVE  k \in Ahead(s, ClientNum) /\ Session'[k] = Session[k]
      <4>1. ClientNum \in Entries
        BY <1>0 DEF Entries
      <4> QED BY <1>3, <4>1
    <3>1. k \in 0 .. ClientNum - 1 /\ k \in Entries
      BY <1>2 DEF Ahead, Entries
    <3> QED BY <1>3, <3>1 DEF Ahead
  <2>4. \A k \in Ahead(s, ClientNum) : k \in Ahead(s, ClientNum') /\ Session'[k] = Session[k]
    <3> SUFFICES ASSUME NEW k \in Ahead(s, ClientNum)
                 PROVE  k \in Ahead(s, ClientNum') /\ Session'[k] = Session[k]
      OBVIOUS
    <3>1. k \in 0 .. ClientNum - 1 /\ k # ClientNum /\ k \in 0 .. ClientNum' - 1 /\ k \in Entries
      BY <1>2 DEF Ahead, Entries
    <3> QED BY <1>3, <3>1 DEF Ahead
  <2>5. s.pc = "calling" => Session'[s.i] \in {c, Session[s.i]}
    BY <1>2, <1>3, <2>1 DEF LoopInv, Entries
  <2>6. ToldInv(s, Session', ClientNum')
    BY <2>1, <2>2, <2>3, <2>5 DEF ToldInv, Sending
  <2>7. ClientNum' > 0
    BY <1>2
  <2>8. PresentInv(s, Session', ClientNum')
    BY <2>1, <2>4, <2>7 DEF PresentInv
  <2> QED BY <2>6, <2>8
<1> QED BY <1>2, <1>4 DEF ClientsInv

\* The sessions above the one removed move down: what is still to come stays so,
\* and the entry a task has tested becomes the next one.
LEMMA ClientsRemoves == ASSUME SendInv, ClientsInv, ServerRemoves PROVE ClientsInv'
<1>1. PICK k \in 0 .. ClientNum - 1 :
        /\ Session' = MovedUp(k)
        /\ ClientNum' = ClientNum - 1
        /\ sender' = [t \in Tasks |->
             IF sender[t].pc = "delay" THEN sender[t]
             ELSE [sender[t] EXCEPT !.left = TRUE, !.removed = TRUE, !.raced = TRUE,
                                    !.present = @ \ {Session[k]}]]
  BY DEF ServerRemoves
<1>2. /\ ClientNum \in Nat /\ ClientNum <= MaxClients /\ MaxClients \in Nat
      /\ ClientNum' = ClientNum - 1
  <2>1. ClientNum' = ClientNum - 1
    BY <1>1
  <2> QED BY <2>1, SendAssumption DEF SendInv, TypeOK
<1>3. /\ \A j \in Entries :
           Session'[j] = IF j >= k /\ j <= ClientNum - 2 THEN Session[j + 1] ELSE Session[j]
      /\ \A j \in 0 .. ClientNum - 1 : j \in Entries
  BY <1>1, Removal
<1>4. ASSUME NEW t \in Tasks
      PROVE  ToldInv(sender'[t], Session', ClientNum') /\ PresentInv(sender'[t], Session', ClientNum')
  <2> DEFINE s == sender[t]
  <2>1. /\ s \in Sender /\ s.i \in Nat /\ LoopInv(s, Session, ClientNum)
        /\ ToldInv(s, Session, ClientNum) /\ PresentInv(s, Session, ClientNum)
    BY Facts DEF ClientsInv, Sender
  <2>2. CASE s.pc = "delay"
    <3>1. sender'[t] = s
      BY <1>1, <2>2
    <3> QED BY <2>2, <3>1 DEF ToldInv, PresentInv, Sending
  <2>3. CASE s.pc # "delay"
    <3> DEFINE r == [s EXCEPT !.left = TRUE, !.removed = TRUE, !.raced = TRUE,
                              !.present = @ \ {Session[k]}]
    <3>1. /\ r.pc = s.pc /\ r.i = s.i /\ r.told = s.told /\ r.conn = s.conn
          /\ r.left /\ r.removed /\ r.matched = s.matched
          /\ r.packet = s.packet /\ r.clientID = s.clientID
      BY <2>1 DEF Sender
    <3>2. sender'[t] = r
      BY <1>1, <2>3
    <3> HIDE DEF r
    <3>3. \A j \in Ahead(r, ClientNum') : \E h \in Ahead(s, ClientNum) : Session'[j] = Session[h]
      <4> SUFFICES ASSUME NEW j \in Ahead(r, ClientNum')
                   PROVE  \E h \in Ahead(s, ClientNum) : Session'[j] = Session[h]
        OBVIOUS
      <4>1. j \in 0 .. ClientNum - 1 /\ j + 1 \in 0 .. ClientNum - 1 /\ j <= ClientNum - 2
        BY <1>2 DEF Ahead
      <4>2. j \in Ahead(s, ClientNum) /\ j + 1 \in Ahead(s, ClientNum)
        BY <2>1, <3>1, <4>1 DEF Ahead
      <4> QED BY <1>3, <4>1, <4>2
    <3>4. s.pc = "calling" =>
            \/ Session'[s.i] = Session[s.i]
            \/ \E h \in Ahead(s, ClientNum) : Session'[s.i] = Session[h]
      <4> SUFFICES ASSUME s.pc = "calling", Session'[s.i] # Session[s.i]
                   PROVE  \E h \in Ahead(s, ClientNum) : Session'[s.i] = Session[h]
        OBVIOUS
      <4>1. s.i \in Entries
        BY <1>2, <2>1 DEF LoopInv, Entries
      <4>2. s.i <= ClientNum - 2 /\ Session'[s.i] = Session[s.i + 1]
        BY <1>3, <4>1
      <4>3. s.i + 1 \in Ahead(s, ClientNum)
        BY <1>2, <2>1, <4>2 DEF Ahead
      <4> QED BY <4>2, <4>3
    <3>5. ToldInv(r, Session', ClientNum')
      BY <2>1, <3>1, <3>3, <3>4 DEF ToldInv, Sending
    <3>6. PresentInv(r, Session', ClientNum')
      BY <2>1, <3>1 DEF PresentInv
    <3> QED BY <3>2, <3>5, <3>6
  <2> QED BY <2>2, <2>3
<1> QED BY <1>4 DEF ClientsInv

LEMMA ClientsStep == SendInv /\ ClientsInv /\ [Next]_vars => ClientsInv'
<1> SUFFICES ASSUME SendInv, ClientsInv, [Next]_vars PROVE ClientsInv'
  OBVIOUS
<1>1. CASE UNCHANGED <<Session, ClientNum, sender>>
  BY <1>1 DEF ClientsInv
<1>2. CASE ServerAdds
  BY <1>2, ClientsAdds
<1>3. CASE ServerRemoves
  BY <1>3, ClientsRemoves
<1>4. CASE OdStartsTracking \/ TrTriggersCamera
  <2>1. PICK t \in Tasks, clientID \in {0, 1} : BuildAndSend(t, clientID)
    BY <1>4 DEF OdStartsTracking, TrTriggersCamera, Tasks
  <2> QED BY <2>1, ClientsBuild
<1>5. ASSUME NEW t \in Tasks, StartPass(t) \/ EndPass(t) \/ TCPSendPacket(t) PROVE ClientsInv'
  BY <1>5, ClientsPass, ClientsTests, ClientsCalls, ClientsWriteEnds, ClientsFrees
     DEF TCPSendPacket
<1>6. CASE UNCHANGED vars \/ OthersAllocate \/ OthersFree \/ TrPushesOut
  BY <1>1, <1>6 DEF vars, OthersAllocate, OthersFree, TrPushesOut
<1> QED BY <1>2, <1>3, <1>4, <1>5, <1>6 DEF Next, Run, Stop

\* What EveryClientTold says of a task whose variables go from s to r.
Tells(s, r) ==
  /\ s.pc = "writing" /\ r.pc = "freeing" => s.conn \notin s.told
  /\ s.pc = "testing" /\ r.pc = "pass" /\ s.clientID = 0
       => /\ s.removed \/ s.packet = Null \/ s.present \subseteq s.told
          /\ s.left \/ s.packet = Null \/ s.matched > 0

\* A step that keeps where each task is, or takes one task somewhere else.
LEMMA TellsStep ==
  ASSUME SendInv, ClientsInv, [Next]_vars, NEW t \in Tasks PROVE Tells(sender[t], sender'[t])
<1> DEFINE s == sender[t]
<1>1. /\ s \in Sender /\ ClientNum \in Nat
      /\ ToldInv(s, Session, ClientNum) /\ PresentInv(s, Session, ClientNum)
  BY Facts DEF ClientsInv
<1>2. s.pc = "writing" => s.conn \notin s.told
  BY <1>1 DEF ToldInv
<1>3. CASE sender'[t].pc # "pass" \/ s.pc # "testing"
  BY <1>2, <1>3 DEF Tells
<1>4. CASE sender'[t].pc = "pass" /\ s.pc = "testing"
  <2>0. sender \in [Tasks -> Sender]
    BY DEF SendInv, TypeOK
  <2>1. ~(s.i < ClientNum)
    <3>1. ~UNCHANGED sender
      BY <1>4
    <3>2. ~ServerRemoves
      <4>1. \A a : [s EXCEPT !.left = TRUE, !.removed = TRUE, !.raced = TRUE,
                             !.present = @ \ a].pc = s.pc
        BY <1>1 DEF Sender
      <4> QED BY <1>4, <4>1, ZenonT(40) DEF ServerRemoves
    <3>3. ASSUME NEW u \in Tasks, u # t,
                 StartPass(u) \/ EndPass(u) \/ TCPSendPacket(u)
                   \/ \E clientID \in {0, 1} : BuildAndSend(u, clientID)
          PROVE  FALSE
      <4>1. \A r : sender' = [sender EXCEPT ![u] = r] => sender'[t] = s
        BY <2>0, <3>3
      <4>2. \E r : sender' = [sender EXCEPT ![u] = r]
        BY <3>3 DEF StartPass, EndPass, TCPSendPacket, Tests, Calls, WriteEnds, Frees, Returns,
                    BuildAndSend
      <4> QED BY <1>4, <4>1, <4>2
    <3>4. ~(StartPass(t) \/ EndPass(t) \/ Calls(t) \/ WriteEnds(t) \/ Frees(t)
             \/ \E clientID \in {0, 1} : BuildAndSend(t, clientID))
      BY <1>4 DEF StartPass, EndPass, Calls, WriteEnds, Frees, BuildAndSend, At
    <3>5. ~Tests(t)
      <4>1. /\ [s EXCEPT !.pc = "calling", !.raced = FALSE].pc = "calling"
            /\ [s EXCEPT !.i = @ + 1].pc = s.pc
        BY <1>1 DEF Sender
      <4>2. Tests(t) => sender'[t] \in {[s EXCEPT !.pc = "calling", !.raced = FALSE],
                                       [s EXCEPT !.i = @ + 1]}
        BY <2>0 DEF Tests
      <4> QED BY <1>4, <4>1, <4>2
    <3>6. CASE Returns(t)
      BY <3>6 DEF Returns, MoreSessions
    <3>7. ~(ServerAdds \/ OthersAllocate \/ OthersFree \/ TrPushesOut \/ UNCHANGED vars)
      BY <3>1 DEF ServerAdds, OthersAllocate, OthersFree, TrPushesOut, vars
    <3>8. OdStartsTracking \/ TrTriggersCamera =>
            \E u \in Tasks : \E clientID \in {0, 1} : BuildAndSend(u, clientID)
      BY DEF OdStartsTracking, TrTriggersCamera, Tasks
    <3> QED BY <3>2, <3>3, <3>4, <3>5, <3>6, <3>7, <3>8 DEF Next, Run, Stop, TCPSendPacket
  <2>2. Ahead(s, ClientNum) = {}
    BY <1>1, <1>4, <2>1 DEF Ahead, Sender
  <2>3. s.clientID = 0 /\ s.packet # Null /\ ~s.removed => s.present \subseteq s.told
    BY <1>1, <1>4, <2>2 DEF PresentInv, Sending
  <2>4. s.clientID = 0 /\ s.packet # Null /\ ~s.left => s.matched > 0
    BY <1>1, <1>4, <2>1 DEF PresentInv, Sending, Sender
  <2> QED BY <1>2, <2>3, <2>4 DEF Tells
<1> QED BY <1>3, <1>4

\* No client gets a packet twice, and when TCPSendPacket returns every client
\* that was there all the time has it, unless a session was removed meanwhile, a
\* write failed, or there was no memory for the packet.
THEOREM EveryClientIsTold == Spec => EveryClientTold
<1>1. Init => ClientsInv
  BY DEF Init, ClientsInv, Idle, ToldInv, PresentInv, Sending
<1>2. SendInv /\ ClientsInv /\ [Next]_vars =>
        [\A t \in Tasks :
           LET s == sender[t]
           IN /\ s.pc = "writing" /\ sender'[t].pc = "freeing" => s.conn \notin s.told
              /\ s.pc = "testing" /\ sender'[t].pc = "pass" /\ s.clientID = 0
                   => /\ s.removed \/ s.packet = Null \/ s.present \subseteq s.told
                      /\ s.left \/ s.packet = Null \/ s.matched > 0]_vars
  BY TellsStep DEF Tells
<1> QED BY <1>1, <1>2, InitInv, NextInv, ClientsStep, PTL DEF Spec, EveryClientTold
=============================================================================
