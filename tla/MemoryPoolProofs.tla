--------------------------- MODULE MemoryPoolProofs ---------------------------
(***************************************************************************)
(* MemoryPool keeps its types whoever calls it.  For any number of tasks   *)
(* and pools and requests of every size, it implements Allocator and its   *)
(* table matches its owners as long as no two tasks are inside mymalloc at *)
(* once, and it fails only when it must for a task alone while it searches.*)
(***************************************************************************)
EXTENDS MemoryPool, TLAPS

-----------------------------------------------------------------------------
(* Type correctness, for any tasks.                                        *)

LEMMA BlocksForType ==
  ASSUME NEW size \in Nat \ {0}
  PROVE  BlocksFor(size) \in Nat \ {0}
<1>1. BlockBytes \in Nat \ {0}
  BY PoolAssumption
<1>2. /\ size \div BlockBytes \in Nat
      /\ size % BlockBytes \in Nat
      /\ size = BlockBytes * (size \div BlockBytes) + (size % BlockBytes)
  BY <1>1
<1>3. size \div BlockBytes = 0 => size % BlockBytes # 0
  <2>. SUFFICES ASSUME size \div BlockBytes = 0
                PROVE  size = size % BlockBytes
    OBVIOUS
  <2>. QED
    BY <1>1, <1>2
<1>. QED
  BY <1>2, <1>3 DEF BlocksFor

\* What the search and the marking stand on.
InLoop ==
  \A t \in Tasks :
    /\ pc[t] = "search" => offset[t] \in -1 .. PoolBlocks - 1 /\ nmemb[t] # 0
    /\ pc[t] = "mark" => offset[t] \in Blocks /\ nmemb[t] # 0

TypeInv == TypeOK /\ InLoop

LEMMA TypeInit == Init => TypeInv
BY PoolAssumption DEF Init, TypeInv, TypeOK, InLoop, Blocks

LEMMA TypeMalloc ==
  ASSUME TypeInv, NEW t \in Tasks, NEW size \in RequestSizes, Malloc(t, size)
  PROVE  TypeInv'
<1>1. BlocksFor(size) \in Nat \ {0}
  BY BlocksForType, PoolAssumption DEF Malloc
<1>2. PoolBlocks - 1 \in Blocks
  BY PoolAssumption DEF Blocks
<1>3. TypeOK'
  BY <1>1, <1>2, PoolAssumption DEF TypeInv, TypeOK, Malloc
<1>4. InLoop'
  BY <1>1, <1>2, PoolAssumption, SMTT(20)
  DEF TypeInv, TypeOK, InLoop, Malloc, Blocks
<1>. QED
  BY <1>3, <1>4 DEF TypeInv

LEMMA TypeSearch ==
  ASSUME TypeInv, NEW t \in Tasks, Search(t)
  PROVE  TypeInv'
<1>1. offset[t] \in Blocks
  BY DEF TypeInv, InLoop, Search, Exhausted, Blocks
<1>2. RunLength(t) \in Nat
  BY <1>1 DEF TypeInv, TypeOK, RunLength
<1>3. TypeOK'
  <2>1. cmemb' \in [Tasks -> Nat] /\ i' \in [Tasks -> Nat]
    BY <1>2 DEF TypeInv, TypeOK, Search
  <2>2. offset' \in [Tasks -> Int]
    BY DEF TypeInv, TypeOK, Search
  <2>3. pc' \in [Tasks -> {"out", "search", "mark", "clear"}]
    BY DEF TypeInv, TypeOK, Search
  <2>. QED
    BY <2>1, <2>2, <2>3 DEF TypeInv, TypeOK, Search
<1>4. InLoop'
  <2>1. CASE RunLength(t) = nmemb[t]
    BY <1>1, <2>1 DEF TypeInv, TypeOK, InLoop, Search, Blocks
  <2>2. CASE RunLength(t) # nmemb[t]
    <3>1. offset' = [offset EXCEPT ![t] = @ - 1] /\ UNCHANGED <<pc, nmemb>>
      BY <2>2 DEF Search
    <3>2. offset[t] - 1 \in -1 .. PoolBlocks - 1
      BY <1>1, PoolAssumption DEF Blocks
    <3>. QED
      BY <3>1, <3>2 DEF TypeInv, TypeOK, InLoop, Search
  <2>. QED
    BY <2>1, <2>2
<1>. QED
  BY <1>3, <1>4 DEF TypeInv

LEMMA TypeFail ==
  ASSUME TypeInv, NEW t \in Tasks, Fail(t)
  PROVE  TypeInv'
BY DEF TypeInv, TypeOK, InLoop, Fail, locals

LEMMA TypeMark ==
  ASSUME TypeInv, NEW t \in Tasks, Mark(t)
  PROVE  TypeInv'
<1>1. [base |-> offset[t], size |-> nmemb[t]] \in [base : Blocks, size : Nat \ {0}]
  BY DEF TypeInv, TypeOK, InLoop, Mark
<1>2. memmap' \in [Blocks -> Nat] /\ i' \in [Tasks -> Nat]
  <2>1. memmap' = [memmap EXCEPT ![offset[t] + i[t]] = nmemb[t]]
    BY DEF Mark
  <2>2. i' = [i EXCEPT ![t] = @ + 1]
    BY DEF Mark
  <2>3. memmap' \in [Blocks -> Nat]
    BY <2>1 DEF TypeInv, TypeOK
  <2>. QED
    BY <2>2, <2>3 DEF TypeInv, TypeOK
<1>3. owned' \subseteq [base : Blocks, size : Nat \ {0}]
  BY <1>1 DEF TypeInv, TypeOK, Mark
<1>4. pc' \in [Tasks -> {"out", "search", "mark", "clear"}]
  BY DEF TypeInv, TypeOK, Mark
<1>5. TypeOK'
  BY <1>2, <1>3, <1>4 DEF TypeInv, TypeOK, Mark
<1>6. InLoop'
  BY DEF TypeInv, TypeOK, InLoop, Mark
<1>. QED
  BY <1>5, <1>6 DEF TypeInv

LEMMA TypeFree ==
  ASSUME TypeInv, NEW t \in Tasks, NEW a \in owned, Free(t, a)
  PROVE  TypeInv'
<1>1. a.base \in Blocks /\ memmap[a.base] \in Nat /\ a.base \in Int
  BY DEF TypeInv, TypeOK, Blocks
<1>2. TypeOK'
  BY <1>1 DEF TypeInv, TypeOK, Free
<1>3. InLoop'
  BY DEF TypeInv, TypeOK, InLoop, Free
<1>. QED
  BY <1>2, <1>3 DEF TypeInv

LEMMA TypeClear ==
  ASSUME TypeInv, NEW t \in Tasks, Clear(t)
  PROVE  TypeInv'
<1>1. memmap' \in [Blocks -> Nat] /\ i' \in [Tasks -> Nat]
  BY DEF TypeInv, TypeOK, Clear
<1>2. TypeOK'
  BY <1>1 DEF TypeInv, TypeOK, Clear
<1>3. InLoop'
  BY DEF TypeInv, TypeOK, InLoop, Clear
<1>. QED
  BY <1>2, <1>3 DEF TypeInv

LEMMA TypeStep == TypeInv /\ [Next]_vars => TypeInv'
<1>. SUFFICES ASSUME TypeInv, [Next]_vars PROVE TypeInv'
  OBVIOUS
<1>1. CASE Next
  BY <1>1, TypeMalloc, TypeSearch, TypeFail, TypeMark, TypeFree, TypeClear DEF Next
<1>2. CASE UNCHANGED vars
  BY <1>2 DEF TypeInv, TypeOK, InLoop, vars, locals
<1>. QED
  BY <1>1, <1>2

\* Whoever calls the pool, its table and the locals of its functions keep
\* their types, and the search and the marking begin inside the table.
THEOREM PoolTypeCorrect == Spec => []TypeOK
<1>1. TypeInv => TypeOK
  BY DEF TypeInv
<1>. QED
  BY <1>1, TypeInit, TypeStep, PTL DEF Spec

-----------------------------------------------------------------------------
(* A pool that several tasks use.  Two of them inside mymalloc take the    *)
(* same blocks; myfree may interrupt mymalloc and itself, and be           *)
(* interrupted.                                                            *)

InMalloc(t) == pc[t] \in {"search", "mark"}

\* What the code leaves to the callers.
OneMallocs == \A t, u \in Tasks : InMalloc(t) /\ InMalloc(u) => t = u

\* The range task t marks or clears.
Range(t) == [base |-> offset[t], size |-> nmemb[t]]

\* The blocks that task t has found, or is still to give back.
Held(t) ==
  {b \in Blocks :
     \/ pc[t] = "mark" /\ b \in offset[t] .. offset[t] + nmemb[t] - 1
     \/ pc[t] = "clear" /\ b \in offset[t] + i[t] .. offset[t] + nmemb[t] - 1}

\* The blocks of an owner are marked, and its own alone.
OwnersInv ==
  /\ \A a \in owned : a.base + a.size <= PoolBlocks
  /\ \A a \in owned : \A b \in Pool!BlocksOf(a) : memmap[b] = a.size
  /\ \A a, b \in owned : a # b => Pool!Disjoint(a, b)

\* The search stands below a run of cmemb free blocks, too short: it stays free,
\* since only mymalloc marks.
RunInv(t) ==
  pc[t] = "search" =>
    /\ cmemb[t] < nmemb[t]
    /\ offset[t] + cmemb[t] < PoolBlocks
    /\ \A b \in offset[t] + 1 .. offset[t] + cmemb[t] : memmap[b] = 0

\* What is not marked yet of the run found is free.
MarkInv(t) ==
  pc[t] = "mark" =>
    /\ i[t] < nmemb[t]
    /\ offset[t] + nmemb[t] <= PoolBlocks
    /\ \A b \in offset[t] .. offset[t] + i[t] - 1 : memmap[b] = nmemb[t]
    /\ \A b \in offset[t] + i[t] .. offset[t] + nmemb[t] - 1 : memmap[b] = 0

\* What is not cleared yet of the range returned looks used, so that no search
\* takes it; what is cleared may be another's already.
ClearInv(t) ==
  pc[t] = "clear" =>
    /\ offset[t] \in Blocks
    /\ i[t] <= nmemb[t]
    /\ offset[t] + nmemb[t] <= PoolBlocks
    /\ \A b \in offset[t] + i[t] .. offset[t] + nmemb[t] - 1 : memmap[b] # 0

\* A block held is no owner's and no other task's.
HeldApart ==
  /\ \A t \in Tasks : \A b \in Held(t) : \A a \in owned : b \notin Pool!BlocksOf(a)
  /\ \A t, u \in Tasks : \A b \in Held(t) : b \in Held(u) => t = u

\* A block in use is an owner's, or held.
UsedInv ==
  \A b \in Blocks :
    memmap[b] # 0 =>
      \/ \E a \in owned : b \in Pool!BlocksOf(a)
      \/ \E t \in Tasks : b \in Held(t)

TaskInv(t) == RunInv(t) /\ MarkInv(t) /\ ClearInv(t)

BlocksInv == OwnersInv /\ HeldApart /\ UsedInv

PoolInv == TypeInv /\ BlocksInv /\ \A t \in Tasks : TaskInv(t)

LEMMA DisjointBlocks ==
  ASSUME NEW a, NEW b
  PROVE  Pool!Disjoint(a, b) <=> \A x \in Pool!BlocksOf(a) : x \notin Pool!BlocksOf(b)
BY DEF Pool!Disjoint

\* The types, seen by one call.
LEMMA LocalTypes ==
  ASSUME TypeInv, NEW t \in Tasks
  PROVE  /\ PoolBlocks \in Nat \ {0}
         /\ nmemb[t] \in Nat /\ cmemb[t] \in Nat /\ offset[t] \in Int /\ i[t] \in Nat
         /\ \A b \in Blocks : memmap[b] \in Nat
         /\ \A a \in owned : a.base \in Blocks /\ a.size \in Nat \ {0}
         /\ Blocks \subseteq Nat
BY PoolAssumption DEF TypeInv, TypeOK, Blocks

\* The blocks of an owner are blocks of the table, and in use.
LEMMA OwnedBlocks ==
  ASSUME TypeInv, OwnersInv, NEW a \in owned, NEW b \in Pool!BlocksOf(a)
  PROVE  b \in Blocks /\ memmap[b] = a.size /\ memmap[b] # 0
<1>1. /\ a.base \in Nat /\ a.size \in Nat \ {0} /\ a.base + a.size <= PoolBlocks
      /\ PoolBlocks \in Nat
  BY PoolAssumption DEF TypeInv, TypeOK, OwnersInv, Blocks
<1>2. b \in a.base .. a.base + a.size - 1
  BY DEF Pool!BlocksOf
<1>3. memmap[b] = a.size
  BY DEF OwnersInv
<1>. QED
  BY <1>1, <1>2, <1>3 DEF Blocks

\* What task t does, and that it leaves the others where they are.
Step(t) ==
  \/ \E size \in RequestSizes : Malloc(t, size)
  \/ Search(t)
  \/ Fail(t)
  \/ Mark(t)
  \/ \E a \in owned : Free(t, a)
  \/ Clear(t)

LEMMA OthersStay ==
  ASSUME TypeInv, NEW t \in Tasks, Step(t), NEW u \in Tasks, u # t
  PROVE  /\ pc'[u] = pc[u] /\ nmemb'[u] = nmemb[u] /\ cmemb'[u] = cmemb[u]
         /\ offset'[u] = offset[u] /\ i'[u] = i[u]
         /\ Held(u)' = Held(u)
<1>1. pc'[u] = pc[u]
  BY DEF TypeInv, TypeOK, Step, Malloc, Search, Fail, Mark, Free, Clear, locals
<1>2. nmemb'[u] = nmemb[u]
  BY DEF TypeInv, TypeOK, Step, Malloc, Search, Fail, Mark, Free, Clear, locals
<1>3. cmemb'[u] = cmemb[u]
  BY DEF TypeInv, TypeOK, Step, Malloc, Search, Fail, Mark, Free, Clear, locals
<1>4. offset'[u] = offset[u]
  BY DEF TypeInv, TypeOK, Step, Malloc, Search, Fail, Mark, Free, Clear, locals
<1>5. i'[u] = i[u]
  BY DEF TypeInv, TypeOK, Step, Malloc, Search, Fail, Mark, Free, Clear, locals
<1>6. Held(u)' = Held(u)
  BY <1>1, <1>2, <1>4, <1>5 DEF Held
<1>. QED
  BY <1>1, <1>2, <1>3, <1>4, <1>5, <1>6

LEMMA PoolInit == Init => PoolInv
<1>. SUFFICES ASSUME Init PROVE PoolInv
  OBVIOUS
<1>1. TypeInv
  BY TypeInit
<1>2. \A t \in Tasks : pc[t] = "out"
  BY DEF Init
<1>3. \A b \in Blocks : memmap[b] = 0
  BY DEF Init, Blocks
<1>4. owned = {}
  BY DEF Init
<1>5. BlocksInv
  BY <1>2, <1>3, <1>4 DEF BlocksInv, OwnersInv, HeldApart, UsedInv, Held
<1>6. \A t \in Tasks : TaskInv(t)
  BY <1>2 DEF TaskInv, RunInv, MarkInv, ClearInv
<1>. QED
  BY <1>1, <1>5, <1>6 DEF PoolInv

\* A step that changes neither the table nor what is held or owned.
LEMMA QuietBlocks ==
  ASSUME BlocksInv, UNCHANGED <<memmap, owned>>, \A u \in Tasks : Held(u)' = Held(u)
  PROVE  BlocksInv'
<1>1. OwnersInv'
  BY DEF BlocksInv, OwnersInv
<1>2. HeldApart'
  <2>1. ASSUME NEW t \in Tasks, NEW b \in Held(t)', NEW a \in owned'
        PROVE  b \notin Pool!BlocksOf(a)
    BY <2>1 DEF BlocksInv, HeldApart
  <2>2. ASSUME NEW t \in Tasks, NEW u \in Tasks, NEW b \in Held(t)', b \in Held(u)'
        PROVE  t = u
    BY <2>2 DEF BlocksInv, HeldApart
  <2>. QED
    BY <2>1, <2>2 DEF HeldApart
<1>3. UsedInv'
  <2>1. ASSUME NEW b \in Blocks, memmap'[b] # 0,
               \A a \in owned : b \notin Pool!BlocksOf(a)
        PROVE  \E t \in Tasks : b \in Held(t)'
    BY <2>1 DEF BlocksInv, UsedInv
  <2>. QED
    BY <2>1 DEF UsedInv
<1>. QED
  BY <1>1, <1>2, <1>3 DEF BlocksInv

\* A step of t that leaves the table alone leaves the others' part.
LEMMA QuietTasks ==
  ASSUME PoolInv, NEW t \in Tasks, Step(t), memmap' = memmap, NEW u \in Tasks, u # t
  PROVE  TaskInv(u)'
<1>1. /\ pc'[u] = pc[u] /\ nmemb'[u] = nmemb[u] /\ cmemb'[u] = cmemb[u]
      /\ offset'[u] = offset[u] /\ i'[u] = i[u]
  BY OthersStay DEF PoolInv
<1>2. RunInv(u) /\ MarkInv(u) /\ ClearInv(u)
  BY DEF PoolInv, TaskInv
<1>3. RunInv(u)'
  BY <1>1, <1>2 DEF RunInv
<1>4. MarkInv(u)'
  BY <1>1, <1>2 DEF MarkInv
<1>5. ClearInv(u)'
  BY <1>1, <1>2 DEF ClearInv
<1>. QED
  BY <1>3, <1>4, <1>5 DEF TaskInv

LEMMA PoolMalloc ==
  ASSUME PoolInv, NEW t \in Tasks, NEW size \in RequestSizes, Malloc(t, size)
  PROVE  PoolInv'
<1>1. TypeInv'
  BY TypeMalloc DEF PoolInv
<1>2. /\ pc[t] = "out" /\ pc'[t] = "search" /\ cmemb'[t] = 0
      /\ offset'[t] = PoolBlocks - 1 /\ nmemb'[t] = BlocksFor(size)
      /\ UNCHANGED <<memmap, owned>>
  BY DEF PoolInv, TypeInv, TypeOK, Malloc
<1>3. nmemb'[t] \in Nat \ {0}
  BY <1>2, BlocksForType, PoolAssumption DEF Malloc
<1>4. Step(t)
  BY DEF Step
<1>5. TaskInv(t)'
  <2>1. RunInv(t)'
    BY <1>2, <1>3, PoolAssumption DEF RunInv
  <2>. QED
    BY <1>2, <2>1 DEF TaskInv, MarkInv, ClearInv
<1>6. \A u \in Tasks : TaskInv(u)'
  BY <1>2, <1>4, <1>5, QuietTasks
<1>7. \A u \in Tasks : Held(u)' = Held(u)
  <2>1. Held(t)' = Held(t)
    BY <1>2 DEF Held
  <2>. QED
    BY <1>4, <2>1, OthersStay DEF PoolInv
<1>8. BlocksInv'
  BY <1>2, <1>7, QuietBlocks DEF PoolInv
<1>. QED
  BY <1>1, <1>6, <1>8 DEF PoolInv

LEMMA PoolFail ==
  ASSUME PoolInv, NEW t \in Tasks, Fail(t)
  PROVE  PoolInv'
<1>1. TypeInv'
  BY TypeFail DEF PoolInv
<1>2. pc[t] = "search" /\ pc'[t] = "out" /\ UNCHANGED <<memmap, owned>>
  BY DEF PoolInv, TypeInv, TypeOK, Fail
<1>3. Step(t)
  BY DEF Step
<1>4. TaskInv(t)'
  BY <1>2 DEF TaskInv, RunInv, MarkInv, ClearInv
<1>5. \A u \in Tasks : TaskInv(u)'
  BY <1>2, <1>3, <1>4, QuietTasks
<1>6. \A u \in Tasks : Held(u)' = Held(u)
  <2>1. Held(t)' = Held(t)
    BY <1>2 DEF Held
  <2>. QED
    BY <1>3, <2>1, OthersStay DEF PoolInv
<1>7. BlocksInv'
  BY <1>2, <1>6, QuietBlocks DEF PoolInv
<1>. QED
  BY <1>1, <1>5, <1>7 DEF PoolInv

\* The run found is nobody's: what owners have, and what tasks inside myfree have
\* not yet given back, looks used.
LEMMA PoolSearch ==
  ASSUME PoolInv, OneMallocs, NEW t \in Tasks, Search(t)
  PROVE  PoolInv'
<1>. DEFINE o == offset[t]
            n == nmemb[t]
            c == cmemb[t]
<1>1. TypeInv'
  BY TypeSearch DEF PoolInv
<1>2. /\ pc[t] = "search" /\ o \in Blocks /\ UNCHANGED <<memmap, nmemb, owned>>
      /\ cmemb'[t] = RunLength(t)
  BY DEF PoolInv, TypeInv, TypeOK, InLoop, Search, Exhausted, Blocks
<1>3. /\ PoolBlocks \in Nat /\ n \in Nat /\ c \in Nat /\ o \in Nat /\ c < n
      /\ o + c < PoolBlocks
      /\ \A b \in o + 1 .. o + c : memmap[b] = 0
  BY <1>2, LocalTypes DEF PoolInv, TaskInv, RunInv
<1>4. Step(t)
  BY DEF Step
<1>5. \A u \in Tasks \ {t} : TaskInv(u)'
  BY <1>2, <1>4, QuietTasks
<1>6. \A u \in Tasks \ {t} : Held(u)' = Held(u)
  BY <1>4, OthersStay DEF PoolInv
<1>7. CASE RunLength(t) = n
  <2>1. pc'[t] = "mark" /\ i'[t] = 0 /\ offset'[t] = o /\ nmemb'[t] = n
    BY <1>2, <1>7 DEF PoolInv, TypeInv, TypeOK, Search
  <2>2. memmap[o] = 0 /\ n = c + 1
    BY <1>3, <1>7 DEF RunLength
  <2>3. \A b \in o .. o + n - 1 : b \in Blocks /\ memmap[b] = 0
    BY <1>3, <2>2 DEF Blocks
  <2>4. TaskInv(t)'
    <3>1. MarkInv(t)'
      BY <1>2, <1>3, <2>1, <2>2, <2>3 DEF MarkInv
    <3>. QED
      BY <2>1, <3>1 DEF TaskInv, RunInv, ClearInv
  <2>5. Held(t)' = o .. o + n - 1
    BY <2>1, <2>3 DEF Held
  <2>6. ASSUME NEW u \in Tasks \ {t}, NEW b \in Held(u)
        PROVE  b \notin Held(t)'
    <3>1. pc[u] # "mark"
      BY <1>2, <2>6 DEF OneMallocs, InMalloc
    <3>2. memmap[b] # 0
      BY <2>6, <3>1 DEF Held, PoolInv, TaskInv, ClearInv
    <3>. QED
      BY <2>3, <2>5, <3>2
  <2>7. HeldApart'
    <3>1. ASSUME NEW u \in Tasks, NEW b \in Held(u)', NEW a \in owned'
          PROVE  b \notin Pool!BlocksOf(a)
      <4>1. CASE u = t
        <5>1. memmap[b] = 0
          BY <2>3, <2>5, <3>1, <4>1
        <5>2. a \in owned
          BY <1>2, <3>1
        <5>. QED
          BY <5>1, <5>2, OwnedBlocks DEF PoolInv, BlocksInv
      <4>2. CASE u # t
        BY <1>2, <1>6, <3>1, <4>2 DEF PoolInv, BlocksInv, HeldApart
      <4>. QED
        BY <4>1, <4>2
    <3>2. ASSUME NEW u \in Tasks, NEW v \in Tasks, NEW b \in Held(u)', b \in Held(v)'
          PROVE  u = v
      BY <1>6, <2>6, <3>2 DEF PoolInv, BlocksInv, HeldApart
    <3>. QED
      BY <3>1, <3>2 DEF HeldApart
  <2>8. UsedInv'
    <3>. SUFFICES ASSUME NEW b \in Blocks, memmap[b] # 0,
                         \A a \in owned : b \notin Pool!BlocksOf(a)
                  PROVE  \E u \in Tasks : b \in Held(u)'
      BY <1>2 DEF UsedInv
    <3>1. PICK u \in Tasks : b \in Held(u)
      BY DEF PoolInv, BlocksInv, UsedInv
    <3>2. u # t
      BY <1>2, <3>1 DEF Held
    <3>. QED
      BY <1>6, <3>1, <3>2
  <2>9. OwnersInv'
    BY <1>2 DEF PoolInv, BlocksInv, OwnersInv
  <2>. QED
    BY <1>1, <1>5, <2>4, <2>7, <2>8, <2>9 DEF PoolInv, BlocksInv
<1>8. CASE RunLength(t) # n
  <2>1. pc'[t] = "search" /\ offset'[t] = o - 1 /\ nmemb'[t] = n
    BY <1>2, <1>8 DEF PoolInv, TypeInv, TypeOK, Search
  <2>2. RunInv(t)'
    <3>1. CASE memmap[o] = 0
      <4>1. RunLength(t) = c + 1 /\ c + 1 < n
        BY <1>3, <1>8, <3>1 DEF RunLength
      <4>2. \A b \in o .. o - 1 + (c + 1) : memmap[b] = 0
        BY <1>3, <3>1
      <4>. QED
        BY <1>2, <1>3, <2>1, <4>1, <4>2 DEF RunInv
    <3>2. CASE memmap[o] # 0
      <4>1. RunLength(t) = 0 /\ 0 < n
        BY <1>3, <3>2 DEF RunLength
      <4>2. o - 1 + 0 < PoolBlocks /\ o - 1 + 1 .. o - 1 + 0 = {}
        BY <1>3
      <4>. QED
        BY <1>2, <2>1, <4>1, <4>2 DEF RunInv
    <3>. QED
      BY <3>1, <3>2
  <2>3. TaskInv(t)'
    BY <2>1, <2>2 DEF TaskInv, MarkInv, ClearInv
  <2>4. Held(t)' = Held(t)
    BY <1>2, <2>1 DEF Held
  <2>5. BlocksInv'
    BY <1>2, <1>6, <2>4, QuietBlocks DEF PoolInv
  <2>. QED
    BY <1>1, <1>5, <2>3, <2>5 DEF PoolInv
<1>. QED
  BY <1>7, <1>8

LEMMA PoolMark ==
  ASSUME PoolInv, OneMallocs, NEW t \in Tasks, Mark(t)
  PROVE  /\ PoolInv'
         /\ \/ owned' = owned
            \/ Pool!Allocate(Range(t)) /\ Range(t) \in Pool!Ranges
<1>. DEFINE o == offset[t]
            n == nmemb[t]
            k == i[t]
<1>1. TypeInv'
  BY TypeMark DEF PoolInv
<1>2. /\ pc[t] = "mark" /\ o \in Blocks /\ n # 0 /\ UNCHANGED <<nmemb, offset>>
      /\ memmap' = [memmap EXCEPT ![o + k] = n] /\ i'[t] = k + 1
  BY DEF PoolInv, TypeInv, TypeOK, InLoop, Mark
<1>3. /\ PoolBlocks \in Nat /\ n \in Nat /\ o \in Nat /\ k \in Nat /\ k < n
      /\ o + n <= PoolBlocks
      /\ \A b \in o .. o + k - 1 : memmap[b] = n
      /\ \A b \in o + k .. o + n - 1 : memmap[b] = 0
  BY <1>2, LocalTypes DEF PoolInv, TaskInv, MarkInv
<1>4. /\ o + k \in Blocks
      /\ memmap'[o + k] = n
      /\ \A b \in Blocks : b # o + k => memmap'[b] = memmap[b]
  <2>1. o + k \in Blocks
    BY <1>3 DEF Blocks
  <2>2. memmap \in [Blocks -> Nat]
    BY DEF PoolInv, TypeInv, TypeOK
  <2>. QED
    BY <1>2, <2>1, <2>2
<1>5. Step(t)
  BY DEF Step
<1>6. Held(t) = o .. o + n - 1
  BY <1>2, <1>3 DEF Held, Blocks
<1>7. \A b \in Held(t) : \A a \in owned : b \notin Pool!BlocksOf(a)
  BY DEF PoolInv, BlocksInv, HeldApart
\* The others are not inside mymalloc.
<1>8. ASSUME NEW u \in Tasks \ {t} PROVE TaskInv(u)' /\ Held(u)' = Held(u)
  <2>1. /\ pc'[u] = pc[u] /\ nmemb'[u] = nmemb[u] /\ offset'[u] = offset[u]
        /\ i'[u] = i[u] /\ Held(u)' = Held(u)
    BY <1>5, OthersStay DEF PoolInv
  <2>2. pc[u] # "search" /\ pc[u] # "mark"
    BY <1>2 DEF OneMallocs, InMalloc
  <2>3. ClearInv(u)'
    <3>. SUFFICES ASSUME pc[u] = "clear",
                         NEW b \in offset[u] + i[u] .. offset[u] + nmemb[u] - 1
                  PROVE  memmap'[b] # 0
      BY <2>1 DEF PoolInv, TaskInv, ClearInv
    <3>1. /\ offset[u] \in Nat /\ i[u] \in Nat /\ nmemb[u] \in Nat /\ PoolBlocks \in Nat
          /\ offset[u] + nmemb[u] <= PoolBlocks
          /\ memmap[b] # 0
      BY LocalTypes DEF PoolInv, TaskInv, ClearInv
    <3>2. b \in Blocks
      BY <3>1 DEF Blocks
    <3>. QED
      BY <1>2, <1>4, <3>1, <3>2
  <2>. QED
    BY <2>1, <2>2, <2>3 DEF TaskInv, RunInv, MarkInv
<1>9. ASSUME NEW a \in owned
      PROVE  /\ a.base + a.size <= PoolBlocks
             /\ \A b \in Pool!BlocksOf(a) : memmap'[b] = a.size
  <2>1. a.base + a.size <= PoolBlocks
    BY DEF PoolInv, BlocksInv, OwnersInv
  <2>2. \A b \in Pool!BlocksOf(a) : b \in Blocks /\ memmap[b] = a.size
    <3>. SUFFICES ASSUME NEW b \in Pool!BlocksOf(a)
                  PROVE  b \in Blocks /\ memmap[b] = a.size
      OBVIOUS
    <3>. QED
      BY OwnedBlocks DEF PoolInv, BlocksInv
  <2>3. \A b \in Pool!BlocksOf(a) : b # o + k
    <3>1. o + k \in Held(t)
      BY <1>3, <1>6
    <3>. QED
      BY <1>7, <3>1
  <2>. QED
    BY <1>4, <2>1, <2>2, <2>3
<1>10. CASE k + 1 < n
  <2>1. pc'[t] = "mark" /\ owned' = owned
    BY <1>2, <1>10 DEF Mark
  <2>2. /\ \A b \in o .. o + (k + 1) - 1 : memmap'[b] = n
        /\ \A b \in o + (k + 1) .. o + n - 1 : memmap'[b] = 0
    BY <1>3, <1>4 DEF Blocks
  <2>3. TaskInv(t)'
    <3>1. MarkInv(t)'
      BY <1>2, <1>3, <1>10, <2>1, <2>2 DEF MarkInv
    <3>. QED
      BY <2>1, <3>1 DEF TaskInv, RunInv, ClearInv
  <2>4. \A u \in Tasks : Held(u)' = Held(u)
    <3>1. Held(t)' = Held(t)
      BY <1>2, <2>1 DEF Held
    <3>. QED
      BY <1>8, <3>1
  <2>5. OwnersInv'
    BY <1>9, <2>1 DEF PoolInv, BlocksInv, OwnersInv
  <2>6. HeldApart'
    <3>1. ASSUME NEW u \in Tasks, NEW b \in Held(u)', NEW a \in owned'
          PROVE  b \notin Pool!BlocksOf(a)
      BY <2>1, <2>4, <3>1 DEF PoolInv, BlocksInv, HeldApart
    <3>2. ASSUME NEW u \in Tasks, NEW v \in Tasks, NEW b \in Held(u)', b \in Held(v)'
          PROVE  u = v
      BY <2>4, <3>2 DEF PoolInv, BlocksInv, HeldApart
    <3>. QED
      BY <3>1, <3>2 DEF HeldApart
  <2>7. UsedInv'
    <3>. SUFFICES ASSUME NEW b \in Blocks, memmap'[b] # 0,
                         \A a \in owned : b \notin Pool!BlocksOf(a)
                  PROVE  \E u \in Tasks : b \in Held(u)'
      BY <2>1 DEF UsedInv
    <3>1. CASE b = o + k
      BY <1>3, <1>6, <2>4, <3>1
    <3>2. CASE b # o + k
      BY <1>4, <2>4, <3>2 DEF PoolInv, BlocksInv, UsedInv
    <3>. QED
      BY <3>1, <3>2
  <2>8. \A u \in Tasks : TaskInv(u)'
    BY <1>8, <2>3
  <2>9. PoolInv'
    BY <1>1, <2>5, <2>6, <2>7, <2>8 DEF PoolInv, BlocksInv
  <2>. QED
    BY <2>1, <2>9
<1>11. CASE ~(k + 1 < n)
  <2>1. pc'[t] = "out" /\ owned' = owned \cup {Range(t)}
    BY <1>2, <1>11 DEF PoolInv, TypeInv, TypeOK, Mark, Range
  <2>2. n = k + 1
    BY <1>3, <1>11
  <2>3. /\ Range(t).base = o /\ Range(t).size = n
        /\ Pool!BlocksOf(Range(t)) = Held(t)
    BY <1>6 DEF Range, Pool!BlocksOf
  <2>4. \A b \in Held(t) : memmap'[b] = n
    <3>. SUFFICES ASSUME NEW b \in o .. o + n - 1
                  PROVE  memmap'[b] = n
      BY <1>6
    <3>1. b \in Blocks
      BY <1>3 DEF Blocks
    <3>2. b = o + k \/ b \in o .. o + k - 1
      BY <1>3, <2>2
    <3>. QED
      BY <1>3, <1>4, <3>1, <3>2
  <2>5. \A a \in owned : Pool!Disjoint(a, Range(t)) /\ Pool!Disjoint(Range(t), a)
    BY <1>7, <2>3, DisjointBlocks
  <2>6. OwnersInv'
    <3>1. \A a \in owned' : a.base + a.size <= PoolBlocks
      BY <1>3, <1>9, <2>1, <2>3
    <3>2. \A a \in owned' : \A b \in Pool!BlocksOf(a) : memmap'[b] = a.size
      BY <1>9, <2>1, <2>3, <2>4
    <3>3. \A a, b \in owned' : a # b => Pool!Disjoint(a, b)
      BY <2>1, <2>5 DEF PoolInv, BlocksInv, OwnersInv
    <3>. QED
      BY <3>1, <3>2, <3>3 DEF OwnersInv
  <2>7. Held(t)' = {}
    BY <2>1 DEF Held
  <2>8. HeldApart'
    <3>1. ASSUME NEW u \in Tasks, NEW b \in Held(u)', NEW a \in owned'
          PROVE  b \notin Pool!BlocksOf(a)
      <4>1. u # t /\ b \in Held(u)
        BY <1>8, <2>7, <3>1
      <4>2. b \notin Held(t)
        BY <4>1 DEF PoolInv, BlocksInv, HeldApart
      <4>3. a \in owned => b \notin Pool!BlocksOf(a)
        BY <4>1 DEF PoolInv, BlocksInv, HeldApart
      <4>. QED
        BY <2>1, <2>3, <3>1, <4>2, <4>3
    <3>2. ASSUME NEW u \in Tasks, NEW v \in Tasks, NEW b \in Held(u)', b \in Held(v)'
          PROVE  u = v
      BY <1>8, <2>7, <3>2 DEF PoolInv, BlocksInv, HeldApart
    <3>. QED
      BY <3>1, <3>2 DEF HeldApart
  <2>9. UsedInv'
    <3>. SUFFICES ASSUME NEW b \in Blocks, memmap'[b] # 0,
                         \A a \in owned' : b \notin Pool!BlocksOf(a)
                  PROVE  \E u \in Tasks : b \in Held(u)'
      BY DEF UsedInv
    <3>1. b \notin Held(t)
      BY <2>1, <2>3
    <3>2. b # o + k
      BY <1>3, <1>6, <3>1
    <3>3. PICK u \in Tasks : b \in Held(u)
      BY <1>4, <2>1, <3>2 DEF PoolInv, BlocksInv, UsedInv
    <3>. QED
      BY <1>8, <3>1, <3>3
  <2>10. TaskInv(t)'
    BY <2>1 DEF TaskInv, RunInv, MarkInv, ClearInv
  <2>11. Pool!Allocate(Range(t)) /\ Range(t) \in Pool!Ranges
    <3>1. Pool!BlocksOf(Range(t)) \subseteq 0 .. PoolBlocks - 1
      BY <1>3, <1>6, <2>3
    <3>2. Range(t) \in Pool!Ranges
      BY <1>2, <1>3 DEF Range, Pool!Ranges, Blocks
    <3>. QED
      BY <2>1, <2>5, <3>1, <3>2 DEF Pool!Allocate
  <2>12. \A u \in Tasks : TaskInv(u)'
    BY <1>8, <2>10
  <2>13. PoolInv'
    BY <1>1, <2>6, <2>8, <2>9, <2>12 DEF PoolInv, BlocksInv
  <2>. QED
    BY <2>11, <2>13
<1>. QED
  BY <1>10, <1>11

LEMMA PoolFree ==
  ASSUME PoolInv, NEW t \in Tasks, NEW a \in owned, Free(t, a)
  PROVE  PoolInv'
<1>1. TypeInv'
  BY TypeFree DEF PoolInv
<1>2. /\ a.base \in Nat /\ a.base \in Blocks /\ a.size \in Nat \ {0}
      /\ a.base + a.size <= PoolBlocks
      /\ PoolBlocks \in Nat
  BY LocalTypes DEF PoolInv, BlocksInv, OwnersInv
<1>3. memmap[a.base] = a.size
  <2>1. a.base \in Pool!BlocksOf(a)
    BY <1>2 DEF Pool!BlocksOf
  <2>. QED
    BY <2>1 DEF PoolInv, BlocksInv, OwnersInv
<1>4. /\ pc[t] = "out" /\ pc'[t] = "clear" /\ offset'[t] = a.base
      /\ nmemb'[t] = a.size /\ i'[t] = 0
      /\ memmap' = memmap /\ owned' = owned \ {a}
  BY <1>3 DEF PoolInv, TypeInv, TypeOK, Free
<1>5. Step(t)
  BY DEF Step
<1>6. \A b \in a.base .. a.base + a.size - 1 : b \in Blocks /\ memmap[b] # 0
  BY OwnedBlocks DEF PoolInv, BlocksInv, Pool!BlocksOf
<1>7. Held(t) = {} /\ Held(t)' = Pool!BlocksOf(a)
  <2>1. Held(t)' = a.base .. a.base + a.size - 1
    BY <1>2, <1>4, <1>6 DEF Held
  <2>. QED
    BY <1>4, <2>1 DEF Held, Pool!BlocksOf
<1>8. \A u \in Tasks \ {t} : Held(u)' = Held(u)
  BY <1>5, OthersStay DEF PoolInv
<1>9. TaskInv(t)'
  <2>1. ClearInv(t)'
    BY <1>2, <1>4, <1>6 DEF ClearInv
  <2>. QED
    BY <1>4, <2>1 DEF TaskInv, RunInv, MarkInv
<1>10. \A u \in Tasks : TaskInv(u)'
  BY <1>4, <1>5, <1>9, QuietTasks
<1>11. OwnersInv'
  BY <1>4 DEF PoolInv, BlocksInv, OwnersInv
<1>12. HeldApart'
  <2>1. ASSUME NEW u \in Tasks, NEW b \in Held(u)', NEW c \in owned'
        PROVE  b \notin Pool!BlocksOf(c)
    <3>1. c \in owned /\ c # a
      BY <1>4, <2>1
    <3>2. CASE u = t
      <4>1. Pool!Disjoint(a, c)
        BY <3>1 DEF PoolInv, BlocksInv, OwnersInv
      <4>. QED
        BY <1>7, <2>1, <3>2, <4>1, DisjointBlocks
    <3>3. CASE u # t
      BY <1>8, <2>1, <3>1, <3>3 DEF PoolInv, BlocksInv, HeldApart
    <3>. QED
      BY <3>2, <3>3
  <2>2. ASSUME NEW u \in Tasks, NEW v \in Tasks, NEW b \in Held(u)', b \in Held(v)'
        PROVE  u = v
    <3>1. \A w \in Tasks \ {t} : b \in Held(w)' => b \notin Pool!BlocksOf(a)
      BY <1>8 DEF PoolInv, BlocksInv, HeldApart
    <3>2. CASE u = t \/ v = t
      BY <1>7, <2>2, <3>1, <3>2
    <3>3. CASE u # t /\ v # t
      BY <1>8, <2>2, <3>3 DEF PoolInv, BlocksInv, HeldApart
    <3>. QED
      BY <3>2, <3>3
  <2>. QED
    BY <2>1, <2>2 DEF HeldApart
<1>13. UsedInv'
  <2>. SUFFICES ASSUME NEW b \in Blocks, memmap[b] # 0,
                       \A c \in owned' : b \notin Pool!BlocksOf(c)
                PROVE  \E u \in Tasks : b \in Held(u)'
    BY <1>4 DEF UsedInv
  <2>1. CASE b \in Pool!BlocksOf(a)
    BY <1>7, <2>1
  <2>2. CASE b \notin Pool!BlocksOf(a)
    <3>1. PICK u \in Tasks : b \in Held(u)
      BY <1>4, <2>2 DEF PoolInv, BlocksInv, UsedInv
    <3>. QED
      BY <1>7, <1>8, <3>1
  <2>. QED
    BY <2>1, <2>2
<1>. QED
  BY <1>1, <1>10, <1>11, <1>12, <1>13 DEF PoolInv, BlocksInv

\* A block cleared is still held: it is no owner's, and of no run being marked.
LEMMA PoolClear ==
  ASSUME PoolInv, NEW t \in Tasks, Clear(t)
  PROVE  PoolInv'
<1>. DEFINE o == offset[t]
            n == nmemb[t]
            k == i[t]
<1>1. TypeInv'
  BY TypeClear DEF PoolInv
<1>2. pc[t] = "clear" /\ UNCHANGED <<nmemb, offset, owned>>
  BY DEF Clear
<1>3. /\ o \in Nat /\ n \in Nat /\ k \in Nat /\ k <= n /\ o + n <= PoolBlocks
      /\ PoolBlocks \in Nat /\ o \in Blocks
      /\ \A b \in o + k .. o + n - 1 : memmap[b] # 0
  BY <1>2, LocalTypes DEF PoolInv, TaskInv, ClearInv
<1>4. Step(t)
  BY DEF Step
<1>5. \A u \in Tasks \ {t} : Held(u)' = Held(u)
  BY <1>4, OthersStay DEF PoolInv
<1>6. Held(t) = o + k .. o + n - 1
  BY <1>2, <1>3 DEF Held, Blocks
<1>7. CASE Cleared(t)
  <2>1. pc'[t] = "out" /\ memmap' = memmap
    BY <1>7 DEF PoolInv, TypeInv, TypeOK, Clear
  <2>2. Held(t) = {}
    BY <1>3, <1>6, <1>7 DEF Cleared
  <2>3. \A u \in Tasks : Held(u)' = Held(u)
    <3>1. Held(t)' = {}
      BY <2>1 DEF Held
    <3>. QED
      BY <1>5, <2>2, <3>1
  <2>4. TaskInv(t)'
    BY <2>1 DEF TaskInv, RunInv, MarkInv, ClearInv
  <2>5. \A u \in Tasks : TaskInv(u)'
    BY <1>4, <2>1, <2>4, QuietTasks
  <2>6. BlocksInv'
    BY <1>2, <2>1, <2>3, QuietBlocks DEF PoolInv
  <2>. QED
    BY <1>1, <2>5, <2>6 DEF PoolInv
<1>8. CASE ~Cleared(t)
  <2>1. /\ pc' = pc /\ i'[t] = k + 1
        /\ memmap' = [memmap EXCEPT ![o + k] = 0]
    BY <1>8 DEF PoolInv, TypeInv, TypeOK, Clear
  <2>2. k < n /\ o + k \in Blocks /\ o + k \in Held(t)
    BY <1>3, <1>6, <1>8 DEF Cleared, Blocks
  <2>3. /\ memmap'[o + k] = 0
        /\ \A b \in Blocks : b # o + k => memmap'[b] = memmap[b]
    <3>1. memmap \in [Blocks -> Nat]
      BY DEF PoolInv, TypeInv, TypeOK
    <3>. QED
      BY <2>1, <2>2, <3>1
  <2>4. Held(t)' = o + (k + 1) .. o + n - 1
    BY <1>2, <1>3, <2>1 DEF Held, Blocks
  <2>5. /\ \A b \in Held(t)' : b \in Held(t) /\ b # o + k
        /\ \A b \in Held(t) : b # o + k => b \in Held(t)'
    <3>1. \A b \in o + (k + 1) .. o + n - 1 : b \in o + k .. o + n - 1 /\ b # o + k
      BY <1>3
    <3>2. \A b \in o + k .. o + n - 1 : b # o + k => b \in o + (k + 1) .. o + n - 1
      BY <1>3
    <3>. QED
      BY <1>6, <2>4, <3>1, <3>2, Zenon
  <2>6. OwnersInv'
    <3>. SUFFICES ASSUME NEW a \in owned, NEW b \in Pool!BlocksOf(a)
                  PROVE  memmap'[b] = a.size
      BY <1>2 DEF PoolInv, BlocksInv, OwnersInv
    <3>1. b \in Blocks /\ memmap[b] = a.size
      BY OwnedBlocks DEF PoolInv, BlocksInv
    <3>2. b # o + k
      BY <2>2 DEF PoolInv, BlocksInv, HeldApart
    <3>. QED
      BY <2>3, <3>1, <3>2
  <2>7. TaskInv(t)'
    <3>1. \A b \in o + (k + 1) .. o + n - 1 : memmap'[b] # 0
      <4>. SUFFICES ASSUME NEW b \in o + (k + 1) .. o + n - 1 PROVE memmap'[b] # 0
        OBVIOUS
      <4>1. b \in o + k .. o + n - 1 /\ b # o + k /\ b \in Blocks
        BY <1>3 DEF Blocks
      <4>. QED
        BY <1>3, <2>3, <4>1
    <3>2. ClearInv(t)'
      BY <1>2, <1>3, <2>1, <2>2, <3>1 DEF ClearInv
    <3>. QED
      BY <1>2, <2>1, <3>2 DEF TaskInv, RunInv, MarkInv
  <2>8. ASSUME NEW u \in Tasks \ {t} PROVE TaskInv(u)'
    <3>1. /\ pc'[u] = pc[u] /\ nmemb'[u] = nmemb[u] /\ cmemb'[u] = cmemb[u]
          /\ offset'[u] = offset[u] /\ i'[u] = i[u]
      BY <1>4, OthersStay DEF PoolInv
    <3>2. /\ nmemb[u] \in Nat /\ cmemb[u] \in Nat /\ offset[u] \in Int /\ i[u] \in Nat
          /\ RunInv(u) /\ MarkInv(u) /\ ClearInv(u)
      BY LocalTypes DEF PoolInv, TaskInv
    <3>3. \A b \in Held(u) : b # o + k
      BY <2>2 DEF PoolInv, BlocksInv, HeldApart
    <3>4. RunInv(u)'
      <4>. SUFFICES ASSUME pc[u] = "search",
                           NEW b \in offset[u] + 1 .. offset[u] + cmemb[u]
                    PROVE  memmap'[b] = 0
        BY <3>1, <3>2 DEF RunInv
      <4>1. memmap[b] = 0 /\ offset[u] + cmemb[u] < PoolBlocks /\ offset[u] >= -1
        BY <3>2 DEF RunInv, PoolInv, TypeInv, InLoop
      <4>2. b \in Blocks
        BY <1>3, <3>2, <4>1 DEF Blocks
      <4>. QED
        BY <2>3, <4>1, <4>2
    <3>5. MarkInv(u)'
      <4>. SUFFICES ASSUME pc[u] = "mark"
                    PROVE  /\ \A b \in offset[u] .. offset[u] + i[u] - 1 :
                                memmap'[b] = nmemb[u]
                           /\ \A b \in offset[u] + i[u] .. offset[u] + nmemb[u] - 1 :
                                memmap'[b] = 0
        BY <3>1, <3>2 DEF MarkInv
      <4>1. /\ i[u] < nmemb[u] /\ offset[u] + nmemb[u] <= PoolBlocks /\ offset[u] \in Nat
            /\ \A b \in offset[u] .. offset[u] + i[u] - 1 : memmap[b] = nmemb[u]
            /\ \A b \in offset[u] + i[u] .. offset[u] + nmemb[u] - 1 : memmap[b] = 0
        BY <3>2 DEF MarkInv, PoolInv, TypeInv, InLoop, Blocks
      <4>2. \A b \in offset[u] .. offset[u] + nmemb[u] - 1 : b \in Blocks
        BY <1>3, <3>2, <4>1 DEF Blocks
      <4>3. \A b \in offset[u] .. offset[u] + nmemb[u] - 1 : b # o + k
        BY <3>3, <4>2 DEF Held
      <4>4. \A b \in offset[u] .. offset[u] + nmemb[u] - 1 : memmap'[b] = memmap[b]
        BY <2>3, <4>2, <4>3
      <4>. QED
        BY <3>2, <4>1, <4>4
    <3>6. ClearInv(u)'
      <4>. SUFFICES ASSUME pc[u] = "clear",
                           NEW b \in offset[u] + i[u] .. offset[u] + nmemb[u] - 1
                    PROVE  memmap'[b] # 0
        BY <3>1, <3>2 DEF ClearInv
      <4>1. /\ offset[u] + nmemb[u] <= PoolBlocks /\ offset[u] \in Nat
            /\ memmap[b] # 0
        BY <3>2 DEF ClearInv, Blocks
      <4>2. b \in Blocks
        BY <1>3, <3>2, <4>1 DEF Blocks
      <4>3. b \in Held(u)
        BY <4>2 DEF Held
      <4>. QED
        BY <2>3, <3>3, <4>1, <4>2, <4>3
    <3>. QED
      BY <3>4, <3>5, <3>6 DEF TaskInv
  <2>9. HeldApart'
    <3>1. ASSUME NEW u \in Tasks PROVE \A b \in Held(u)' : b \in Held(u)
      BY <1>5, <2>5
    <3>2. ASSUME NEW u \in Tasks, NEW b \in Held(u)', NEW a \in owned'
          PROVE  b \notin Pool!BlocksOf(a)
      BY <1>2, <3>1, <3>2 DEF PoolInv, BlocksInv, HeldApart
    <3>3. ASSUME NEW u \in Tasks, NEW v \in Tasks, NEW b \in Held(u)', b \in Held(v)'
          PROVE  u = v
      BY <3>1, <3>3 DEF PoolInv, BlocksInv, HeldApart
    <3>. QED
      BY <3>2, <3>3 DEF HeldApart
  <2>10. UsedInv'
    <3>. SUFFICES ASSUME NEW b \in Blocks, memmap'[b] # 0,
                         \A a \in owned : b \notin Pool!BlocksOf(a)
                  PROVE  \E u \in Tasks : b \in Held(u)'
      BY <1>2 DEF UsedInv
    <3>1. b # o + k
      BY <2>3
    <3>2. PICK u \in Tasks : b \in Held(u)
      BY <2>3, <3>1 DEF PoolInv, BlocksInv, UsedInv
    <3>. QED
      BY <1>5, <2>5, <3>1, <3>2
  <2>. QED
    BY <1>1, <2>6, <2>7, <2>8, <2>9, <2>10 DEF PoolInv, BlocksInv
<1>. QED
  BY <1>7, <1>8

LEMMA PoolStutter ==
  ASSUME PoolInv, UNCHANGED vars
  PROVE  PoolInv'
<1>1. TypeInv'
  BY TypeStep DEF PoolInv
<1>2. \A u \in Tasks : Held(u)' = Held(u)
  BY DEF Held, vars, locals
<1>3. BlocksInv'
  BY <1>2, QuietBlocks DEF PoolInv, vars
<1>4. ASSUME NEW u \in Tasks PROVE TaskInv(u)'
  BY DEF PoolInv, TaskInv, RunInv, MarkInv, ClearInv, vars, locals
<1>. QED
  BY <1>1, <1>3, <1>4 DEF PoolInv

LEMMA PoolStep == PoolInv /\ OneMallocs /\ [Next]_vars => PoolInv'
<1>. SUFFICES ASSUME PoolInv, OneMallocs, [Next]_vars PROVE PoolInv'
  OBVIOUS
<1>1. CASE Next
  BY <1>1, PoolMalloc, PoolSearch, PoolFail, PoolMark, PoolFree, PoolClear DEF Next
<1>2. CASE UNCHANGED vars
  BY <1>2, PoolStutter
<1>. QED
  BY <1>1, <1>2


\* Whatever the number of its users, as long as no two are inside mymalloc at
\* once, every step of a pool gives out a range that nobody has, takes one back,
\* or changes no owner: mymalloc may interrupt myfree, myfree both.
THEOREM PoolImplementsAllocator == Spec /\ []OneMallocs => ImplementsAllocator
<1>1. Init => PoolInv /\ Pool!Init
  BY PoolInit DEF Init, Pool!Init
<1>2. PoolInv /\ OneMallocs /\ [Next]_vars => PoolInv'
  BY PoolStep
<1>3. PoolInv /\ OneMallocs /\ [Next]_vars => [Pool!Next]_owned
  <2>. SUFFICES ASSUME PoolInv, OneMallocs, [Next]_vars, owned' # owned
                PROVE  Pool!Next
    OBVIOUS
  <2>1. PICK t \in Tasks : Mark(t) \/ \E a \in owned : Free(t, a)
    BY DEF Next, vars, Malloc, Search, Fail, Clear
  <2>2. CASE Mark(t)
    <3>1. Pool!Allocate(Range(t)) /\ Range(t) \in Pool!Ranges
      BY <2>2, PoolMark
    <3>. QED
      BY <3>1 DEF Pool!Next
  <2>3. CASE \E a \in owned : Free(t, a)
    <3>1. PICK a \in owned : Free(t, a)
      BY <2>3
    <3>2. Pool!Release(a)
      BY <3>1 DEF Free, Pool!Release
    <3>3. a.base + a.size <= PoolBlocks /\ a \in [base : Blocks, size : Nat \ {0}]
      BY DEF PoolInv, BlocksInv, OwnersInv, TypeInv, TypeOK
    <3>4. a \in Pool!Ranges
      BY <3>3, PoolAssumption DEF Pool!Ranges, Blocks
    <3>. QED
      BY <3>2, <3>4 DEF Pool!Next
  <2>. QED
    BY <2>1, <2>2, <2>3
<1>. QED
  BY <1>1, <1>2, <1>3, PTL DEF Spec, ImplementsAllocator, Pool!Spec

\* Between the calls of all its users, the table of a pool is exactly what has
\* been given out, if no two were inside mymalloc at once: nothing leaks, nothing
\* in use looks free.
THEOREM PoolTableMatches == Spec /\ []OneMallocs => []TableMatchesOwners
<1>1. PoolInv => TableMatchesOwners
  <2>. SUFFICES ASSUME PoolInv, \A t \in Tasks : pc[t] = "out", NEW b \in Blocks
                PROVE  /\ \A a \in owned : b \in Pool!BlocksOf(a) => memmap[b] = a.size
                       /\ memmap[b] # 0 => \E a \in owned : b \in Pool!BlocksOf(a)
    BY DEF TableMatchesOwners
  <2>1. \A a \in owned : b \in Pool!BlocksOf(a) => memmap[b] = a.size
    BY DEF PoolInv, BlocksInv, OwnersInv
  <2>2. \A t \in Tasks : b \notin Held(t)
    BY DEF Held
  <2>3. memmap[b] # 0 => \E a \in owned : b \in Pool!BlocksOf(a)
    BY <2>2 DEF PoolInv, BlocksInv, UsedInv
  <2>. QED
    BY <2>1, <2>3
<1>. QED
  BY <1>1, PoolInit, PoolStep, PTL DEF Spec

-----------------------------------------------------------------------------
(* When mymalloc refuses.  A myfree that runs while another task searches  *)
(* may free a run the search has passed.                                   *)

\* No other task is inside the pool while one searches it.
SearchesAlone == \A t, u \in Tasks : pc[t] = "search" /\ u # t => pc[u] = "out"

\* A run of n blocks from base upwards leaves the pool or meets a block in use.
NoRunAt(base, n) == \E b \in base .. base + n - 1 : b \notin Blocks \/ memmap[b] # 0

\* The search stands below a maximal run of cmemb free blocks, too short, and
\* no run above is long enough.
SearchInv(t) ==
  pc[t] = "search" =>
    /\ RunInv(t)
    /\ offset[t] + cmemb[t] + 1 \in Blocks => memmap[offset[t] + cmemb[t] + 1] # 0
    /\ \A base \in Blocks : base > offset[t] => NoRunAt(base, nmemb[t])

LEMMA SearchMalloc ==
  ASSUME TypeInv, NEW t \in Tasks, NEW size \in RequestSizes, Malloc(t, size)
  PROVE  SearchInv(t)'
<1>1. /\ pc'[t] = "search" /\ cmemb'[t] = 0
      /\ offset'[t] = PoolBlocks - 1 /\ nmemb'[t] = BlocksFor(size)
  BY DEF TypeInv, TypeOK, Malloc
<1>2. nmemb'[t] \in Nat \ {0}
  BY <1>1, BlocksForType, PoolAssumption DEF Malloc
<1>. QED
  BY <1>1, <1>2, PoolAssumption DEF SearchInv, RunInv, Blocks

LEMMA SearchTurn ==
  ASSUME TypeInv, NEW t \in Tasks, SearchInv(t), Search(t)
  PROVE  SearchInv(t)'
<1>. DEFINE o == offset[t]
            n == nmemb[t]
            c == cmemb[t]
<1>1. /\ pc[t] = "search" /\ o \in Blocks /\ UNCHANGED <<memmap, nmemb, owned>>
      /\ cmemb'[t] = RunLength(t)
  BY DEF TypeInv, TypeOK, InLoop, Search, Exhausted, Blocks
<1>2. /\ PoolBlocks \in Nat /\ n \in Nat /\ c \in Nat /\ o \in Nat /\ c < n
      /\ o + c < PoolBlocks
      /\ \A b \in o + 1 .. o + c : memmap[b] = 0
      /\ o + c + 1 \in Blocks => memmap[o + c + 1] # 0
      /\ \A base \in Blocks : base > o => NoRunAt(base, n)
  BY <1>1, LocalTypes DEF SearchInv, RunInv
<1>3. CASE RunLength(t) = n
  BY <1>1, <1>3 DEF TypeInv, TypeOK, Search, SearchInv
<1>4. CASE RunLength(t) # n
  <2>1. pc'[t] = "search" /\ offset'[t] = o - 1 /\ nmemb'[t] = n
    BY <1>1, <1>4 DEF TypeInv, TypeOK, Search
  <2>2. ASSUME NoRunAt(o, n), NEW base \in Blocks, base > o - 1
        PROVE  NoRunAt(base, n)'
    <3>1. base = o \/ base > o
      BY <1>2, <2>2 DEF Blocks
    <3>. QED
      BY <1>1, <1>2, <2>2, <3>1 DEF NoRunAt
  <2>3. CASE memmap[o] = 0
    <3>1. RunLength(t) = c + 1 /\ c + 1 < n
      BY <1>2, <1>4, <2>3 DEF RunLength
    <3>2. NoRunAt(o, n)
      <4>1. o + c + 1 \in o .. o + n - 1
        BY <1>2, <3>1
      <4>. QED
        BY <1>2, <4>1 DEF NoRunAt
    <3>3. \A b \in o .. o - 1 + (c + 1) : memmap[b] = 0
      BY <1>2, <2>3
    <3>4. RunInv(t)'
      BY <1>1, <1>2, <2>1, <3>1, <3>3 DEF RunInv
    <3>5. o - 1 + (c + 1) + 1 \in Blocks => memmap[o - 1 + (c + 1) + 1] # 0
      BY <1>2
    <3>. QED
      BY <1>1, <2>1, <2>2, <3>1, <3>2, <3>4, <3>5 DEF SearchInv
  <2>4. CASE memmap[o] # 0
    <3>1. RunLength(t) = 0 /\ 0 < n
      BY <1>2, <2>4 DEF RunLength
    <3>2. NoRunAt(o, n)
      <4>1. o \in o .. o + n - 1
        BY <1>2, <3>1
      <4>. QED
        BY <2>4, <4>1 DEF NoRunAt
    <3>3. o - 1 + 0 + 1 = o /\ o - 1 + 0 < PoolBlocks /\ o - 1 + 1 .. o - 1 + 0 = {}
      BY <1>2
    <3>4. RunInv(t)'
      BY <1>1, <2>1, <3>1, <3>3 DEF RunInv
    <3>. QED
      BY <1>1, <2>1, <2>2, <2>4, <3>1, <3>2, <3>3, <3>4 DEF SearchInv
  <2>. QED
    BY <2>3, <2>4
<1>. QED
  BY <1>3, <1>4

\* What a search has seen stays so, since nobody else is inside.
LEMMA SearchStep ==
  ASSUME TypeInv, SearchesAlone, [Next]_vars, NEW t \in Tasks, SearchInv(t)
  PROVE  SearchInv(t)'
<1>1. CASE UNCHANGED vars
  BY <1>1 DEF SearchInv, RunInv, NoRunAt, vars, locals
<1>2. CASE Next
  <2>1. PICK u \in Tasks : Step(u)
    BY <1>2 DEF Next, Step
  <2>2. CASE u = t
    <3>1. CASE \E size \in RequestSizes : Malloc(t, size)
      BY <3>1, SearchMalloc
    <3>2. CASE Search(t)
      BY <3>2, SearchTurn
    <3>3. CASE Fail(t) \/ Mark(t) \/ (\E a \in owned : Free(t, a)) \/ Clear(t)
      <4>1. pc'[t] # "search"
        BY <3>3 DEF TypeInv, TypeOK, Fail, Mark, Free, Clear
      <4>. QED
        BY <4>1 DEF SearchInv
    <3>. QED
      BY <2>1, <2>2, <3>1, <3>2, <3>3 DEF Step
  <2>3. CASE u # t
    <3>1. /\ pc'[t] = pc[t] /\ nmemb'[t] = nmemb[t] /\ cmemb'[t] = cmemb[t]
          /\ offset'[t] = offset[t]
      BY <2>1, <2>3, OthersStay
    <3>2. CASE pc[t] = "search"
      <4>1. pc[u] = "out"
        BY <2>3, <3>2 DEF SearchesAlone
      <4>2. memmap' = memmap
        BY <2>1, <4>1 DEF Step, Malloc, Search, Fail, Mark, Free, Clear
      <4>. QED
        BY <3>1, <4>2 DEF SearchInv, RunInv, NoRunAt
    <3>3. CASE pc[t] # "search"
      BY <3>1, <3>3 DEF SearchInv
    <3>. QED
      BY <3>2, <3>3
  <2>. QED
    BY <2>2, <2>3
<1>. QED
  BY <1>1, <1>2

\* A user of a pool that is alone inside while it searches is refused only when no
\* free run is long enough.
THEOREM PoolFailsOnlyWhenFull == Spec /\ []SearchesAlone => FailsOnlyWhenFull
<1>. DEFINE Inv == TypeInv /\ \A t \in Tasks : SearchInv(t)
<1>1. Init => Inv
  BY TypeInit DEF Init, SearchInv
<1>2. Inv /\ SearchesAlone /\ [Next]_vars => Inv'
  BY TypeStep, SearchStep
<1>3. Inv /\ [Next]_vars => [Refusal]_vars
  <2>. SUFFICES ASSUME Inv, Next, NEW t \in Tasks, pc[t] = "search", pc'[t] = "out"
                PROVE  NoFreeRun(nmemb[t])
    BY DEF Refusal, vars
  <2>1. PICK u \in Tasks : Step(u)
    BY DEF Next, Step
  <2>2. u = t
    BY <2>1, OthersStay
  <2>3. Fail(t)
    BY <2>1, <2>2 DEF Step, TypeInv, TypeOK, Malloc, Search, Mark, Free, Clear
  <2>4. \A base \in Blocks : base > offset[t]
    BY <2>3, LocalTypes DEF Fail, Exhausted, Blocks
  <2>. QED
    BY <2>4 DEF SearchInv, NoRunAt, NoFreeRun
<1>. QED
  BY <1>1, <1>2, <1>3, PTL DEF Spec, FailsOnlyWhenFull

\* A pool that one task uses keeps all of this unconditionally.
COROLLARY PoolOfOneTask ==
  ASSUME NEW t \in Tasks, Tasks = {t}
  PROVE  Spec => ImplementsAllocator /\ []TableMatchesOwners /\ FailsOnlyWhenFull
<1>1. OneMallocs /\ SearchesAlone
  BY DEF OneMallocs, SearchesAlone
<1>. QED
  BY <1>1, PoolImplementsAllocator, PoolTableMatches, PoolFailsOnlyWhenFull, PTL
=============================================================================
