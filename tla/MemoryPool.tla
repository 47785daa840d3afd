------------------------------ MODULE MemoryPool ------------------------------
(***************************************************************************)
(* One pool of MALLOC/malloc.c: mymalloc and myfree over a table with a    *)
(* word per block.  The word of a free block is 0; each block of an        *)
(* allocation holds the number of its blocks.                              *)
(*                                                                         *)
(* The functions run in their callers' tasks and do not mask interrupts,   *)
(* so a task of higher priority may enter them while another is inside:    *)
(* each access to the table is a step.                                     *)
(***************************************************************************)
EXTENDS Integers

CONSTANTS
  PoolBlocks,   \* memtblsize[memx]
  BlockBytes,   \* memblksize[memx]
  RequestSizes, \* the sizes callers ask for, in bytes
  Tasks,        \* the tasks that use the pool
  Priority      \* their priorities

ASSUME PoolAssumption ==
  /\ PoolBlocks \in Nat \ {0}
  /\ BlockBytes \in Nat \ {0}
  /\ RequestSizes \subseteq Nat
  /\ Priority \in [Tasks -> Nat]

VARIABLES
  memmap,   \* the table
  pc,       \* where each task is: "out", or in the loop "search", "mark", "clear"
  nmemb,    \* the locals of the functions, for each task
  cmemb,
  offset,   \* in the loop "clear", the code's index
  i,
  owned     \* history: the ranges given out and not returned

locals == <<nmemb, cmemb, offset, i>>
vars == <<memmap, pc, locals, owned>>

Pool == INSTANCE Allocator

Init ==
  /\ memmap = [b \in 0 .. PoolBlocks - 1 |-> 0]
  /\ pc = [t \in Tasks |-> "out"]
  /\ nmemb = [t \in Tasks |-> 0]
  /\ cmemb = [t \in Tasks |-> 0]
  /\ offset = [t \in Tasks |-> 0]
  /\ i = [t \in Tasks |-> 0]
  /\ owned = {}

\* No task of higher priority is inside.
Scheduled(t) == \A u \in Tasks : Priority[u] > Priority[t] => pc[u] = "out"

\* Fault: the remainder of the division is dropped.
BlocksFor_Down(size) == size \div BlockBytes

BlocksFor(size) ==
  size \div BlockBytes + IF size % BlockBytes = 0 THEN 0 ELSE 1

\* my_mem_malloc is entered; size 0 is refused and changes nothing.
Malloc(t, size) ==
  /\ Scheduled(t)
  /\ pc[t] = "out"
  /\ size # 0
  /\ pc' = [pc EXCEPT ![t] = "search"]
  /\ nmemb' = [nmemb EXCEPT ![t] = BlocksFor(size)]
  /\ cmemb' = [cmemb EXCEPT ![t] = 0]
  /\ offset' = [offset EXCEPT ![t] = PoolBlocks - 1]
  /\ UNCHANGED <<memmap, i, owned>>

\* Fault: a block in use does not end the run.
RunLength_NoReset(t) == cmemb[t] + IF memmap[offset[t]] = 0 THEN 1 ELSE 0

\* The free blocks in a row from offset upwards.
RunLength(t) == IF memmap[offset[t]] = 0 THEN cmemb[t] + 1 ELSE 0

\* Fault: the search ends before block 0.
Exhausted_Early(t) == offset[t] < 1

\* The search has passed block 0.
Exhausted(t) == offset[t] < 0

\* One turn of the search, from the last block down.
Search(t) ==
  /\ Scheduled(t)
  /\ pc[t] = "search"
  /\ ~Exhausted(t)
  /\ cmemb' = [cmemb EXCEPT ![t] = RunLength(t)]
  /\ IF RunLength(t) = nmemb[t]
       THEN /\ pc' = [pc EXCEPT ![t] = "mark"]
            /\ i' = [i EXCEPT ![t] = 0]
            /\ UNCHANGED offset
       ELSE /\ offset' = [offset EXCEPT ![t] = @ - 1]
            /\ UNCHANGED <<pc, i>>
  /\ UNCHANGED <<memmap, nmemb, owned>>

\* No run is long enough: mymalloc returns NULL.
Fail(t) ==
  /\ Scheduled(t)
  /\ pc[t] = "search"
  /\ Exhausted(t)
  /\ pc' = [pc EXCEPT ![t] = "out"]
  /\ UNCHANGED <<memmap, locals, owned>>

\* One block of the run found is marked; with the last, mymalloc returns it.
Mark(t) ==
  /\ Scheduled(t)
  /\ pc[t] = "mark"
  /\ memmap' = [memmap EXCEPT ![offset[t] + i[t]] = nmemb[t]]
  /\ i' = [i EXCEPT ![t] = @ + 1]
  /\ IF i[t] + 1 < nmemb[t]
       THEN UNCHANGED <<pc, owned>>
       ELSE /\ pc' = [pc EXCEPT ![t] = "out"]
            /\ owned' = owned \cup {[base |-> offset[t], size |-> nmemb[t]]}
  /\ UNCHANGED <<nmemb, cmemb, offset>>

\* myfree of a range its caller owns, named by its first block alone.
Free(t, a) ==
  /\ Scheduled(t)
  /\ pc[t] = "out"
  /\ pc' = [pc EXCEPT ![t] = "clear"]
  /\ offset' = [offset EXCEPT ![t] = a.base]
  /\ nmemb' = [nmemb EXCEPT ![t] = memmap[a.base]]
  /\ i' = [i EXCEPT ![t] = 0]
  /\ owned' = owned \ {a}
  /\ UNCHANGED <<memmap, cmemb>>

\* Fault: the loop stops one block short.
Cleared_OneShort(t) == i[t] + 1 >= nmemb[t]

\* The loop that clears the blocks is over.
Cleared(t) == i[t] >= nmemb[t]

Clear(t) ==
  /\ Scheduled(t)
  /\ pc[t] = "clear"
  /\ IF Cleared(t)
       THEN /\ pc' = [pc EXCEPT ![t] = "out"]
            /\ UNCHANGED <<memmap, i>>
       ELSE /\ memmap' = [memmap EXCEPT ![offset[t] + i[t]] = 0]
            /\ i' = [i EXCEPT ![t] = @ + 1]
            /\ UNCHANGED pc
  /\ UNCHANGED <<nmemb, cmemb, offset, owned>>

Next ==
  \E t \in Tasks :
    \/ \E size \in RequestSizes : Malloc(t, size)
    \/ Search(t)
    \/ Fail(t)
    \/ Mark(t)
    \/ \E a \in owned : Free(t, a)
    \/ Clear(t)

Spec == Init /\ [][Next]_vars

-----------------------------------------------------------------------------
(* Properties.                                                             *)

Blocks == 0 .. PoolBlocks - 1

TypeOK ==
  /\ memmap \in [Blocks -> Nat]
  /\ pc \in [Tasks -> {"out", "search", "mark", "clear"}]
  /\ nmemb \in [Tasks -> Nat]
  /\ cmemb \in [Tasks -> Nat]
  /\ offset \in [Tasks -> Int]
  /\ i \in [Tasks -> Nat]
  /\ owned \subseteq [base : Blocks, size : Nat \ {0}]

\* Every step of mymalloc and myfree gives out or takes back a range as
\* Allocator allows, or nothing: no two owners ever share a block, and a
\* range ends inside the pool.
ImplementsAllocator == Pool!Spec

\* Between calls the table holds exactly what is owned, so that no block is
\* lost to the pool and none of an owner looks free, through any sequence of
\* allocations, failures and frees.
TableMatchesOwners ==
  (\A t \in Tasks : pc[t] = "out") =>
    \A b \in Blocks :
      /\ \A a \in owned : b \in Pool!BlocksOf(a) => memmap[b] = a.size
      /\ memmap[b] # 0 => \E a \in owned : b \in Pool!BlocksOf(a)

\* mymalloc refuses a request only when no free run is long enough.
NoFreeRun(n) ==
  \A base \in Blocks :
    \E b \in base .. base + n - 1 : b \notin Blocks \/ memmap[b] # 0

Refusal == \A t \in Tasks : pc[t] = "search" /\ pc'[t] = "out" => NoFreeRun(nmemb[t])

FailsOnlyWhenFull == [][Refusal]_vars
=============================================================================
