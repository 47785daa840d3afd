------------------------------- MODULE Allocator -------------------------------
(***************************************************************************)
(* What a memory pool promises its callers: ranges of blocks inside the    *)
(* pool that no two owners share, each until its owner returns it.         *)
(***************************************************************************)
EXTENDS Integers

CONSTANT PoolBlocks  \* the number of blocks

VARIABLE owned       \* the ranges given out and not returned

Ranges == [base : 0 .. PoolBlocks - 1, size : 1 .. PoolBlocks]

BlocksOf(a) == a.base .. a.base + a.size - 1

Disjoint(a, b) == BlocksOf(a) \cap BlocksOf(b) = {}

Init == owned = {}

Allocate(a) ==
  /\ BlocksOf(a) \subseteq 0 .. PoolBlocks - 1
  /\ \A b \in owned : Disjoint(a, b)
  /\ owned' = owned \cup {a}

Release(a) ==
  /\ a \in owned
  /\ owned' = owned \ {a}

Next == \E a \in Ranges : Allocate(a) \/ Release(a)

Spec == Init /\ [][Next]_owned
=============================================================================
