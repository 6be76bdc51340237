----------------------------- MODULE BlockPool ------------------------------
(***************************************************************************)
(* What the file system promises about the disk blocks, with no bitmap, no *)
(* descriptor table and no handles: a pool in which every block is free or *)
(* has one owner.  A free block is handed to one owner at a time; an owner *)
(* keeps its blocks until all of them are given back together.             *)
(***************************************************************************)
EXTENDS Integers, FiniteSets

CONSTANTS
  Blocks,   \* the blocks of the pool
  Owners,   \* those who can own blocks
  NoOwner,  \* the owner of a free block
  Limit     \* how many blocks one owner may hold

VARIABLE owner

Held(s) == {b \in Blocks : owner[b] = s}

Init == owner = [b \in Blocks |-> NoOwner]

Allocate(s, b) ==
  /\ owner[b] = NoOwner
  /\ Cardinality(Held(s)) < Limit
  /\ owner' = [owner EXCEPT ![b] = s]

Release(s) == owner' = [b \in Blocks |-> IF owner[b] = s THEN NoOwner ELSE owner[b]]

Next == \E s \in Owners : Release(s) \/ \E b \in Blocks : Allocate(s, b)

Spec == Init /\ [][Next]_owner

=============================================================================
