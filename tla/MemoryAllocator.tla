--------------------------- MODULE MemoryAllocator --------------------------
(***************************************************************************)
(* The contiguous memory allocator of lab04: a list of blocks in address   *)
(* order, each free or of a process.  RQ takes a block by first, best or   *)
(* worst fit, RL frees one, C merges free neighbours.  A request and a     *)
(* release are one action each; compactMemory() is one action per turn of  *)
(* its inner loop, because whether its loops end is not obvious.           *)
(*                                                                         *)
(* The linked list is a sequence.  A request that cannot be met changes    *)
(* nothing and has no action.  STAT only prints; X ends the program.       *)
(***************************************************************************)
EXTENDS Integers, Sequences, SequencesExt

CONSTANTS
  max_memory_size,
  Processes,   \* names of processes
  FREE,        \* the name "Free", which marks a free block
  Sizes,       \* the sizes that are requested
  MAX_LIST     \* bound: no request splits a block of a list this long

ASSUME MemoryAssumption ==
  /\ max_memory_size \in Nat
  /\ Sizes \subseteq Nat
  /\ MAX_LIST \in Nat
  /\ FREE \notin Processes

VARIABLES
  blocks,   \* the list from head on
  pc,       \* "command": at the prompt; "compact": in compactMemory()
  current,  \* the position of compactMemory() in the list
  f         \* its flag: this pass over the list has merged blocks

vars == <<blocks, pc, current, f>>

\* A process can be called like a free block.
Names      == Processes \union {FREE}
Strategies == {"F", "B", "W"}

Least(S) == CHOOSE x \in S : \A y \in S : x <= y

IsFree(i) == blocks[i].process_name = FREE
SizeOf(i) == blocks[i].size
End(i)    == blocks[i].start_address + blocks[i].size

\* fault: blocks in use are not left out
FittingUsed(size) == {i \in DOMAIN blocks : SizeOf(i) >= size}

\* the free blocks that are large enough
Fitting(size) == {i \in DOMAIN blocks : IsFree(i) /\ SizeOf(i) >= size}

\* the block that a strategy takes: the first one, of the smallest, of the largest
Chosen(strategy, size) ==
  Least({i \in Fitting(size) :
           \A j \in Fitting(size) :
             CASE strategy = "F" -> TRUE
               [] strategy = "B" -> SizeOf(i) <= SizeOf(j)
               [] strategy = "W" -> SizeOf(i) >= SizeOf(j)})

-----------------------------------------------------------------------------
\* fault: the block that remains keeps its start
RemainderAtStart(i, size) == [blocks[i] EXCEPT !.size = @ - size]

Remainder(i, size) == [blocks[i] EXCEPT !.start_address = @ + size, !.size = @ - size]

allocateMemory(process, size, strategy) ==
  /\ pc = "command"
  /\ Fitting(size) # {}
  /\ LET i   == Chosen(strategy, size)
         new == [process_name  |-> process,
                 start_address |-> blocks[i].start_address,
                 size          |-> size]
     IN  \/ /\ SizeOf(i) = size
            /\ blocks' = ReplaceAt(blocks, i, new)
         \/ /\ SizeOf(i) # size
            /\ Len(blocks) < MAX_LIST
            /\ blocks' = InsertAt(ReplaceAt(blocks, i, Remainder(i, size)), i, new)
  /\ UNCHANGED <<pc, current, f>>

BlocksOf(process) == {i \in DOMAIN blocks : blocks[i].process_name = process}

releaseMemory(process) ==
  /\ pc = "command"
  /\ BlocksOf(process) # {}
  /\ blocks' = [blocks EXCEPT ![Least(BlocksOf(process))].process_name = FREE]
  /\ UNCHANGED <<pc, current, f>>

-----------------------------------------------------------------------------
(* compactMemory(): passes over the list until one has merged nothing.     *)

CompactBegin ==
  /\ pc = "command"
  /\ pc' = "compact"
  /\ current' = 1
  /\ f' = FALSE
  /\ UNCHANGED blocks

InPass == pc = "compact" /\ current < Len(blocks)

Mergeable == IsFree(current) /\ IsFree(current + 1)

MergeNext ==
  /\ InPass
  /\ Mergeable
  /\ blocks' = RemoveAt([blocks EXCEPT ![current].size = @ + SizeOf(current + 1)], current + 1)
  /\ current' = current + 1
  /\ f' = TRUE
  /\ UNCHANGED pc

\* fault: every turn counts as one that merges
StepOverFlagged ==
  /\ InPass
  /\ ~ Mergeable
  /\ current' = current + 1
  /\ f' = TRUE
  /\ UNCHANGED <<blocks, pc>>

StepOver ==
  /\ InPass
  /\ ~ Mergeable
  /\ current' = current + 1
  /\ UNCHANGED <<blocks, pc, f>>

NextPass ==
  /\ pc = "compact"
  /\ ~ InPass
  /\ f
  /\ current' = 1
  /\ f' = FALSE
  /\ UNCHANGED <<blocks, pc>>

\* fault: one pass over the list is thought to be enough
CompactEndEarly ==
  /\ pc = "compact"
  /\ ~ InPass
  /\ pc' = "command"
  /\ UNCHANGED <<blocks, current, f>>

CompactEnd ==
  /\ pc = "compact"
  /\ ~ InPass
  /\ ~ f
  /\ pc' = "command"
  /\ UNCHANGED <<blocks, current, f>>

compactStep == MergeNext \/ StepOver \/ NextPass \/ CompactEnd

-----------------------------------------------------------------------------
Init ==
  /\ blocks = <<[process_name |-> FREE, start_address |-> 0, size |-> max_memory_size]>>
  /\ pc = "command"
  /\ current = 1
  /\ f = FALSE

Next ==
  \/ \E process \in Names :
       \/ \E size \in Sizes, strategy \in Strategies : allocateMemory(process, size, strategy)
       \/ releaseMemory(process)
  \/ CompactBegin
  \/ compactStep

\* The program does not stop in the middle of compactMemory().
Spec == Init /\ [][Next]_vars /\ WF_vars(compactStep)

-----------------------------------------------------------------------------
(* Properties.                                                             *)

\* The blocks tile the memory: the first starts at 0, each starts where the one
\* before it ends, and the last ends at the end of the memory.  So no address
\* is lost and none belongs to two blocks, in the middle of a compaction too.
Tiling ==
  /\ blocks[1].start_address = 0
  /\ \A i \in 1 .. Len(blocks) - 1 : blocks[i + 1].start_address = End(i)
  /\ End(Len(blocks)) = max_memory_size

NoFreeNeighbours == \A i \in 1 .. Len(blocks) - 1 : ~ (IsFree(i) /\ IsFree(i + 1))

\* compactMemory() leaves no two free blocks next to each other, although a pass
\* merges them in pairs and never looks at a merged block again.
CompactionComplete == [][pc = "compact" /\ pc' = "command" => NoFreeNeighbours']_vars

\* compactMemory() ends.
CompactionEnds == pc = "compact" ~> pc = "command"

\* the owner of each address as the blocks tell it
AddressOwner ==
  [x \in 0 .. max_memory_size - 1 |->
     LET i == CHOOSE i \in DOMAIN blocks : blocks[i].start_address <= x /\ x < End(i)
     IN  blocks[i].process_name]

Space == INSTANCE AddressSpace WITH MAX_MEMORY <- max_memory_size, owner <- AddressOwner

\* The allocator implements the address space: a request hands out consecutive
\* free addresses, and RL gives back those of one block of a process.
ImplementsAddressSpace == Space!Spec

=============================================================================
