----------------------------- MODULE FileSystem -----------------------------
(***************************************************************************)
(* The simulated file system of lab06: file descriptors, the open file     *)
(* table, the block bitmap and the disk, with one action per command of    *)
(* the interactive loop.  write() is one action per turn of its copy loop, *)
(* because that is where blocks are allocated; the other commands are one  *)
(* action each.                                                            *)
(*                                                                         *)
(* C arrays are functions from 0, as in the source.  A command that fails  *)
(* (no free descriptor, no such file, handle not open) returns early and   *)
(* changes nothing, so it has no action here.                              *)
(***************************************************************************)
EXTENDS Integers, FiniteSets

CONSTANTS
  MAX_FILES,    \* descriptors, and entries of the open file table
  MAX_BLOCKS,   \* blocks of the disk
  BLOCK_SIZE,   \* bytes in a block
  FILE_BLOCKS,  \* blocks a file can have: the 3 of block_numbers[3]
  Names,        \* the names commands use
  DIRECTORY,    \* the name main() gives to descriptor 0
  EMPTY,        \* the name of length 0, which marks a free descriptor
  mem_area,     \* the bytes write() copies from, filled once at start-up
  ZERO,         \* the byte that memset leaves in the disk
  Counts,       \* the byte counts passed to read and write
  Positions     \* the positions passed to lseek

ASSUME SizesAssumption ==
  /\ MAX_FILES \in Nat \ {0}
  /\ MAX_BLOCKS \in Nat \ {0}
  /\ BLOCK_SIZE \in Nat \ {0}
  /\ FILE_BLOCKS \in Nat \ {0}
  /\ Counts \subseteq Nat
  /\ Positions \subseteq Nat

ASSUME NamesAssumption == EMPTY \notin Names \union {DIRECTORY}

VARIABLES
  fds,          \* file descriptors: name, length, block numbers
  open_files,   \* open file table: descriptor index, read/write pointer
  disk_bitmap,  \* 1 for a block in use, 0 for a free one
  ldisk,        \* the bytes of each block
  pc,           \* "command": at the prompt; "write": in the loop of write()
  job           \* the local variables of the write() in progress

vars == <<fds, open_files, disk_bitmap, ldisk, pc, job>>

NIL      == -1
Slots    == 0 .. MAX_FILES - 1
Blocks   == 0 .. MAX_BLOCKS - 1
Offsets  == 0 .. BLOCK_SIZE - 1
FileIdx  == 0 .. FILE_BLOCKS - 1
Capacity == FILE_BLOCKS * BLOCK_SIZE
AllNames == Names \union {DIRECTORY, EMPTY}
Bytes    == {mem_area[k] : k \in 0 .. Capacity - 1} \union {ZERO}

Smaller(a, b) == IF a < b THEN a ELSE b
Least(S)      == CHOOSE x \in S : \A y \in S : x <= y

\* fault: block numbers start at 0, not at -1
FreshFileZeroed(name) ==
  [filename |-> name, length |-> 0, block_numbers |-> [k \in FileIdx |-> 0]]

FreshFile(name) ==
  [filename |-> name, length |-> 0, block_numbers |-> [k \in FileIdx |-> NIL]]

ZeroFile ==
  [filename |-> EMPTY, length |-> 0, block_numbers |-> [k \in FileIdx |-> 0]]

NotOpen == [fd_index |-> NIL, rw_pointer |-> -1]

NoJob ==
  [index |-> 0, block_index |-> 0, offset |-> 0, bytes_written |-> 0, bytes_to_write |-> 0]

-----------------------------------------------------------------------------
(* What the commands look up.                                              *)

\* the descriptors a name matches, the first of which a command uses
Named(name) == {i \in Slots : fds[i].filename = name}

IsOpen(h)     == open_files[h].fd_index # NIL
ClosedHandles == {h \in Slots : ~ IsOpen(h)}
FileOf(h)     == fds[open_files[h].fd_index]

\* fault: allocate_block() looks at block 0 as if it were always free
FreeBlocksOrFirst == {b \in Blocks : b = 0 \/ disk_bitmap[b] = 0}

\* the blocks allocate_block() can return: it takes the first of them
FreeBlocks == {b \in Blocks : disk_bitmap[b] = 0}

\* how many bytes read() announces, and how many its loop gets through before
\* it meets an index past the last block, or a block that is not allocated
BytesToRead(h, count) == Smaller(count, FileOf(h).length - open_files[h].rw_pointer)

BytesRead(h, count) ==
  LET rw    == open_files[h].rw_pointer
      start == rw \div BLOCK_SIZE
      stop  == Least({k \in start .. start + FILE_BLOCKS :
                        k >= FILE_BLOCKS \/ FileOf(h).block_numbers[k] = NIL})
  IN  IF BytesToRead(h, count) <= 0 \/ stop = start
      THEN 0
      ELSE Smaller(BytesToRead(h, count), stop * BLOCK_SIZE - rw)

-----------------------------------------------------------------------------
(* The commands.                                                           *)

\* the directory's length follows the number of files; when the entry that was
\* just set is descriptor 0 itself, its new length is the one that changes
CountFile(table, d) == [table EXCEPT ![0].length = @ + d]

Create(name) ==
  /\ pc = "command"
  /\ Named(EMPTY) # {}
  /\ fds' = CountFile([fds EXCEPT ![Least(Named(EMPTY))] = FreshFile(name)], 1)
  /\ UNCHANGED <<open_files, disk_bitmap, ldisk, pc, job>>

\* fault: destroy() empties the name and leaves the rest of the descriptor
DestroyNameOnly(name) ==
  /\ pc = "command"
  /\ Named(name) # {}
  /\ LET i == Least(Named(name))
     IN  /\ disk_bitmap' = [b \in Blocks |->
                              IF \E k \in FileIdx : fds[i].block_numbers[k] = b
                              THEN 0 ELSE disk_bitmap[b]]
         /\ fds' = CountFile([fds EXCEPT ![i].filename = EMPTY], -1)
         /\ open_files' = [open_files EXCEPT ![i] = NotOpen]
  /\ UNCHANGED <<ldisk, pc, job>>

\* The entry of the open file table that destroy() clears has the index of the
\* descriptor, not that of a handle on it.
Destroy(name) ==
  /\ pc = "command"
  /\ Named(name) # {}
  /\ LET i == Least(Named(name))
     IN  /\ disk_bitmap' = [b \in Blocks |->
                              IF \E k \in FileIdx : fds[i].block_numbers[k] = b
                              THEN 0 ELSE disk_bitmap[b]]
         /\ fds' = CountFile([fds EXCEPT ![i] = ZeroFile], -1)
         /\ open_files' = [open_files EXCEPT ![i] = NotOpen]
  /\ UNCHANGED <<ldisk, pc, job>>

\* fault: open() does not reset the pointer
OpenKeepsPointer(name) ==
  /\ pc = "command"
  /\ Named(name) # {}
  /\ ClosedHandles # {}
  /\ open_files' = [open_files EXCEPT ![Least(ClosedHandles)].fd_index = Least(Named(name))]
  /\ UNCHANGED <<fds, disk_bitmap, ldisk, pc, job>>

Open(name) ==
  /\ pc = "command"
  /\ Named(name) # {}
  /\ ClosedHandles # {}
  /\ open_files' = [open_files EXCEPT ![Least(ClosedHandles)] =
                      [fd_index |-> Least(Named(name)), rw_pointer |-> 0]]
  /\ UNCHANGED <<fds, disk_bitmap, ldisk, pc, job>>

Close(h) ==
  /\ pc = "command"
  /\ IsOpen(h)
  /\ open_files' = [open_files EXCEPT ![h] = [fd_index |-> NIL, rw_pointer |-> 0]]
  /\ UNCHANGED <<fds, disk_bitmap, ldisk, pc, job>>

Read(h, count) ==
  /\ pc = "command"
  /\ IsOpen(h)
  /\ open_files' = [open_files EXCEPT ![h].rw_pointer = @ + BytesRead(h, count)]
  /\ UNCHANGED <<fds, disk_bitmap, ldisk, pc, job>>

Lseek(h, pos) ==
  /\ pc = "command"
  /\ IsOpen(h)
  /\ open_files' = [open_files EXCEPT ![h].rw_pointer = pos]
  /\ UNCHANGED <<fds, disk_bitmap, ldisk, pc, job>>

-----------------------------------------------------------------------------
(* write(): the checks before the loop, the turns of the loop, the updates *)
(* after it.                                                               *)

\* fault: the count is not cut down to what is left of the file
WriteBeginUncut(h, count) ==
  /\ pc = "command"
  /\ IsOpen(h)
  /\ pc' = "write"
  /\ job' = [index          |-> h,
             block_index    |-> open_files[h].rw_pointer \div BLOCK_SIZE,
             offset         |-> open_files[h].rw_pointer % BLOCK_SIZE,
             bytes_written  |-> 0,
             bytes_to_write |-> count]
  /\ UNCHANGED <<fds, open_files, disk_bitmap, ldisk>>

WriteBegin(h, count) ==
  /\ pc = "command"
  /\ IsOpen(h)
  /\ pc' = "write"
  /\ job' = [index          |-> h,
             block_index    |-> open_files[h].rw_pointer \div BLOCK_SIZE,
             offset         |-> open_files[h].rw_pointer % BLOCK_SIZE,
             bytes_written  |-> 0,
             bytes_to_write |-> Smaller(count, Capacity - FileOf(h).length)]
  /\ UNCHANGED <<fds, open_files, disk_bitmap, ldisk>>

\* the loop's condition and its first break
InLoop ==
  /\ pc = "write"
  /\ job.bytes_written < job.bytes_to_write
  /\ job.block_index < FILE_BLOCKS

TargetBlock == FileOf(job.index).block_numbers[job.block_index]

\* fault: the loop stays on its block
CopyIntoSameBlock(b, offset) ==
  LET n == Smaller(job.bytes_to_write - job.bytes_written, BLOCK_SIZE - offset)
  IN  /\ UNCHANGED ldisk
      /\ job' = [job EXCEPT !.bytes_written = @ + n, !.offset = 0]

\* the memcpy into block b from offset, and the loop's three updates
CopyInto(b, offset) ==
  LET n == Smaller(job.bytes_to_write - job.bytes_written, BLOCK_SIZE - offset)
  IN  /\ ldisk' = [ldisk EXCEPT ![b] = [o \in Offsets |->
                     IF o \in offset .. offset + n - 1
                     THEN mem_area[job.bytes_written + o - offset]
                     ELSE ldisk[b][o]]]
      /\ job' = [job EXCEPT !.bytes_written = @ + n,
                            !.offset = 0,
                            !.block_index = @ + 1]

WriteInPlace ==
  /\ InLoop
  /\ TargetBlock # NIL
  /\ CopyInto(TargetBlock, job.offset)
  /\ UNCHANGED <<fds, open_files, disk_bitmap, pc>>

WriteNewBlock ==
  /\ InLoop
  /\ TargetBlock = NIL
  /\ FreeBlocks # {}
  /\ LET b == Least(FreeBlocks)
     IN  /\ disk_bitmap' = [disk_bitmap EXCEPT ![b] = 1]
         /\ fds' = [fds EXCEPT
                      ![open_files[job.index].fd_index].block_numbers[job.block_index] = b]
         /\ CopyInto(b, 0)
  /\ UNCHANGED <<open_files, pc>>

\* fault: when the disk is full the loop tries again instead of ending
WriteEndRetrying ==
  /\ pc = "write"
  /\ ~ InLoop
  /\ fds' = [fds EXCEPT ![open_files[job.index].fd_index].length = @ + job.bytes_written]
  /\ open_files' = [open_files EXCEPT ![job.index].rw_pointer = @ + job.bytes_written]
  /\ pc' = "command"
  /\ job' = NoJob
  /\ UNCHANGED <<disk_bitmap, ldisk>>

WriteEnd ==
  /\ pc = "write"
  /\ ~ (InLoop /\ (TargetBlock # NIL \/ FreeBlocks # {}))
  /\ fds' = [fds EXCEPT ![open_files[job.index].fd_index].length = @ + job.bytes_written]
  /\ open_files' = [open_files EXCEPT ![job.index].rw_pointer = @ + job.bytes_written]
  /\ pc' = "command"
  /\ job' = NoJob
  /\ UNCHANGED <<disk_bitmap, ldisk>>

-----------------------------------------------------------------------------
\* main() up to the prompt, when no saved files exist
InitialFds       == [i \in Slots |-> IF i = 0 THEN FreshFile(DIRECTORY) ELSE ZeroFile]
InitialOpenFiles == [h \in Slots |-> NotOpen]
InitialBitmap    == [b \in Blocks |-> 0]
InitialLdisk     == [b \in Blocks |-> [o \in Offsets |-> ZERO]]

Init ==
  /\ fds = InitialFds
  /\ open_files = InitialOpenFiles
  /\ disk_bitmap = InitialBitmap
  /\ ldisk = InitialLdisk
  /\ pc = "command"
  /\ job = NoJob

WriteStep == WriteInPlace \/ WriteNewBlock \/ WriteEnd

Command ==
  \/ \E name \in Names : Create(name) \/ Destroy(name) \/ Open(name)
  \/ \E h \in Slots :
       \/ Close(h)
       \/ \E count \in Counts : Read(h, count) \/ WriteBegin(h, count)
       \/ \E pos \in Positions : Lseek(h, pos)

Next == Command \/ WriteStep

Spec == Init /\ [][Next]_vars

-----------------------------------------------------------------------------
(* Properties.                                                             *)

FileType ==
  [filename : AllNames, length : Int, block_numbers : [FileIdx -> Blocks \union {NIL}]]

HandleType == [fd_index : Slots \union {NIL}, rw_pointer : Int]

JobType ==
  [index : Slots, block_index : Nat, offset : Offsets, bytes_written : Nat, bytes_to_write : Int]

\* Every variable has its type; a handle's pointer is negative only in an entry
\* that is not open; and while write() runs its handle stays open.
TypeOK ==
  /\ fds \in [Slots -> FileType]
  /\ open_files \in [Slots -> HandleType]
  /\ \A h \in Slots : IsOpen(h) => open_files[h].rw_pointer >= 0
  /\ disk_bitmap \in [Blocks -> {0, 1}]
  /\ ldisk \in [Blocks -> [Offsets -> Bytes]]
  /\ pc \in {"command", "write"}
  /\ job \in JobType
  /\ pc = "write" => IsOpen(job.index)

\* block b is the k-th block of the file in descriptor i
Owns(i, k, b) == fds[i].filename # EMPTY /\ fds[i].block_numbers[k] = b

\* The bitmap marks exactly the blocks that files own: a block that is marked
\* and owned by nobody is lost to allocate_block() for good (the leak that
\* destroy() frees its blocks to avoid), and one that is owned and not marked
\* will be given away a second time.
BitmapExact ==
  \A b \in Blocks : disk_bitmap[b] = 1 <=> \E i \in Slots, k \in FileIdx : Owns(i, k, b)

\* No block belongs to two files, nor twice to one file, although handles
\* outlive the files they were opened on and descriptors are reused.
BlocksOwnedOnce ==
  \A b \in Blocks, i, j \in Slots, k, l \in FileIdx :
    Owns(i, k, b) /\ Owns(j, l, b) => i = j /\ k = l

\* The block numbers of a free descriptor are the zeros of a memset, never NIL:
\* so a write through a handle on it finds no block missing and allocates none.
\* Otherwise it would allocate blocks that no file owns.
FreeDescriptorsTakeNoBlocks ==
  \A i \in Slots : fds[i].filename = EMPTY =>
    \A k \in FileIdx : fds[i].block_numbers[k] # NIL

\* Outside descriptor 0, whose length create() and destroy() also change, no
\* sequence of writes at any positions, through any handles, makes a length
\* exceed what the blocks of a file hold.
LengthWithinCapacity ==
  \A i \in Slots \ {0} : fds[i].length \in 0 .. Capacity

\* A turn of write() copies from inside mem_area, also when the length of
\* descriptor 0 is negative, as it is once the directory was destroyed, and the
\* count is then not cut down to what a file holds.
CopyWithinMemArea ==
  InLoop =>
    LET offset == IF TargetBlock = NIL THEN 0 ELSE job.offset
        left   == job.bytes_to_write - job.bytes_written
    IN  job.bytes_written + Smaller(left, BLOCK_SIZE - offset) <= Capacity

\* A turn of write() whose descriptor holds a file changes blocks of that file
\* only, even when the handle was opened on an earlier file of the descriptor.
WritesStayInFile ==
  [][\A b \in Blocks :
       LET i == open_files[job.index].fd_index
       IN  ldisk'[b] # ldisk[b] /\ fds[i].filename # EMPTY =>
             \A j \in Slots \ {i}, k \in FileIdx : ~ Owns(j, k, b)']_vars

\* the owner of each block as the descriptors tell it
BlockOwner ==
  [blk \in Blocks |->
     IF \E i \in Slots, k \in FileIdx : Owns(i, k, blk)
     THEN CHOOSE i \in Slots : \E k \in FileIdx : Owns(i, k, blk)
     ELSE NIL]

Pool == INSTANCE BlockPool WITH
  Owners <- Slots, NoOwner <- NIL, Limit <- FILE_BLOCKS, owner <- BlockOwner

\* The file system implements the pool: a step of write() takes one block that
\* was free, destroy() gives back all the blocks of the file it removes, and no
\* other step moves a block between files or loses one.
ImplementsBlockPool == Pool!Spec

=============================================================================
