-------------------------- MODULE FileSystemProofs --------------------------
(***************************************************************************)
(* Proofs about the file system for every number of files and blocks,      *)
(* every block size, and every set of names, counts and positions.         *)
(*                                                                         *)
(* For one run (Spec): the arithmetic and the lookups, type correctness,   *)
(* that the bitmap is exact and that no block has two owners, where the    *)
(* copies of write() go, the lengths of files, and that the blocks are a   *)
(* BlockPool.  Over all runs, with exits and kills (LSpec): what a restart *)
(* finds in the saved files.                                               *)
(***************************************************************************)
EXTENDS FileSystemLoop, FiniteSetTheorems, WellFoundedInduction, TLAPS

-----------------------------------------------------------------------------
(* Arithmetic and lookups.                                                 *)

\* A set of naturals that is not empty has a least member, and Least is it: the
\* loops that look for a free descriptor, a name, a closed handle or a free
\* block find the first one.
LEMMA LeastProperties ==
  ASSUME NEW S, S \subseteq Nat, S # {}
  PROVE  Least(S) \in S /\ \A y \in S : Least(S) <= y
<1> DEFINE R == OpToRel(<, Nat)
<1>1. IsWellFoundedOn(R, Nat)
  BY NatLessThanWellFounded
<1>2. \E x \in S : \A y \in S : <<y, x>> \notin R
  <2> HIDE DEF R
  <2> QED BY <1>1, WFMin
<1>3. \A x, y \in Nat : <<y, x>> \in R <=> y < x
  BY DEF OpToRel
<1>4. \E x \in S : \A y \in S : x <= y
  <2> HIDE DEF R
  <2>1. PICK x \in S : \A y \in S : <<y, x>> \notin R
    BY <1>2
  <2>2. \A y \in S : ~ (y < x)
    BY <2>1, <1>3, Zenon
  <2>3. \A y \in S : x <= y
    BY <2>2, SMT
  <2> QED BY <2>3
<1> QED BY <1>4, Zenon DEF Least

\* A position has a block index and an offset inside the block, and the next
\* block starts behind it.
LEMMA BlockAndOffset ==
  ASSUME NEW p \in Nat
  PROVE  /\ p \div BLOCK_SIZE \in Nat
         /\ p % BLOCK_SIZE \in Offsets
         /\ p < (p \div BLOCK_SIZE) * BLOCK_SIZE + BLOCK_SIZE
<1> BLOCK_SIZE \in Nat \ {0} BY SizesAssumption
<1>1. p \div BLOCK_SIZE \in Nat OBVIOUS
<1>2. p % BLOCK_SIZE \in 0 .. BLOCK_SIZE - 1 OBVIOUS
<1>3. p = BLOCK_SIZE * (p \div BLOCK_SIZE) + (p % BLOCK_SIZE) OBVIOUS
<1> QED BY <1>1, <1>2, <1>3 DEF Offsets

\* Multiplying by the block size keeps the order of block indices.
LEMMA BlocksOrdered ==
  ASSUME NEW k \in Nat, NEW l \in Nat, k < l
  PROVE  /\ k * BLOCK_SIZE \in Nat
         /\ l * BLOCK_SIZE \in Nat
         /\ k * BLOCK_SIZE + BLOCK_SIZE <= l * BLOCK_SIZE
<1> BLOCK_SIZE \in Nat BY SizesAssumption
<1>1. PICK d \in Nat : l = k + 1 + d BY SMT
<1>2. (k + 1 + d) * BLOCK_SIZE = k * BLOCK_SIZE + BLOCK_SIZE + d * BLOCK_SIZE BY SMT
<1>3. d * BLOCK_SIZE \in Nat /\ k * BLOCK_SIZE \in Nat BY SMT
<1> QED BY <1>1, <1>2, <1>3

\* The constants and the sets made of them.
LEMMA ConstantFacts ==
  /\ MAX_FILES \in Nat \ {0}
  /\ MAX_BLOCKS \in Nat \ {0}
  /\ BLOCK_SIZE \in Nat \ {0}
  /\ FILE_BLOCKS \in Nat \ {0}
  /\ Capacity \in Nat
  /\ 0 \in Slots /\ Slots \subseteq Nat
  /\ Blocks \subseteq Nat
  /\ NIL = -1 /\ NIL \notin Slots /\ NIL \notin Blocks
  /\ FileIdx \subseteq Nat
  /\ 0 \in Offsets /\ Offsets \subseteq Nat
BY SizesAssumption DEF Capacity, Slots, Blocks, NIL, FileIdx, Offsets

\* The values given to whole entries of the tables have the types of entries.
LEMMA EntryTypes ==
  /\ ZeroFile \in FileType
  /\ \A name \in AllNames : FreshFile(name) \in FileType
  /\ NotOpen \in HandleType
  /\ NoJob \in JobType
<1>1. 0 \in Blocks
  BY ConstantFacts DEF Blocks
<1> QED
  BY <1>1, ConstantFacts
  DEF ZeroFile, FreshFile, NotOpen, NoJob, FileType, HandleType, JobType, AllNames

\* Changing the length or one block number of a descriptor keeps its type.
LEMMA FileUpdates ==
  ASSUME NEW f \in FileType
  PROVE  /\ f.length \in Int
         /\ \A n \in Int : [f EXCEPT !.length = n] \in FileType
         /\ \A k \in FileIdx, b \in Blocks : [f EXCEPT !.block_numbers[k] = b] \in FileType
<1>1. f.length \in Int /\ \A n \in Int : [f EXCEPT !.length = n] \in FileType
  BY DEF FileType
<1>2. ASSUME NEW k \in FileIdx, NEW b \in Blocks
      PROVE  [f EXCEPT !.block_numbers[k] = b] \in FileType
  <2>1. f.block_numbers \in [FileIdx -> Blocks \union {NIL}]
    BY DEF FileType
  <2>2. [f.block_numbers EXCEPT ![k] = b] \in [FileIdx -> Blocks \union {NIL}]
    BY <2>1
  <2>3. [f EXCEPT !.block_numbers[k] = b] =
          [f EXCEPT !.block_numbers = [f.block_numbers EXCEPT ![k] = b]]
    BY DEF FileType
  <2> QED BY <2>2, <2>3 DEF FileType
<1> QED BY <1>1, <1>2

\* create() and destroy(): an entry is replaced, then the directory's length
\* changes.
LEMMA ReplaceAndCount ==
  ASSUME NEW table \in [Slots -> FileType], NEW i \in Slots, NEW f \in FileType, NEW d \in Int
  PROVE  CountFile([table EXCEPT ![i] = f], d) \in [Slots -> FileType]
<1> DEFINE mid == [table EXCEPT ![i] = f]
<1>1. mid \in [Slots -> FileType] /\ 0 \in Slots
  BY ConstantFacts
<1> HIDE DEF mid
<1>2. [mid[0] EXCEPT !.length = mid[0].length + d] \in FileType
  <2>1. mid[0] \in FileType
    BY <1>1
  <2>2. mid[0].length + d \in Int
    BY <2>1, FileUpdates
  <2> QED BY <2>1, <2>2, FileUpdates
<1>3. CountFile(mid, d) = [mid EXCEPT ![0] = [mid[0] EXCEPT !.length = mid[0].length + d]]
  BY <1>1 DEF CountFile
<1> QED BY <1>1, <1>2, <1>3 DEF mid

\* The descriptor that a lookup by name finds, when there is one.
LEMMA NamedFile ==
  ASSUME NEW name, Named(name) # {}
  PROVE  /\ Least(Named(name)) \in Slots
         /\ fds[Least(Named(name))].filename = name
<1>1. Named(name) \subseteq Nat
  BY ConstantFacts DEF Named
<1>2. Least(Named(name)) \in Named(name)
  BY <1>1, LeastProperties
<1> QED BY <1>2 DEF Named

\* The handle open() takes, and the block allocate_block() takes.
LEMMA ClosedHandle ==
  ASSUME ClosedHandles # {}
  PROVE  Least(ClosedHandles) \in Slots /\ ~ IsOpen(Least(ClosedHandles))
<1>1. ClosedHandles \subseteq Nat
  BY ConstantFacts DEF ClosedHandles
<1>2. Least(ClosedHandles) \in ClosedHandles
  BY <1>1, LeastProperties
<1> QED BY <1>2 DEF ClosedHandles

LEMMA FreeBlock ==
  ASSUME FreeBlocks # {}
  PROVE  Least(FreeBlocks) \in Blocks /\ disk_bitmap[Least(FreeBlocks)] = 0
<1>1. FreeBlocks \subseteq Nat
  BY ConstantFacts DEF FreeBlocks
<1>2. Least(FreeBlocks) \in FreeBlocks
  BY <1>1, LeastProperties
<1> QED BY <1>2 DEF FreeBlocks

\* read() never moves the pointer of a handle backwards.
LEMMA BytesReadType ==
  ASSUME TypeOK, NEW h \in Slots, IsOpen(h), NEW count \in Nat
  PROVE  BytesRead(h, count) \in Nat
<1> DEFINE rw    == open_files[h].rw_pointer
           start == rw \div BLOCK_SIZE
           ends  == {k \in start .. start + FILE_BLOCKS :
                       k >= FILE_BLOCKS \/ FileOf(h).block_numbers[k] = NIL}
           stop  == Least(ends)
<1>1. rw \in Nat
  BY DEF TypeOK, HandleType
<1>2. start \in Nat /\ rw < start * BLOCK_SIZE + BLOCK_SIZE
  BY <1>1, BlockAndOffset
<1>3. stop \in Nat /\ stop >= start
  <2> HIDE DEF start
  <2>1. ends \subseteq Nat
    BY <1>2, ConstantFacts
  <2>2. start + FILE_BLOCKS \in ends
    BY <1>2, ConstantFacts
  <2>3. stop \in ends
    BY <2>1, <2>2, LeastProperties
  <2> QED BY <2>3, <1>2, ConstantFacts
<1>4. BytesToRead(h, count) \in Int
  <2>1. open_files[h].fd_index \in Slots
    BY DEF TypeOK, HandleType, IsOpen
  <2>2. FileOf(h).length \in Int
    BY <2>1 DEF TypeOK, FileType, FileOf
  <2> QED BY <1>1, <2>2 DEF BytesToRead, Smaller
<1>5. CASE BytesToRead(h, count) <= 0 \/ stop = start
  BY <1>5 DEF BytesRead
<1>6. CASE ~ (BytesToRead(h, count) <= 0 \/ stop = start)
  <2>1. BytesRead(h, count) = Smaller(BytesToRead(h, count), stop * BLOCK_SIZE - rw)
    BY <1>6 DEF BytesRead
  <2> HIDE DEF start, stop, rw
  <2>2. start < stop
    BY <1>2, <1>3, <1>6
  <2>3. stop * BLOCK_SIZE \in Nat /\ start * BLOCK_SIZE + BLOCK_SIZE <= stop * BLOCK_SIZE
    BY <1>2, <1>3, <2>2, BlocksOrdered
  <2>4. start * BLOCK_SIZE \in Int
    BY <1>2, ConstantFacts
  <2>5. stop * BLOCK_SIZE - rw \in Nat
    BY <1>1, <1>2, <2>3, <2>4, ConstantFacts
  <2> QED BY <1>4, <1>6, <2>1, <2>5 DEF Smaller
<1> QED BY <1>5, <1>6

-----------------------------------------------------------------------------
(* Type correctness.  It needs a fact about the loop of write(): the bytes *)
(* copied so far fit in the blocks before the current one.  Without it the *)
(* next copy could read behind mem_area, and the disk would hold bytes     *)
(* that are not in Bytes.                                                  *)

CopiedFitsBlocks == job.bytes_written <= job.block_index * BLOCK_SIZE

TypeInv == TypeOK /\ CopiedFitsBlocks

\* One memcpy: the disk keeps its type, and so do the local variables.
LEMMA CopyIntoType ==
  ASSUME TypeInv, InLoop, NEW b \in Blocks, NEW offset \in Offsets, CopyInto(b, offset)
  PROVE  /\ ldisk' \in [Blocks -> [Offsets -> Bytes]]
         /\ job' \in JobType
         /\ job'.index = job.index
         /\ CopiedFitsBlocks'
<1> DEFINE n == Smaller(job.bytes_to_write - job.bytes_written, BLOCK_SIZE - offset)
<1>1. /\ job \in JobType
      /\ job.bytes_written \in Nat
      /\ job.bytes_to_write \in Int
      /\ job.block_index \in Nat
      /\ job.block_index < FILE_BLOCKS
      /\ job.bytes_written < job.bytes_to_write
      /\ job.bytes_written <= job.block_index * BLOCK_SIZE
      /\ offset \in Nat /\ offset < BLOCK_SIZE
  BY ConstantFacts DEF TypeInv, TypeOK, JobType, InLoop, CopiedFitsBlocks, Offsets
<1>2. n \in Nat /\ n <= BLOCK_SIZE - offset
  BY <1>1, ConstantFacts DEF Smaller
<1>3. /\ job.block_index * BLOCK_SIZE \in Nat
      /\ job.block_index * BLOCK_SIZE + BLOCK_SIZE <= Capacity
      /\ (job.block_index + 1) * BLOCK_SIZE = job.block_index * BLOCK_SIZE + BLOCK_SIZE
  <2>1. job.block_index * BLOCK_SIZE + BLOCK_SIZE <= FILE_BLOCKS * BLOCK_SIZE
    BY <1>1, ConstantFacts, BlocksOrdered
  <2> QED BY <1>1, <2>1, ConstantFacts DEF Capacity
<1>4. job' = [job EXCEPT !.bytes_written = @ + n, !.offset = 0, !.block_index = @ + 1]
  BY DEF CopyInto
<1>5. job' \in JobType /\ job'.index = job.index
  <2> HIDE DEF n
  <2>1. job' = [index          |-> job.index,
                block_index    |-> job.block_index + 1,
                offset         |-> 0,
                bytes_written  |-> job.bytes_written + n,
                bytes_to_write |-> job.bytes_to_write]
    BY <1>1, <1>4 DEF JobType
  <2>2. /\ job.index \in Slots
        /\ job.block_index + 1 \in Nat
        /\ 0 \in Offsets
        /\ job.bytes_written + n \in Nat
    BY <1>1, <1>2, ConstantFacts DEF JobType
  <2> QED BY <1>1, <2>1, <2>2 DEF JobType
<1>6. CopiedFitsBlocks'
  <2> HIDE DEF n
  <2>1. /\ job'.bytes_written = job.bytes_written + n
        /\ job'.block_index = job.block_index + 1
    BY <1>1, <1>4 DEF JobType
  <2>2. job.bytes_written + n <= job.block_index * BLOCK_SIZE + BLOCK_SIZE
    BY <1>1, <1>2, <1>3, ConstantFacts
  <2> QED BY <1>3, <2>1, <2>2 DEF CopiedFitsBlocks
<1>7. ldisk' \in [Blocks -> [Offsets -> Bytes]]
  <2>1. ldisk \in [Blocks -> [Offsets -> Bytes]]
    BY DEF TypeInv, TypeOK
  <2>2. ASSUME NEW o \in Offsets
        PROVE  (IF o \in offset .. offset + n - 1
                THEN mem_area[job.bytes_written + o - offset]
                ELSE ldisk[b][o]) \in Bytes
    <3> HIDE DEF n
    <3>1. CASE o \in offset .. offset + n - 1
      <4>1. job.bytes_written + o - offset \in 0 .. Capacity - 1
        BY <1>1, <1>2, <1>3, <3>1, ConstantFacts
      <4> QED BY <3>1, <4>1 DEF Bytes
    <3>2. CASE o \notin offset .. offset + n - 1
      BY <2>1, <3>2
    <3> QED BY <3>1, <3>2
  <2>3. [o \in Offsets |-> IF o \in offset .. offset + n - 1
                           THEN mem_area[job.bytes_written + o - offset]
                           ELSE ldisk[b][o]] \in [Offsets -> Bytes]
    <3> HIDE DEF n
    <3> QED BY <2>2
  <2> QED BY <2>1, <2>3 DEF CopyInto
<1> QED BY <1>5, <1>6, <1>7

\* main() sets up values of the right types.
LEMMA TypeInvInit == Init => TypeInv
<1> SUFFICES ASSUME Init PROVE TypeInv
  OBVIOUS
<1>1. fds \in [Slots -> FileType]
  BY EntryTypes DEF Init, InitialFds, AllNames
<1>2. open_files \in [Slots -> HandleType] /\ \A h \in Slots : ~ IsOpen(h)
  BY EntryTypes DEF Init, InitialOpenFiles, IsOpen, NotOpen
<1>3. disk_bitmap \in [Blocks -> {0, 1}]
  BY DEF Init, InitialBitmap
<1>4. ldisk \in [Blocks -> [Offsets -> Bytes]]
  BY DEF Init, InitialLdisk, Bytes
<1>5. pc = "command" /\ job \in JobType
  BY EntryTypes DEF Init
<1>6. CopiedFitsBlocks
  BY ConstantFacts DEF Init, NoJob, CopiedFitsBlocks
<1> QED BY <1>1, <1>2, <1>3, <1>4, <1>5, <1>6 DEF TypeInv, TypeOK

\* Every command and every turn of write() keeps the types.
LEMMA TypeInvStep == TypeInv /\ [Next]_vars => TypeInv'
<1> SUFFICES ASSUME TypeInv, [Next]_vars PROVE TypeInv'
  OBVIOUS
<1> USE ConstantFacts
<1>0. /\ fds \in [Slots -> FileType]
      /\ open_files \in [Slots -> HandleType]
      /\ disk_bitmap \in [Blocks -> {0, 1}]
      /\ job \in JobType
  BY DEF TypeInv, TypeOK
<1>1. ASSUME NEW name \in Names, Create(name) PROVE TypeInv'
  <2> DEFINE i == Least(Named(EMPTY))
  <2>1. i \in Slots
    BY <1>1, NamedFile DEF Create
  <2>2. FreshFile(name) \in FileType
    BY EntryTypes DEF AllNames
  <2>3. CountFile([fds EXCEPT ![i] = FreshFile(name)], 1) \in [Slots -> FileType]
    <3> HIDE DEF i
    <3> QED BY <1>0, <2>1, <2>2, 1 \in Int, ReplaceAndCount
  <2> QED BY <1>1, <2>3 DEF Create, TypeInv, TypeOK, CopiedFitsBlocks, IsOpen
<1>2. ASSUME NEW name \in Names, Destroy(name) PROVE TypeInv'
  <2> DEFINE i == Least(Named(name))
  <2>1. i \in Slots
    BY <1>2, NamedFile DEF Destroy
  <2> HIDE DEF i
  <2>2. fds' = CountFile([fds EXCEPT ![i] = ZeroFile], -1)
    BY <1>2 DEF Destroy, i
  <2>3. fds' \in [Slots -> FileType]
    <3>1. CountFile([fds EXCEPT ![i] = ZeroFile], -1) \in [Slots -> FileType]
      BY <1>0, <2>1, -1 \in Int, EntryTypes, ReplaceAndCount
    <3> QED BY <2>2, <3>1
  <2>4. disk_bitmap' \in [Blocks -> {0, 1}]
    BY <1>0, <1>2 DEF Destroy
  <2>5. open_files' = [open_files EXCEPT ![i] = NotOpen]
    BY <1>2 DEF Destroy, i
  <2>6. open_files' \in [Slots -> HandleType]
    BY <1>0, <2>1, <2>5, EntryTypes
  <2>7. \A h \in Slots : IsOpen(h)' => open_files'[h].rw_pointer >= 0
    BY <1>0, <2>1, <2>5 DEF TypeInv, TypeOK, IsOpen, NotOpen
  <2>8. pc = "command" /\ UNCHANGED <<ldisk, pc, job>>
    BY <1>2 DEF Destroy
  <2> QED BY <2>3, <2>4, <2>6, <2>7, <2>8 DEF TypeInv, TypeOK, CopiedFitsBlocks
<1>3. ASSUME NEW name \in Names, Open(name) PROVE TypeInv'
  <2> DEFINE j == Least(ClosedHandles)
             i == Least(Named(name))
  <2>1. i \in Slots /\ j \in Slots
    BY <1>3, NamedFile, ClosedHandle DEF Open
  <2> HIDE DEF i, j
  <2>2. open_files' = [open_files EXCEPT ![j] = [fd_index |-> i, rw_pointer |-> 0]]
    BY <1>3 DEF Open, i, j
  <2>3. open_files' \in [Slots -> HandleType]
    BY <1>0, <2>1, <2>2 DEF HandleType
  <2>4. \A h \in Slots : IsOpen(h)' => open_files'[h].rw_pointer >= 0
    BY <1>0, <2>1, <2>2 DEF TypeInv, TypeOK, IsOpen
  <2>5. pc = "command" /\ UNCHANGED <<fds, disk_bitmap, ldisk, pc, job>>
    BY <1>3 DEF Open
  <2> QED BY <2>3, <2>4, <2>5 DEF TypeInv, TypeOK, CopiedFitsBlocks
<1>4. ASSUME NEW h \in Slots, Close(h) PROVE TypeInv'
  <2>1. open_files' = [open_files EXCEPT ![h] = [fd_index |-> NIL, rw_pointer |-> 0]]
    BY <1>4 DEF Close
  <2>2. open_files' \in [Slots -> HandleType]
    BY <1>0, <2>1 DEF HandleType
  <2>3. \A g \in Slots : IsOpen(g)' => open_files'[g].rw_pointer >= 0
    BY <1>0, <2>1 DEF TypeInv, TypeOK, IsOpen
  <2>4. pc = "command" /\ UNCHANGED <<fds, disk_bitmap, ldisk, pc, job>>
    BY <1>4 DEF Close
  <2> QED BY <2>2, <2>3, <2>4 DEF TypeInv, TypeOK, CopiedFitsBlocks
<1>5. ASSUME NEW h \in Slots, NEW count \in Counts, Read(h, count) PROVE TypeInv'
  <2>1. count \in Nat
    BY SizesAssumption
  <2>2. BytesRead(h, count) \in Nat
    BY <1>5, <2>1, BytesReadType DEF Read, TypeInv
  <2>3. open_files' = [open_files EXCEPT ![h].rw_pointer = @ + BytesRead(h, count)]
    BY <1>5 DEF Read
  <2>4. open_files' \in [Slots -> HandleType]
    BY <1>0, <2>2, <2>3 DEF HandleType
  <2>5. \A g \in Slots : IsOpen(g)' => open_files'[g].rw_pointer >= 0
    BY <1>0, <2>2, <2>3 DEF TypeInv, TypeOK, IsOpen, HandleType
  <2>6. pc = "command" /\ UNCHANGED <<fds, disk_bitmap, ldisk, pc, job>>
    BY <1>5 DEF Read
  <2> QED BY <2>4, <2>5, <2>6 DEF TypeInv, TypeOK, CopiedFitsBlocks
<1>6. ASSUME NEW h \in Slots, NEW pos \in Positions, Lseek(h, pos) PROVE TypeInv'
  <2>1. pos \in Nat
    BY SizesAssumption
  <2>2. open_files' = [open_files EXCEPT ![h].rw_pointer = pos]
    BY <1>6 DEF Lseek
  <2>3. open_files' \in [Slots -> HandleType]
    BY <1>0, <2>1, <2>2 DEF HandleType
  <2>4. \A g \in Slots : IsOpen(g)' => open_files'[g].rw_pointer >= 0
    BY <1>0, <2>1, <2>2 DEF TypeInv, TypeOK, IsOpen, HandleType
  <2>5. pc = "command" /\ UNCHANGED <<fds, disk_bitmap, ldisk, pc, job>>
    BY <1>6 DEF Lseek
  <2> QED BY <2>3, <2>4, <2>5 DEF TypeInv, TypeOK, CopiedFitsBlocks
<1>7. ASSUME NEW h \in Slots, NEW count \in Counts, WriteBegin(h, count) PROVE TypeInv'
  <2> DEFINE rw == open_files[h].rw_pointer
  <2>1. IsOpen(h) /\ UNCHANGED <<fds, open_files, disk_bitmap, ldisk>> /\ pc' = "write"
    BY <1>7 DEF WriteBegin
  <2>2. rw \in Nat /\ open_files[h].fd_index \in Slots
    BY <1>0, <2>1 DEF TypeInv, TypeOK, HandleType, IsOpen
  <2>3. rw \div BLOCK_SIZE \in Nat /\ rw % BLOCK_SIZE \in Offsets
    BY <2>2, BlockAndOffset
  <2>4. Smaller(count, Capacity - FileOf(h).length) \in Int
    <3>1. FileOf(h).length \in Int
      BY <1>0, <2>2 DEF FileOf, FileType
    <3>2. count \in Nat
      BY SizesAssumption
    <3> QED BY <3>1, <3>2 DEF Smaller
  <2>5. job' = [index          |-> h,
                block_index    |-> rw \div BLOCK_SIZE,
                offset         |-> rw % BLOCK_SIZE,
                bytes_written  |-> 0,
                bytes_to_write |-> Smaller(count, Capacity - FileOf(h).length)]
    BY <1>7 DEF WriteBegin
  <2> HIDE DEF rw
  <2>6. job' \in JobType
    BY <2>3, <2>4, <2>5 DEF JobType
  <2>7. CopiedFitsBlocks'
    <3>1. (rw \div BLOCK_SIZE) * BLOCK_SIZE \in Nat
      BY <2>3
    <3> QED BY <2>5, <3>1 DEF CopiedFitsBlocks
  <2>8. job'.index = h
    BY <2>5
  <2> QED BY <2>1, <2>6, <2>7, <2>8 DEF TypeInv, TypeOK, IsOpen
<1>8. ASSUME WriteInPlace PROVE TypeInv'
  <2> DEFINE i == open_files[job.index].fd_index
             k == job.block_index
  <2>1. pc = "write" /\ IsOpen(job.index) /\ i \in Slots
    BY <1>0, <1>8 DEF WriteInPlace, InLoop, TypeInv, TypeOK, IsOpen, HandleType, JobType
  <2>2. k \in FileIdx
    BY <1>0, <1>8 DEF WriteInPlace, InLoop, JobType, FileIdx
  <2>3. TargetBlock \in Blocks
    <3>1. fds[i].block_numbers \in [FileIdx -> Blocks \union {NIL}]
      BY <1>0, <2>1 DEF FileType
    <3>2. TargetBlock = fds[i].block_numbers[k]
      BY DEF TargetBlock, FileOf
    <3>3. TargetBlock # NIL
      BY <1>8 DEF WriteInPlace
    <3> QED BY <2>2, <3>1, <3>2, <3>3
  <2>4. job.offset \in Offsets
    BY <1>0 DEF JobType
  <2>5. CopyInto(TargetBlock, job.offset) /\ UNCHANGED <<fds, open_files, disk_bitmap, pc>>
    BY <1>8 DEF WriteInPlace
  <2>6. /\ ldisk' \in [Blocks -> [Offsets -> Bytes]]
        /\ job' \in JobType /\ job'.index = job.index
        /\ CopiedFitsBlocks'
    BY <1>8, <2>3, <2>4, <2>5, CopyIntoType DEF WriteInPlace
  <2> QED BY <2>1, <2>5, <2>6 DEF TypeInv, TypeOK, IsOpen
<1>9. ASSUME WriteNewBlock PROVE TypeInv'
  <2> DEFINE i == open_files[job.index].fd_index
             k == job.block_index
             b == Least(FreeBlocks)
  <2>1. pc = "write" /\ IsOpen(job.index) /\ i \in Slots
    BY <1>0, <1>9 DEF WriteNewBlock, InLoop, TypeInv, TypeOK, IsOpen, HandleType, JobType
  <2>2. k \in FileIdx
    BY <1>0, <1>9 DEF WriteNewBlock, InLoop, JobType, FileIdx
  <2>3. b \in Blocks
    BY <1>9, FreeBlock DEF WriteNewBlock
  <2> HIDE DEF b, i, k
  <2>4. /\ disk_bitmap' = [disk_bitmap EXCEPT ![b] = 1]
        /\ fds' = [fds EXCEPT ![i].block_numbers[k] = b]
        /\ CopyInto(b, 0)
        /\ UNCHANGED <<open_files, pc>>
    BY <1>9 DEF WriteNewBlock, b, i, k
  <2>5. /\ ldisk' \in [Blocks -> [Offsets -> Bytes]]
        /\ job' \in JobType /\ job'.index = job.index
        /\ CopiedFitsBlocks'
    BY <1>9, <2>3, <2>4, CopyIntoType DEF WriteNewBlock
  <2>6. fds' \in [Slots -> FileType]
    <3>1. fds[i] \in FileType /\ i \in Slots /\ k \in FileIdx
      BY <1>0, <2>1, <2>2 DEF i
    <3>2. [fds[i] EXCEPT !.block_numbers[k] = b] \in FileType
      BY <2>3, <3>1, FileUpdates
    <3>3. fds' = [fds EXCEPT ![i] = [fds[i] EXCEPT !.block_numbers[k] = b]]
      BY <2>4
    <3> QED BY <1>0, <3>1, <3>2, <3>3
  <2>7. disk_bitmap' \in [Blocks -> {0, 1}]
    BY <1>0, <2>3, <2>4
  <2> QED BY <2>1, <2>4, <2>5, <2>6, <2>7 DEF TypeInv, TypeOK, IsOpen
<1>10. ASSUME WriteEnd PROVE TypeInv'
  <2> DEFINE h == job.index
             i == open_files[h].fd_index
  <2>1. pc = "write" /\ IsOpen(h) /\ h \in Slots /\ i \in Slots
    BY <1>0, <1>10 DEF WriteEnd, TypeInv, TypeOK, IsOpen, HandleType, JobType
  <2>2. job.bytes_written \in Nat
    BY <1>0 DEF JobType
  <2> HIDE DEF h, i
  <2>3. /\ fds' = [fds EXCEPT ![i].length = @ + job.bytes_written]
        /\ open_files' = [open_files EXCEPT ![h].rw_pointer = @ + job.bytes_written]
        /\ pc' = "command" /\ job' = NoJob
        /\ UNCHANGED <<disk_bitmap, ldisk>>
    BY <1>10 DEF WriteEnd, h, i
  <2>4. fds' \in [Slots -> FileType]
    <3>1. fds[i] \in FileType /\ i \in Slots
      BY <1>0, <2>1 DEF i, h
    <3>2. [fds[i] EXCEPT !.length = fds[i].length + job.bytes_written] \in FileType
      BY <2>2, <3>1, FileUpdates
    <3>3. fds' = [fds EXCEPT ![i] = [fds[i] EXCEPT !.length = fds[i].length + job.bytes_written]]
      BY <2>3
    <3> QED BY <1>0, <3>1, <3>2, <3>3
  <2>5. open_files' \in [Slots -> HandleType]
    BY <1>0, <2>1, <2>2, <2>3 DEF HandleType
  <2>6. \A g \in Slots : IsOpen(g)' => open_files'[g].rw_pointer >= 0
    BY <1>0, <2>2, <2>3 DEF TypeInv, TypeOK, IsOpen, HandleType
  <2>7. CopiedFitsBlocks'
    BY <2>3 DEF CopiedFitsBlocks, NoJob
  <2> QED BY <2>3, <2>4, <2>5, <2>6, <2>7, EntryTypes DEF TypeInv, TypeOK
<1>11. CASE UNCHANGED vars
  BY <1>11 DEF vars, TypeInv, TypeOK, CopiedFitsBlocks, IsOpen
<1> QED
  BY <1>1, <1>2, <1>3, <1>4, <1>5, <1>6, <1>7, <1>8, <1>9, <1>10, <1>11
  DEF Next, Command, WriteStep

\* Every variable of the file system has its type, in every reachable state and
\* for every value of the constants.
THEOREM TypeCorrect == Spec => []TypeOK
<1>1. TypeInv => TypeOK
  BY DEF TypeInv
<1> QED BY <1>1, TypeInvInit, TypeInvStep, PTL DEF Spec

-----------------------------------------------------------------------------
(* Who owns a block.  A step leaves the owners and the marks alone, or it  *)
(* gives back all the blocks of one file, or one file takes one block.     *)

KeepsOwners ==
  /\ UNCHANGED disk_bitmap
  /\ \A i \in Slots, k \in FileIdx, b \in Blocks : Owns(i, k, b)' <=> Owns(i, k, b)

GivesBack(i) ==
  /\ \A b \in Blocks :
       disk_bitmap'[b] = IF \E k \in FileIdx : Owns(i, k, b) THEN 0 ELSE disk_bitmap[b]
  /\ \A j \in Slots, k \in FileIdx, b \in Blocks : Owns(j, k, b)' <=> j # i /\ Owns(j, k, b)

Takes(i, k, b) ==
  /\ disk_bitmap[b] = 0
  /\ disk_bitmap' = [disk_bitmap EXCEPT ![b] = 1]
  /\ \A c \in Blocks : ~ Owns(i, k, c)
  /\ \A j \in Slots, l \in FileIdx, c \in Blocks :
       Owns(j, l, c)' <=> IF c = b THEN j = i /\ l = k ELSE Owns(j, l, c)

\* What no step and no restart breaks: what a file owns is marked, and owned by
\* no other file.  The two hold only together: destroy() clears the marks of one
\* file's blocks, which leaves the marks of the others right because no block is
\* shared; a new block is not shared because it was not marked.  And allocation
\* must go to a descriptor that holds a file, which handles that outlived their
\* files do not guarantee, but the zeros in a free descriptor do.
OwnershipInv ==
  /\ TypeInv
  /\ OwnedBlocksMarked
  /\ BlocksOwnedOnce
  /\ FreeDescriptorsTakeNoBlocks

\* A marked block is owned: what a crash between two saves can break.
MarkedBlocksOwned ==
  \A b \in Blocks : disk_bitmap[b] = 1 => \E i \in Slots, k \in FileIdx : Owns(i, k, b)

\* The files that main() sets up own no block, whatever the bitmap is.
LEMMA InitialFilesOwnNothing ==
  ASSUME fds = InitialFds
  PROVE  /\ \A i \in Slots, k \in FileIdx, b \in Blocks : ~ Owns(i, k, b)
         /\ FreeDescriptorsTakeNoBlocks
<1>1. ASSUME NEW i \in Slots, NEW k \in FileIdx, NEW b \in Blocks PROVE ~ Owns(i, k, b)
  BY ConstantFacts DEF InitialFds, FreshFile, ZeroFile, Owns
<1>2. FreeDescriptorsTakeNoBlocks
  BY NamesAssumption, ConstantFacts
  DEF InitialFds, FreshFile, ZeroFile, FreeDescriptorsTakeNoBlocks
<1> QED BY <1>1, <1>2

LEMMA OwnershipInit == Init => OwnershipInv /\ MarkedBlocksOwned
<1> SUFFICES ASSUME Init PROVE OwnershipInv /\ MarkedBlocksOwned
  OBVIOUS
<1>1. TypeInv /\ fds = InitialFds
  BY TypeInvInit DEF Init
<1>2. \A b \in Blocks : disk_bitmap[b] = 0
  BY DEF Init, InitialBitmap
<1> QED
  BY <1>1, <1>2, InitialFilesOwnNothing
  DEF OwnershipInv, OwnedBlocksMarked, BlocksOwnedOnce, MarkedBlocksOwned

\* What create() and destroy() do to the entries of fds: names and block numbers
\* change in the replaced entry only.
LEMMA ReplacedEntry ==
  ASSUME fds \in [Slots -> FileType], NEW i \in Slots, NEW f \in FileType, NEW d \in Int,
         fds' = CountFile([fds EXCEPT ![i] = f], d)
  PROVE  \A j \in Slots :
           /\ fds'[j].filename = IF j = i THEN f.filename ELSE fds[j].filename
           /\ fds'[j].block_numbers = IF j = i THEN f.block_numbers ELSE fds[j].block_numbers
<1> DEFINE mid == [fds EXCEPT ![i] = f]
<1>1. mid \in [Slots -> FileType] /\ 0 \in Slots
  BY ConstantFacts
<1>2. \A j \in Slots : mid[j] = IF j = i THEN f ELSE fds[j]
  OBVIOUS
<1> HIDE DEF mid
<1>3. fds' = [mid EXCEPT ![0] = [mid[0] EXCEPT !.length = mid[0].length + d]]
  BY <1>1 DEF CountFile, mid
<1>4. mid[0] \in FileType
  BY <1>1
<1>5. ASSUME NEW j \in Slots
      PROVE  /\ fds'[j].filename = mid[j].filename
             /\ fds'[j].block_numbers = mid[j].block_numbers
  <2> DEFINE g == [mid[0] EXCEPT !.length = mid[0].length + d]
  <2>1. g.filename = mid[0].filename /\ g.block_numbers = mid[0].block_numbers
    BY <1>4 DEF FileType
  <2> HIDE DEF g
  <2>2. fds' = [mid EXCEPT ![0] = g]
    BY <1>3 DEF g
  <2>3. fds'[j] = IF j = 0 THEN g ELSE mid[j]
    BY <1>1, <2>2
  <2> QED BY <2>1, <2>3
<1> QED BY <1>2, <1>5

LEMMA CreateOwners ==
  ASSUME OwnershipInv, NEW name \in Names, Create(name)
  PROVE  KeepsOwners /\ FreeDescriptorsTakeNoBlocks'
<1> DEFINE i == Least(Named(EMPTY))
<1>1. i \in Slots /\ fds[i].filename = EMPTY
  BY NamedFile DEF Create
<1>2. fds \in [Slots -> FileType] /\ FreshFile(name) \in FileType /\ name # EMPTY
  BY EntryTypes, NamesAssumption DEF OwnershipInv, TypeInv, TypeOK, AllNames
<1>3. fds' = CountFile([fds EXCEPT ![i] = FreshFile(name)], 1) /\ UNCHANGED disk_bitmap
  BY DEF Create
<1> HIDE DEF i
<1>4. \A j \in Slots :
        /\ fds'[j].filename = IF j = i THEN name ELSE fds[j].filename
        /\ fds'[j].block_numbers = IF j = i THEN [k \in FileIdx |-> NIL] ELSE fds[j].block_numbers
  <2>1. FreshFile(name).filename = name
        /\ FreshFile(name).block_numbers = [k \in FileIdx |-> NIL]
    BY DEF FreshFile
  <2>2. \A j \in Slots :
           /\ fds'[j].filename = IF j = i THEN FreshFile(name).filename ELSE fds[j].filename
           /\ fds'[j].block_numbers =
                IF j = i THEN FreshFile(name).block_numbers ELSE fds[j].block_numbers
    BY <1>1, <1>2, <1>3, 1 \in Int, ReplacedEntry
  <2> QED BY <2>1, <2>2
<1>5. ASSUME NEW j \in Slots, NEW k \in FileIdx, NEW b \in Blocks
      PROVE  Owns(j, k, b)' <=> Owns(j, k, b)
  <2>1. CASE j = i
    BY <1>1, <1>4, <2>1, ConstantFacts DEF Owns
  <2>2. CASE j # i
    BY <1>4, <2>2 DEF Owns
  <2> QED BY <2>1, <2>2
<1>6. FreeDescriptorsTakeNoBlocks'
  BY <1>2, <1>4 DEF OwnershipInv, FreeDescriptorsTakeNoBlocks
<1> QED BY <1>3, <1>5, <1>6 DEF KeepsOwners

LEMMA DestroyOwners ==
  ASSUME OwnershipInv, NEW name \in Names, Destroy(name)
  PROVE  (\E i \in Slots : GivesBack(i)) /\ FreeDescriptorsTakeNoBlocks'
<1> DEFINE i == Least(Named(name))
<1>1. i \in Slots /\ fds[i].filename = name /\ name # EMPTY
  BY NamedFile, NamesAssumption DEF Destroy
<1>2. fds \in [Slots -> FileType] /\ ZeroFile \in FileType
  BY EntryTypes DEF OwnershipInv, TypeInv, TypeOK
<1>3. /\ fds' = CountFile([fds EXCEPT ![i] = ZeroFile], -1)
      /\ disk_bitmap' = [b \in Blocks |-> IF \E k \in FileIdx : fds[i].block_numbers[k] = b
                                         THEN 0 ELSE disk_bitmap[b]]
  BY DEF Destroy
<1> HIDE DEF i
<1>4. \A j \in Slots :
        /\ fds'[j].filename = IF j = i THEN EMPTY ELSE fds[j].filename
        /\ fds'[j].block_numbers = IF j = i THEN [k \in FileIdx |-> 0] ELSE fds[j].block_numbers
  <2>1. ZeroFile.filename = EMPTY /\ ZeroFile.block_numbers = [k \in FileIdx |-> 0]
    BY DEF ZeroFile
  <2>2. \A j \in Slots :
           /\ fds'[j].filename = IF j = i THEN ZeroFile.filename ELSE fds[j].filename
           /\ fds'[j].block_numbers = IF j = i THEN ZeroFile.block_numbers ELSE fds[j].block_numbers
    BY <1>1, <1>2, <1>3, -1 \in Int, ReplacedEntry
  <2> QED BY <2>1, <2>2
<1>5. \A j \in Slots, k \in FileIdx, b \in Blocks : Owns(j, k, b)' <=> j # i /\ Owns(j, k, b)
  BY <1>4 DEF Owns
<1>6. \A b \in Blocks : (\E k \in FileIdx : fds[i].block_numbers[k] = b)
                         <=> \E k \in FileIdx : Owns(i, k, b)
  BY <1>1 DEF Owns
<1>7. GivesBack(i)
  BY <1>3, <1>5, <1>6 DEF GivesBack
<1>8. FreeDescriptorsTakeNoBlocks'
  BY <1>4, ConstantFacts DEF OwnershipInv, FreeDescriptorsTakeNoBlocks
<1> QED BY <1>1, <1>7, <1>8

LEMMA NewBlockOwners ==
  ASSUME OwnershipInv, WriteNewBlock
  PROVE  /\ \E i \in Slots, k \in FileIdx, b \in Blocks : Takes(i, k, b)
         /\ FreeDescriptorsTakeNoBlocks'
<1> DEFINE i == open_files[job.index].fd_index
           k == job.block_index
           b == Least(FreeBlocks)
<1>1. b \in Blocks /\ disk_bitmap[b] = 0
  BY FreeBlock DEF WriteNewBlock
<1>2. i \in Slots /\ k \in FileIdx
  <2>1. job \in JobType /\ open_files \in [Slots -> HandleType] /\ IsOpen(job.index)
    BY DEF OwnershipInv, TypeInv, TypeOK, WriteNewBlock, InLoop
  <2>2. k < FILE_BLOCKS
    BY DEF WriteNewBlock, InLoop
  <2>3. job.index \in Slots /\ k \in Nat
    BY <2>1 DEF JobType
  <2>4. i \in Slots
    BY <2>1, <2>3 DEF IsOpen, HandleType
  <2> QED BY <2>2, <2>3, <2>4, ConstantFacts DEF FileIdx
<1>3. fds \in [Slots -> FileType] /\ disk_bitmap \in [Blocks -> {0, 1}]
  BY DEF OwnershipInv, TypeInv, TypeOK
<1>4. fds[i].block_numbers[k] = NIL
  BY DEF WriteNewBlock, TargetBlock, FileOf
<1>5. fds[i].filename # EMPTY
  BY <1>2, <1>4 DEF OwnershipInv, FreeDescriptorsTakeNoBlocks
<1>6. /\ fds' = [fds EXCEPT ![i].block_numbers[k] = b]
      /\ disk_bitmap' = [disk_bitmap EXCEPT ![b] = 1]
  BY DEF WriteNewBlock
<1> HIDE DEF i, k, b
<1>7. ASSUME NEW j \in Slots, NEW l \in FileIdx
      PROVE  /\ fds'[j].filename = fds[j].filename
             /\ fds'[j].block_numbers[l] =
                  IF j = i /\ l = k THEN b ELSE fds[j].block_numbers[l]
  <2>1. fds[j] \in FileType /\ fds[j].block_numbers \in [FileIdx -> Blocks \union {NIL}]
    BY <1>3 DEF FileType
  <2>2. CASE j # i
    BY <1>2, <1>3, <1>6, <2>2
  <2>3. CASE j = i
    <3>1. fds'[i] = [fds[i] EXCEPT !.block_numbers[k] = b]
      BY <1>2, <1>3, <1>6
    <3> QED BY <1>2, <2>1, <2>3, <3>1 DEF FileType
  <2> QED BY <2>2, <2>3
<1>8. \A j \in Slots, l \in FileIdx : ~ Owns(j, l, b)
  BY <1>1 DEF OwnershipInv, OwnedBlocksMarked
<1>9. ASSUME NEW j \in Slots, NEW l \in FileIdx, NEW c \in Blocks
      PROVE  Owns(j, l, c)' <=> IF c = b THEN j = i /\ l = k ELSE Owns(j, l, c)
  <2>1. Owns(j, l, c)' <=>
          fds[j].filename # EMPTY
            /\ (IF j = i /\ l = k THEN b ELSE fds[j].block_numbers[l]) = c
    BY <1>7 DEF Owns
  <2>2. CASE j = i /\ l = k
    BY <1>4, <1>5, <2>1, <2>2, ConstantFacts DEF Owns
  <2>3. CASE ~ (j = i /\ l = k)
    BY <1>8, <2>1, <2>3 DEF Owns
  <2> QED BY <2>2, <2>3
<1>10. Takes(i, k, b)
  BY <1>1, <1>4, <1>6, <1>9, ConstantFacts DEF Takes, Owns
<1>11. FreeDescriptorsTakeNoBlocks'
  BY <1>1, <1>7, ConstantFacts DEF OwnershipInv, FreeDescriptorsTakeNoBlocks
<1> QED BY <1>1, <1>2, <1>10, <1>11

LEMMA WriteEndOwners ==
  ASSUME OwnershipInv, WriteEnd
  PROVE  KeepsOwners /\ FreeDescriptorsTakeNoBlocks'
<1> DEFINE i == open_files[job.index].fd_index
<1>1. fds \in [Slots -> FileType] /\ UNCHANGED disk_bitmap
      /\ fds' = [fds EXCEPT ![i].length = @ + job.bytes_written]
  BY DEF OwnershipInv, TypeInv, TypeOK, WriteEnd
<1> HIDE DEF i
<1>2. ASSUME NEW j \in Slots
      PROVE  /\ fds'[j].filename = fds[j].filename
             /\ fds'[j].block_numbers = fds[j].block_numbers
  <2>1. fds[j] \in FileType
    BY <1>1
  <2>2. fds'[j] = IF j = i THEN [fds[j] EXCEPT !.length = @ + job.bytes_written] ELSE fds[j]
    BY <1>1
  <2> QED BY <2>1, <2>2 DEF FileType
<1>3. \A j \in Slots, k \in FileIdx, b \in Blocks : Owns(j, k, b)' <=> Owns(j, k, b)
  BY <1>2 DEF Owns
<1>4. FreeDescriptorsTakeNoBlocks'
  BY <1>2 DEF OwnershipInv, FreeDescriptorsTakeNoBlocks
<1> QED BY <1>1, <1>3, <1>4 DEF KeepsOwners

\* The owners of a block and the marks depend on fds and disk_bitmap only.
LEMMA OwnersUnchanged ==
  ASSUME OwnershipInv, UNCHANGED <<fds, disk_bitmap>>
  PROVE  KeepsOwners /\ FreeDescriptorsTakeNoBlocks'
BY DEF OwnershipInv, KeepsOwners, FreeDescriptorsTakeNoBlocks, Owns

LEMMA OwnersStep ==
  ASSUME OwnershipInv, [Next]_vars
  PROVE  /\ \/ KeepsOwners
            \/ \E i \in Slots : GivesBack(i)
            \/ \E i \in Slots, k \in FileIdx, b \in Blocks : Takes(i, k, b)
         /\ FreeDescriptorsTakeNoBlocks'
<1>1. CASE UNCHANGED <<fds, disk_bitmap>>
  BY <1>1, OwnersUnchanged
<1>2. CASE \E name \in Names : Create(name)
  BY <1>2, CreateOwners
<1>3. CASE \E name \in Names : Destroy(name)
  BY <1>3, DestroyOwners
<1>4. CASE WriteNewBlock
  BY <1>4, NewBlockOwners
<1>5. CASE WriteEnd
  BY <1>5, WriteEndOwners
<1>6. ASSUME NEW name \in Names, Open(name) PROVE UNCHANGED <<fds, disk_bitmap>>
  BY <1>6 DEF Open
<1>7. ASSUME NEW h \in Slots, Close(h) PROVE UNCHANGED <<fds, disk_bitmap>>
  BY <1>7 DEF Close
<1>8. ASSUME NEW h \in Slots, NEW count \in Counts, Read(h, count) \/ WriteBegin(h, count)
      PROVE  UNCHANGED <<fds, disk_bitmap>>
  BY <1>8 DEF Read, WriteBegin
<1>9. ASSUME NEW h \in Slots, NEW pos \in Positions, Lseek(h, pos)
      PROVE  UNCHANGED <<fds, disk_bitmap>>
  BY <1>9 DEF Lseek
<1>10. WriteInPlace \/ UNCHANGED vars => UNCHANGED <<fds, disk_bitmap>>
  BY DEF WriteInPlace, vars
<1> QED
  BY <1>1, <1>2, <1>3, <1>4, <1>5, <1>6, <1>7, <1>8, <1>9, <1>10 DEF Next, Command, WriteStep

LEMMA OwnershipStep ==
  OwnershipInv /\ [Next]_vars =>
    OwnershipInv' /\ (MarkedBlocksOwned => MarkedBlocksOwned')
<1> SUFFICES ASSUME OwnershipInv, [Next]_vars
             PROVE  OwnershipInv' /\ (MarkedBlocksOwned => MarkedBlocksOwned')
  OBVIOUS
<1>1. TypeInv' /\ FreeDescriptorsTakeNoBlocks' /\ disk_bitmap \in [Blocks -> {0, 1}]
  BY TypeInvStep, OwnersStep DEF OwnershipInv, TypeInv, TypeOK
<1>2. CASE KeepsOwners
  <2>1. OwnedBlocksMarked' /\ BlocksOwnedOnce'
    BY <1>2 DEF KeepsOwners, OwnershipInv, OwnedBlocksMarked, BlocksOwnedOnce
  <2>2. MarkedBlocksOwned => MarkedBlocksOwned'
    BY <1>2 DEF KeepsOwners, MarkedBlocksOwned
  <2> QED BY <1>1, <2>1, <2>2 DEF OwnershipInv
<1>3. ASSUME NEW i \in Slots, GivesBack(i)
      PROVE  OwnershipInv' /\ (MarkedBlocksOwned => MarkedBlocksOwned')
  <2>1. BlocksOwnedOnce'
    BY <1>3 DEF GivesBack, OwnershipInv, BlocksOwnedOnce
  <2>2. ASSUME NEW b \in Blocks, NEW j \in Slots, NEW k \in FileIdx, Owns(j, k, b)'
        PROVE  disk_bitmap'[b] = 1
    <3>1. Owns(j, k, b) /\ j # i
      BY <1>3, <2>2 DEF GivesBack
    <3>2. ~ \E m \in FileIdx : Owns(i, m, b)
      BY <3>1 DEF OwnershipInv, BlocksOwnedOnce
    <3>3. disk_bitmap'[b] = disk_bitmap[b]
      BY <1>3, <3>2 DEF GivesBack
    <3> QED BY <3>1, <3>3 DEF OwnershipInv, OwnedBlocksMarked
  <2>3. OwnedBlocksMarked'
    BY <2>2 DEF OwnedBlocksMarked
  <2>4. ASSUME MarkedBlocksOwned, NEW b \in Blocks, disk_bitmap'[b] = 1
        PROVE  \E j \in Slots, k \in FileIdx : Owns(j, k, b)'
    <3>1. /\ ~ \E k \in FileIdx : Owns(i, k, b)
          /\ disk_bitmap[b] = 1
      BY <1>3, <2>4 DEF GivesBack
    <3>2. PICK j \in Slots, k \in FileIdx : Owns(j, k, b)
      BY <2>4, <3>1 DEF MarkedBlocksOwned
    <3> QED BY <1>3, <3>1, <3>2 DEF GivesBack
  <2>5. MarkedBlocksOwned => MarkedBlocksOwned'
    BY <2>4 DEF MarkedBlocksOwned
  <2> QED BY <1>1, <2>1, <2>3, <2>5 DEF OwnershipInv
<1>4. ASSUME NEW i \in Slots, NEW k \in FileIdx, NEW b \in Blocks, Takes(i, k, b)
      PROVE  OwnershipInv' /\ (MarkedBlocksOwned => MarkedBlocksOwned')
  <2>1. \A c \in Blocks : disk_bitmap'[c] = IF c = b THEN 1 ELSE disk_bitmap[c]
    BY <1>1, <1>4 DEF Takes
  <2>2. BlocksOwnedOnce'
    BY <1>4 DEF Takes, OwnershipInv, BlocksOwnedOnce
  <2>3. OwnedBlocksMarked'
    BY <1>4, <2>1 DEF Takes, OwnershipInv, OwnedBlocksMarked
  <2>4. MarkedBlocksOwned => MarkedBlocksOwned'
    BY <1>4, <2>1 DEF Takes, MarkedBlocksOwned
  <2> QED BY <1>1, <2>2, <2>3, <2>4 DEF OwnershipInv
<1> QED BY <1>2, <1>3, <1>4, OwnersStep

\* The bitmap marks the blocks that files own and no others, whatever is created,
\* written and destroyed, and through whatever handles.
THEOREM BitmapIsExact == Spec => []BitmapExact
<1>1. OwnershipInv /\ MarkedBlocksOwned => BitmapExact
  BY DEF OwnershipInv, OwnedBlocksMarked, MarkedBlocksOwned, BitmapExact
<1> QED BY <1>1, OwnershipInit, OwnershipStep, PTL DEF Spec

\* No block is given to two files, or twice to one.
THEOREM BlocksHaveOneOwner == Spec => []BlocksOwnedOnce
<1>1. OwnershipInv => BlocksOwnedOnce
  BY DEF OwnershipInv
<1> QED BY <1>1, OwnershipInit, OwnershipStep, PTL DEF Spec

\* A handle on a free descriptor never makes write() allocate a block.
THEOREM FreeDescriptorsStayFull == Spec => []FreeDescriptorsTakeNoBlocks
<1>1. OwnershipInv => FreeDescriptorsTakeNoBlocks
  BY DEF OwnershipInv
<1> QED BY <1>1, OwnershipInit, OwnershipStep, PTL DEF Spec

-----------------------------------------------------------------------------
(* What write() copies, and where to.                                      *)

\* The source of a copy lies inside mem_area, also when the directory's negative
\* length lets bytes_to_write exceed what a file holds: the blocks run out first.
THEOREM CopiesStayInMemArea == Spec => []CopyWithinMemArea
<1>1. TypeInv => CopyWithinMemArea
  <2> SUFFICES ASSUME TypeInv, InLoop, NEW offset \in Offsets
               PROVE  job.bytes_written
                        + Smaller(job.bytes_to_write - job.bytes_written, BLOCK_SIZE - offset)
                          <= Capacity
    <3>1. TypeInv => job.offset \in Offsets /\ 0 \in Offsets
      BY ConstantFacts DEF TypeInv, TypeOK, JobType
    <3> QED BY <3>1 DEF CopyWithinMemArea
  <2>1. /\ job.bytes_written \in Nat
        /\ job.bytes_to_write \in Int
        /\ job.block_index \in Nat
        /\ job.block_index < FILE_BLOCKS
        /\ job.bytes_written <= job.block_index * BLOCK_SIZE
        /\ offset \in Nat
    BY ConstantFacts DEF TypeInv, TypeOK, JobType, InLoop, CopiedFitsBlocks
  <2>2. /\ job.block_index * BLOCK_SIZE \in Nat
        /\ job.block_index * BLOCK_SIZE + BLOCK_SIZE <= FILE_BLOCKS * BLOCK_SIZE
    BY <2>1, ConstantFacts, BlocksOrdered
  <2>3. Smaller(job.bytes_to_write - job.bytes_written, BLOCK_SIZE - offset) <= BLOCK_SIZE
    BY <2>1, ConstantFacts DEF Smaller
  <2>4. Smaller(job.bytes_to_write - job.bytes_written, BLOCK_SIZE - offset) \in Int
    BY <2>1, ConstantFacts DEF Smaller
  <2> QED BY <2>1, <2>2, <2>3, <2>4, ConstantFacts DEF Capacity
<1> QED BY <1>1, TypeInvInit, TypeInvStep, PTL DEF Spec

\* The blocks that a turn of write() changes belong, when its descriptor holds a
\* file, to no other file.
THEOREM WritesKeepOthersBlocks == Spec => WritesStayInFile
<1> DEFINE i == open_files[job.index].fd_index
           OthersKept ==
             \A b \in Blocks :
               ldisk'[b] # ldisk[b] /\ fds[i].filename # EMPTY =>
                 \A j \in Slots \ {i}, k \in FileIdx : ~ Owns(j, k, b)'
<1>1. ASSUME OwnershipInv, [Next]_vars PROVE OthersKept
  <2>1. OwnershipInv' /\ ldisk \in [Blocks -> [Offsets -> Bytes]]
    BY <1>1, OwnershipStep DEF OwnershipInv, TypeInv, TypeOK
  <2>2. \A c \in Blocks, o \in Offsets :
          CopyInto(c, o) => \A b \in Blocks : ldisk'[b] # ldisk[b] => b = c
    BY <2>1 DEF CopyInto
  <2>3. ASSUME WriteInPlace \/ WriteNewBlock
        PROVE  /\ job.index \in Slots /\ i \in Slots
               /\ job.block_index \in FileIdx
               /\ job.offset \in Offsets
    <3>1. job \in JobType /\ open_files \in [Slots -> HandleType] /\ IsOpen(job.index)
      BY <1>1, <2>3 DEF OwnershipInv, TypeInv, TypeOK, WriteInPlace, WriteNewBlock, InLoop
    <3>2. job.block_index < FILE_BLOCKS
      BY <2>3 DEF WriteInPlace, WriteNewBlock, InLoop
    <3>3. job.index \in Slots /\ job.block_index \in Nat /\ job.offset \in Offsets
      BY <3>1 DEF JobType
    <3>4. i \in Slots
      BY <3>1, <3>3 DEF IsOpen, HandleType
    <3> QED BY <3>2, <3>3, <3>4, ConstantFacts DEF FileIdx
  <2>4. CASE WriteInPlace
    <3>1. TargetBlock \in Blocks
      <4>1. fds[i].block_numbers \in [FileIdx -> Blocks \union {NIL}]
        BY <1>1, <2>3, <2>4 DEF OwnershipInv, TypeInv, TypeOK, FileType
      <4>2. TargetBlock = fds[i].block_numbers[job.block_index] /\ TargetBlock # NIL
        BY <2>4 DEF WriteInPlace, TargetBlock, FileOf
      <4> QED BY <2>3, <2>4, <4>1, <4>2
    <3>2. \A b \in Blocks : ldisk'[b] # ldisk[b] => b = TargetBlock
      BY <2>2, <2>3, <2>4, <3>1 DEF WriteInPlace
    <3>3. fds[i].filename # EMPTY => Owns(i, job.block_index, TargetBlock)
      BY DEF Owns, TargetBlock, FileOf
    <3>4. \A j \in Slots, k \in FileIdx, b \in Blocks : Owns(j, k, b)' <=> Owns(j, k, b)
      BY <2>4 DEF WriteInPlace, Owns
    <3> QED
      BY <1>1, <2>3, <2>4, <3>1, <3>2, <3>3, <3>4 DEF OwnershipInv, BlocksOwnedOnce
  <2>5. CASE WriteNewBlock
    <3> DEFINE b == Least(FreeBlocks)
               k == job.block_index
    <3>1. b \in Blocks
      BY <2>5, FreeBlock DEF WriteNewBlock
    <3>2. \A c \in Blocks : ldisk'[c] # ldisk[c] => c = b
      BY <2>2, <2>5, <3>1, ConstantFacts DEF WriteNewBlock
    <3>3. fds' = [fds EXCEPT ![i].block_numbers[k] = b] /\ fds[i].block_numbers[k] = NIL
      BY <2>5 DEF WriteNewBlock, TargetBlock, FileOf
    <3>4. fds[i] \in FileType /\ fds \in [Slots -> FileType]
      BY <1>1, <2>3, <2>5 DEF OwnershipInv, TypeInv, TypeOK
    <3>5. i \in Slots /\ k \in FileIdx
      BY <2>3, <2>5
    <3> HIDE DEF i, k, b
    <3>6. fds'[i].filename = fds[i].filename /\ fds'[i].block_numbers[k] = b
      <4>1. fds'[i] = [fds[i] EXCEPT !.block_numbers[k] = b]
        BY <3>3, <3>4, <3>5
      <4> QED BY <3>4, <3>5, <4>1 DEF FileType
    <3>7. \A c \in Blocks, m, j \in Slots, l, n \in FileIdx :
            /\ fds'[m].filename # EMPTY /\ fds'[m].block_numbers[l] = c
            /\ Owns(j, n, c)'
            => m = j
      BY <2>1 DEF OwnershipInv, BlocksOwnedOnce, Owns
    <3>8. ASSUME fds[i].filename # EMPTY, NEW j \in Slots \ {i}, NEW n \in FileIdx,
                 NEW c \in Blocks, c = b
          PROVE  ~ Owns(j, n, c)'
      BY <3>5, <3>6, <3>7, <3>8
    <3> QED BY <3>2, <3>8 DEF i
  <2>6. CASE UNCHANGED ldisk
    BY <2>6
  <2> QED
    BY <1>1, <2>4, <2>5, <2>6
    DEF Next, Command, WriteStep, vars, Create, Destroy, Open, Close, Read, Lseek,
        WriteBegin, WriteEnd
<1>2. ASSUME OwnershipInv, [Next]_vars PROVE [OthersKept]_vars
  BY <1>1, <1>2
<1> QED BY <1>2, OwnershipInit, OwnershipStep, PTL DEF Spec, WritesStayInFile

-----------------------------------------------------------------------------
(* Lengths.  What makes them right is set up when a write() begins, and    *)
(* must still be so when it ends: no other command runs in between.        *)

\* the descriptor that is written to
Written == open_files[job.index].fd_index

WriteFits ==
  pc = "write" /\ Written # 0 =>
    /\ fds[Written].length + job.bytes_to_write <= Capacity
    /\ job.bytes_written = 0 \/ job.bytes_written <= job.bytes_to_write

LengthInv == TypeInv /\ LengthWithinCapacity /\ WriteFits

\* A turn of the copy loop copies no more than is left to write.
LEMMA CopyCounts ==
  ASSUME LengthInv, InLoop, NEW b \in Blocks, NEW offset \in Offsets, CopyInto(b, offset)
  PROVE  /\ job'.index = job.index
         /\ job'.bytes_to_write = job.bytes_to_write
         /\ job'.bytes_written <= job'.bytes_to_write
<1> DEFINE n == Smaller(job.bytes_to_write - job.bytes_written, BLOCK_SIZE - offset)
<1>1. /\ job \in JobType
      /\ job.bytes_written \in Nat /\ job.bytes_to_write \in Int
      /\ offset \in Nat
  BY ConstantFacts DEF LengthInv, TypeInv, TypeOK, JobType
<1>2. n \in Int /\ n <= job.bytes_to_write - job.bytes_written
  BY <1>1, ConstantFacts DEF Smaller
<1>3. job' = [job EXCEPT !.bytes_written = @ + n, !.offset = 0, !.block_index = @ + 1]
  BY DEF CopyInto
<1> HIDE DEF n
<1>4. /\ job'.index = job.index
      /\ job'.bytes_to_write = job.bytes_to_write
      /\ job'.bytes_written = job.bytes_written + n
  BY <1>1, <1>3 DEF JobType
<1> QED BY <1>1, <1>2, <1>4

LEMMA LengthStep == LengthInv /\ [Next]_vars => LengthInv'
<1> SUFFICES ASSUME LengthInv, [Next]_vars PROVE (LengthWithinCapacity /\ WriteFits)'
  BY TypeInvStep DEF LengthInv
<1> USE ConstantFacts
<1>0. /\ TypeInv'
      /\ fds \in [Slots -> FileType] /\ \A i \in Slots : fds[i].length \in Int
      /\ \A i \in Slots \ {0} : fds[i].length \in 0 .. Capacity
  BY TypeInvStep DEF LengthInv, TypeInv, TypeOK, LengthWithinCapacity, FileType
<1>1. ASSUME NEW i \in Slots, NEW f \in FileType, f.length = 0, NEW d \in Int,
             fds' = CountFile([fds EXCEPT ![i] = f], d), pc' = "command"
      PROVE  (LengthWithinCapacity /\ WriteFits)'
  <2>1. \A j \in Slots \ {0} : fds'[j] = IF j = i THEN f ELSE fds[j]
    BY <1>0, <1>1 DEF CountFile
  <2>2. ASSUME NEW j \in Slots \ {0} PROVE fds'[j].length \in 0 .. Capacity
    <3>1. f.length \in 0 .. Capacity
      BY <1>1
    <3>2. CASE j = i
      BY <2>1, <3>1, <3>2
    <3>3. CASE j # i
      BY <1>0, <2>1, <3>3
    <3> QED BY <3>2, <3>3
  <2> QED BY <1>1, <2>2 DEF WriteFits, LengthWithinCapacity
<1>2. ASSUME NEW name \in Names, Create(name) PROVE (LengthWithinCapacity /\ WriteFits)'
  <2>1. FreshFile(name) \in FileType /\ FreshFile(name).length = 0
    BY EntryTypes DEF AllNames, FreshFile
  <2>2. Least(Named(EMPTY)) \in Slots
    BY <1>2, NamedFile DEF Create
  <2>3. fds' = CountFile([fds EXCEPT ![Least(Named(EMPTY))] = FreshFile(name)], 1) /\ pc' = "command"
    BY <1>2 DEF Create
  <2> QED BY <1>1, <2>1, <2>2, <2>3, 1 \in Int
<1>3. ASSUME NEW name \in Names, Destroy(name) PROVE (LengthWithinCapacity /\ WriteFits)'
  <2>1. ZeroFile \in FileType /\ ZeroFile.length = 0
    BY EntryTypes DEF ZeroFile
  <2>2. Least(Named(name)) \in Slots
    BY <1>3, NamedFile DEF Destroy
  <2>3. fds' = CountFile([fds EXCEPT ![Least(Named(name))] = ZeroFile], -1) /\ pc' = "command"
    BY <1>3 DEF Destroy
  <2> QED BY <1>1, <2>1, <2>2, <2>3, -1 \in Int
<1>4. ASSUME UNCHANGED fds, pc' = "command" PROVE (LengthWithinCapacity /\ WriteFits)'
  BY <1>0, <1>4 DEF LengthWithinCapacity, WriteFits
<1>5. ASSUME NEW h \in Slots, NEW count \in Counts, WriteBegin(h, count)
      PROVE  (LengthWithinCapacity /\ WriteFits)'
  <2>1. UNCHANGED <<fds, open_files>> /\ IsOpen(h)
    BY <1>5 DEF WriteBegin
  <2>2. /\ job'.index = h
        /\ job'.bytes_written = 0
        /\ job'.bytes_to_write = Smaller(count, Capacity - FileOf(h).length)
    BY <1>5 DEF WriteBegin
  <2>3. open_files[h].fd_index \in Slots
    BY <2>1 DEF LengthInv, TypeInv, TypeOK, HandleType, IsOpen
  <2>4. FileOf(h).length \in Int /\ count \in Nat
    BY <1>0, <2>3, SizesAssumption DEF FileOf
  <2>5. Smaller(count, Capacity - FileOf(h).length) + FileOf(h).length <= Capacity
    BY <2>4 DEF Smaller
  <2>6. Smaller(count, Capacity - FileOf(h).length) \in Int
    BY <2>4 DEF Smaller
  <2>7. WriteFits'
    BY <2>1, <2>2, <2>4, <2>5, <2>6 DEF WriteFits, Written, FileOf
  <2> QED BY <1>0, <2>1, <2>7 DEF LengthWithinCapacity
<1>6. ASSUME WriteInPlace PROVE (LengthWithinCapacity /\ WriteFits)'
  <2>1. UNCHANGED <<fds, open_files, pc>> /\ pc = "write"
    BY <1>6 DEF WriteInPlace, InLoop
  <2>2. /\ job'.index = job.index
        /\ job'.bytes_to_write = job.bytes_to_write
        /\ job'.bytes_written <= job'.bytes_to_write
    <3>1. TargetBlock \in Blocks /\ job.offset \in Offsets
      <4>1. job \in JobType /\ open_files[job.index].fd_index \in Slots
        BY <2>1 DEF LengthInv, TypeInv, TypeOK, HandleType, IsOpen, JobType
      <4>2. job.block_index \in FileIdx
        BY <1>6, <4>1 DEF WriteInPlace, InLoop, JobType, FileIdx
      <4>3. TargetBlock \in Blocks \union {NIL}
        <5>1. fds[open_files[job.index].fd_index] \in FileType
          BY <1>0, <4>1
        <5> QED BY <4>2, <5>1 DEF TargetBlock, FileOf, FileType
      <4> QED BY <1>6, <4>1, <4>3 DEF WriteInPlace, JobType
    <3> QED BY <1>6, <3>1, CopyCounts DEF WriteInPlace
  <2> QED BY <1>0, <2>1, <2>2 DEF LengthInv, LengthWithinCapacity, WriteFits, Written
<1>7. ASSUME WriteNewBlock PROVE (LengthWithinCapacity /\ WriteFits)'
  <2> DEFINE b == Least(FreeBlocks)
  <2>1. UNCHANGED <<open_files, pc>> /\ pc = "write" /\ b \in Blocks
    BY <1>7, FreeBlock DEF WriteNewBlock, InLoop
  <2>2. /\ job'.index = job.index
        /\ job'.bytes_to_write = job.bytes_to_write
        /\ job'.bytes_written <= job'.bytes_to_write
    BY <1>7, <2>1, CopyCounts DEF WriteNewBlock
  <2>3. fds' = [fds EXCEPT ![Written].block_numbers[job.block_index] = b]
    BY <1>7 DEF WriteNewBlock, Written
  <2>4. \A i \in Slots : fds'[i].length = fds[i].length
    <3> HIDE DEF b
    <3> QED BY <1>0, <2>3 DEF FileType
  <2>5. Written \in Slots
    BY <2>1 DEF LengthInv, TypeInv, TypeOK, HandleType, IsOpen, JobType, Written
  <2>6. LengthWithinCapacity'
    BY <1>0, <2>4 DEF LengthWithinCapacity
  <2>7. WriteFits'
    BY <2>1, <2>2, <2>4, <2>5 DEF LengthInv, WriteFits, Written
  <2> QED BY <2>6, <2>7
<1>8. ASSUME WriteEnd PROVE (LengthWithinCapacity /\ WriteFits)'
  <2>1. /\ pc = "write" /\ pc' = "command"
        /\ fds' = [fds EXCEPT ![Written].length = @ + job.bytes_written]
    BY <1>8 DEF WriteEnd, Written
  <2>2. /\ job.bytes_written \in Nat /\ job.bytes_to_write \in Int
        /\ Written \in Slots
    BY <2>1 DEF LengthInv, TypeInv, TypeOK, HandleType, IsOpen, JobType, Written
  <2>3. \A i \in Slots : fds'[i].length =
          IF i = Written THEN fds[i].length + job.bytes_written ELSE fds[i].length
    BY <1>0, <2>1 DEF FileType
  <2>4. Written # 0 => fds[Written].length + job.bytes_written \in 0 .. Capacity
    BY <1>0, <2>1, <2>2 DEF LengthInv, WriteFits
  <2>5. LengthWithinCapacity'
    BY <1>0, <2>3, <2>4 DEF LengthWithinCapacity
  <2> QED BY <2>1, <2>5 DEF WriteFits
<1>9. CASE UNCHANGED vars
  BY <1>0, <1>9 DEF vars, LengthInv, LengthWithinCapacity, WriteFits, Written
<1>10. ASSUME NEW name \in Names, Open(name) PROVE (LengthWithinCapacity /\ WriteFits)'
  BY <1>4, <1>10 DEF Open
<1>11. ASSUME NEW h \in Slots, Close(h) PROVE (LengthWithinCapacity /\ WriteFits)'
  BY <1>4, <1>11 DEF Close
<1>12. ASSUME NEW h \in Slots, NEW count \in Counts, Read(h, count)
       PROVE  (LengthWithinCapacity /\ WriteFits)'
  BY <1>4, <1>12 DEF Read
<1>13. ASSUME NEW h \in Slots, NEW pos \in Positions, Lseek(h, pos)
       PROVE  (LengthWithinCapacity /\ WriteFits)'
  BY <1>4, <1>13 DEF Lseek
<1> QED
  BY <1>2, <1>3, <1>5, <1>6, <1>7, <1>8, <1>9, <1>10, <1>11, <1>12, <1>13
  DEF Next, Command, WriteStep

\* The length of a file other than the directory never exceeds what its blocks
\* hold, in spite of a write() adding all its bytes to it wherever it writes them.
THEOREM LengthsStayWithinCapacity == Spec => []LengthWithinCapacity
<1>1. Init => LengthInv
  <2> SUFFICES ASSUME Init PROVE LengthWithinCapacity /\ WriteFits
    BY TypeInvInit DEF LengthInv
  <2>1. \A i \in Slots : fds[i].length = 0
    BY DEF Init, InitialFds, FreshFile, ZeroFile
  <2> QED BY <2>1, ConstantFacts DEF Init, LengthWithinCapacity, WriteFits
<1>2. LengthInv => LengthWithinCapacity
  BY DEF LengthInv
<1> QED BY <1>1, <1>2, LengthStep, PTL DEF Spec

-----------------------------------------------------------------------------
(* The blocks are a BlockPool: the owner of a block is the descriptor that *)
(* holds it, and each way in which owners change is a step of the pool.    *)

OwnerIsRight ==
  \A b \in Blocks :
    /\ \A i \in Slots, k \in FileIdx : Owns(i, k, b) => BlockOwner[b] = i
    /\ (\A i \in Slots, k \in FileIdx : ~ Owns(i, k, b)) => BlockOwner[b] = NIL

LEMMA OwnerRight == BlocksOwnedOnce => OwnerIsRight
<1> SUFFICES ASSUME BlocksOwnedOnce, NEW b \in Blocks
             PROVE  /\ \A i \in Slots, k \in FileIdx : Owns(i, k, b) => BlockOwner[b] = i
                    /\ (\A i \in Slots, k \in FileIdx : ~ Owns(i, k, b)) => BlockOwner[b] = NIL
  BY DEF OwnerIsRight
<1>1. ASSUME NEW i \in Slots, NEW k \in FileIdx, Owns(i, k, b) PROVE BlockOwner[b] = i
  <2>1. \A j \in Slots : (\E l \in FileIdx : Owns(j, l, b)) <=> j = i
    BY <1>1 DEF BlocksOwnedOnce
  <2>2. (CHOOSE j \in Slots : \E l \in FileIdx : Owns(j, l, b)) = i
    BY <2>1
  <2> QED BY <1>1, <2>2 DEF BlockOwner
<1>2. (\A i \in Slots, k \in FileIdx : ~ Owns(i, k, b)) => BlockOwner[b] = NIL
  BY DEF BlockOwner
<1> QED BY <1>1, <1>2

LEMMA OwnerRightNext == BlocksOwnedOnce' => OwnerIsRight'
BY OwnerRight, PTL

\* Who owns a block after a step, when that is known of every block.
LEMMA OwnerNext ==
  ASSUME NEW F, \A b \in Blocks : BlockOwner'[b] = F[b], F = [b \in Blocks |-> F[b]]
  PROVE  BlockOwner' = F
<1>1. BlockOwner' = [b \in Blocks |-> BlockOwner'[b]]
  BY DEF BlockOwner, Blocks
<1> HIDE DEF BlockOwner
<1> QED BY <1>1

\* A descriptor that misses its k-th block holds fewer blocks than a file can.
LEMMA HeldBelowLimit ==
  ASSUME OwnershipInv, NEW i \in Slots, NEW k \in FileIdx, \A c \in Blocks : ~ Owns(i, k, c)
  PROVE  Cardinality(Pool!Held(i)) < FILE_BLOCKS
<1> DEFINE H == Pool!Held(i)
           T == FileIdx \ {k}
           place == [b \in H |-> CHOOSE l \in FileIdx : Owns(i, l, b)]
<1>1. IsFiniteSet(H) /\ Cardinality(H) \in Nat
  <2>1. IsFiniteSet(0 .. MAX_BLOCKS - 1)
    BY ConstantFacts, FS_Interval
  <2>2. H \in SUBSET (0 .. MAX_BLOCKS - 1)
    BY DEF Pool!Held, Blocks
  <2> HIDE DEF H
  <2> QED BY <2>1, <2>2, FS_Subset, FS_CardinalityType
<1>2. IsFiniteSet(T) /\ Cardinality(T) = FILE_BLOCKS - 1
  <2>1. IsFiniteSet(0 .. FILE_BLOCKS - 1) /\ Cardinality(0 .. FILE_BLOCKS - 1) = FILE_BLOCKS
    <3>1. PICK n \in Nat : n = FILE_BLOCKS - 1
      BY ConstantFacts
    <3>2. IsFiniteSet(0 .. n) /\ Cardinality(0 .. n) = n + 1
      BY FS_Interval
    <3> QED BY <3>1, <3>2, ConstantFacts
  <2>2. FileIdx = 0 .. FILE_BLOCKS - 1
    BY DEF FileIdx
  <2> QED BY <2>1, <2>2, FS_RemoveElement
<1>3. ASSUME NEW b \in H PROVE b \in Blocks /\ place[b] \in T /\ Owns(i, place[b], b)
  <2>1. b \in Blocks /\ BlockOwner[b] = i
    BY DEF Pool!Held
  <2>2. OwnerIsRight /\ i # NIL
    BY OwnerRight, ConstantFacts DEF OwnershipInv
  <2>3. PICK j \in Slots, l \in FileIdx : Owns(j, l, b)
    BY <2>1, <2>2 DEF OwnerIsRight
  <2>4. j = i
    BY <2>1, <2>2, <2>3 DEF OwnerIsRight
  <2>5. place[b] \in FileIdx /\ Owns(i, place[b], b)
    BY <2>3, <2>4
  <2>6. place[b] # k
    BY <2>1, <2>5
  <2> QED BY <2>1, <2>5, <2>6
<1>4. place \in [H -> T]
  BY <1>3
<1>5. \A b, c \in H : place[b] = place[c] => b = c
  BY <1>3 DEF Owns
<1> HIDE DEF H, T, place
<1>6. ~ (Cardinality(T) < Cardinality(H))
  BY <1>1, <1>2, <1>4, <1>5, FS_PigeonHole
<1> QED BY <1>1, <1>2, <1>6, ConstantFacts DEF H

LEMMA PoolStep == OwnershipInv /\ [Next]_vars => [Pool!Next]_BlockOwner
<1> SUFFICES ASSUME OwnershipInv, [Next]_vars PROVE [Pool!Next]_BlockOwner
  OBVIOUS
<1>1. OwnerIsRight /\ OwnerIsRight'
  BY OwnershipStep, OwnerRight, OwnerRightNext DEF OwnershipInv
<1>2. BlockOwner = [b \in Blocks |-> BlockOwner[b]]
  BY DEF BlockOwner
<1>3. CASE KeepsOwners
  <2>1. \A b \in Blocks : BlockOwner'[b] = BlockOwner[b]
    BY <1>1, <1>3 DEF KeepsOwners, OwnerIsRight
  <2> QED BY <1>2, <2>1, OwnerNext
<1>4. ASSUME NEW i \in Slots, GivesBack(i) PROVE Pool!Next
  <2> DEFINE F == [b \in Blocks |-> IF BlockOwner[b] = i THEN NIL ELSE BlockOwner[b]]
  <2>1. ASSUME NEW b \in Blocks PROVE BlockOwner'[b] = F[b]
    <3>1. CASE \E j \in Slots, k \in FileIdx : Owns(j, k, b)
      <4>1. PICK j \in Slots, k \in FileIdx : Owns(j, k, b)
        BY <3>1
      <4>2. BlockOwner[b] = j
        BY <1>1, <4>1 DEF OwnerIsRight
      <4>3. CASE j = i
        <5>1. \A m \in Slots, l \in FileIdx : ~ Owns(m, l, b)'
          BY <1>1, <1>4, <4>2, <4>3 DEF GivesBack, OwnerIsRight
        <5> QED BY <1>1, <4>2, <4>3, <5>1 DEF OwnerIsRight
      <4>4. CASE j # i
        <5>1. Owns(j, k, b)'
          BY <1>4, <4>1, <4>4 DEF GivesBack
        <5> QED BY <1>1, <4>2, <4>4, <5>1 DEF OwnerIsRight
      <4> QED BY <4>3, <4>4
    <3>2. CASE \A j \in Slots, k \in FileIdx : ~ Owns(j, k, b)
      <4>1. \A j \in Slots, k \in FileIdx : ~ Owns(j, k, b)'
        BY <1>4, <3>2 DEF GivesBack
      <4>2. BlockOwner[b] = NIL /\ BlockOwner'[b] = NIL
        BY <1>1, <3>2, <4>1 DEF OwnerIsRight
      <4> QED BY <4>2
    <3> QED BY <3>1, <3>2
  <2>2. F = [b \in Blocks |-> F[b]]
    OBVIOUS
  <2> HIDE DEF F
  <2>3. BlockOwner' = F
    BY <2>1, <2>2, OwnerNext
  <2>4. Pool!Release(i)
    BY <2>3 DEF F, Pool!Release
  <2> QED BY <2>4 DEF Pool!Next
<1>5. ASSUME NEW i \in Slots, NEW k \in FileIdx, NEW b \in Blocks, Takes(i, k, b) PROVE Pool!Next
  <2>1. \A j \in Slots, l \in FileIdx : ~ Owns(j, l, b)
    BY <1>5 DEF Takes, OwnershipInv, OwnedBlocksMarked
  <2>2. BlockOwner[b] = NIL
    BY <1>1, <2>1 DEF OwnerIsRight
  <2>3. Cardinality(Pool!Held(i)) < FILE_BLOCKS
    BY <1>5, HeldBelowLimit DEF Takes
  <2> DEFINE F == [BlockOwner EXCEPT ![b] = i]
  <2>4. ASSUME NEW c \in Blocks PROVE BlockOwner'[c] = F[c]
    <3>1. CASE c = b
      <4>1. Owns(i, k, c)'
        BY <1>5, <3>1 DEF Takes
      <4>2. BlockOwner'[c] = i
        BY <1>1, <4>1 DEF OwnerIsRight
      <4> QED BY <1>2, <3>1, <4>2
    <3>2. CASE c # b
      <4>1. \A j \in Slots, l \in FileIdx : Owns(j, l, c)' <=> Owns(j, l, c)
        BY <1>5, <3>2 DEF Takes
      <4>2. BlockOwner'[c] = BlockOwner[c]
        BY <1>1, <4>1 DEF OwnerIsRight
      <4> QED BY <1>2, <3>2, <4>2
    <3> QED BY <3>1, <3>2
  <2>5. F = [c \in Blocks |-> F[c]]
    BY <1>2
  <2> HIDE DEF F
  <2>6. BlockOwner' = F
    BY <2>4, <2>5, OwnerNext
  <2>7. Pool!Allocate(i, b)
    <3>1. BlockOwner' = [BlockOwner EXCEPT ![b] = i]
      BY <2>6 DEF F
    <3>2. Pool!Cardinality(Pool!Held(i)) = Cardinality(Pool!Held(i))
      BY DEF Pool!Cardinality, Cardinality
    <3> QED BY <2>2, <2>3, <3>1, <3>2 DEF Pool!Allocate
  <2> QED BY <2>7 DEF Pool!Next
<1> QED BY <1>3, <1>4, <1>5, OwnersStep

\* The file system implements the pool of blocks: a turn of write() takes at most
\* one block, one that was free; destroy() gives back all the blocks of the file
\* it removes; no other step moves a block between files or loses one.
THEOREM BlocksArePool == Spec => ImplementsBlockPool
<1>1. Init => Pool!Init
  <2> SUFFICES ASSUME Init PROVE BlockOwner = [b \in Blocks |-> NIL]
    BY DEF Pool!Init
  <2>1. \A i \in Slots, k \in FileIdx, b \in Blocks : ~ Owns(i, k, b)
    BY InitialFilesOwnNothing DEF Init
  <2> QED BY <2>1 DEF BlockOwner
<1> QED BY <1>1, OwnershipInit, OwnershipStep, PoolStep, PTL DEF Spec, ImplementsBlockPool, Pool!Spec

-----------------------------------------------------------------------------
(* Exits, kills and restarts.  The files are saved in an order that makes  *)
(* whatever a kill leaves of them safe to restore: the descriptors are     *)
(* there only when the bitmap that marks their blocks is.                  *)

OwnedIn(table, i, k, b) == table[i].filename # EMPTY /\ table[i].block_numbers[k] = b

\* Descriptors and a bitmap that the program can start with.
Consistent(table, bitmap) ==
  /\ table \in [Slots -> FileType] /\ bitmap \in [Blocks -> {0, 1}]
  /\ \A i \in Slots, k \in FileIdx, b \in Blocks : OwnedIn(table, i, k, b) => bitmap[b] = 1
  /\ \A b \in Blocks, i, j \in Slots, k, l \in FileIdx :
       OwnedIn(table, i, k, b) /\ OwnedIn(table, j, l, b) => i = j /\ k = l
  /\ \A i \in Slots : table[i].filename = EMPTY =>
       \A k \in FileIdx : table[i].block_numbers[k] # NIL

MemoryInv ==
  /\ Consistent(fds, disk_bitmap)
  /\ ldisk \in [Blocks -> [Offsets -> Bytes]]
  /\ pc \in {"command", "write"} => TypeInv

FilesInv ==
  /\ \E n \in 0 .. MAX_BLOCKS : ldisk_bin \in [0 .. n - 1 -> [Offsets -> Bytes]]
  /\ bitmap_bin # NOTHING => bitmap_bin \in [Blocks -> {0, 1}]
  /\ fds_bin # NOTHING => Consistent(fds_bin, bitmap_bin)

\* What the save has written so far.
SaveInv ==
  /\ pc = "save_ldisk" =>
       \E n \in 0 .. MAX_BLOCKS : ldisk_bin = [b \in 0 .. n - 1 |-> ldisk[b]]
  /\ pc = "save_bitmap" => ldisk_bin = ldisk /\ bitmap_bin = NOTHING /\ fds_bin = NOTHING
  /\ pc = "save_fds" => ldisk_bin = ldisk /\ bitmap_bin = disk_bitmap /\ fds_bin = NOTHING
  /\ pc = "exited" => ldisk_bin = ldisk /\ bitmap_bin = disk_bitmap /\ fds_bin = fds

RunsInv == MemoryInv /\ FilesInv /\ SaveInv

LEMMA ConsistentMemory ==
  ASSUME TypeInv
  PROVE  Consistent(fds, disk_bitmap) <=> OwnershipInv
BY DEF Consistent, OwnedIn, OwnershipInv, TypeInv, TypeOK, OwnedBlocksMarked, BlocksOwnedOnce,
       FreeDescriptorsTakeNoBlocks, Owns

\* The files that main() sets up go with every bitmap.
LEMMA InitialFilesConsistent ==
  ASSUME NEW bitmap \in [Blocks -> {0, 1}]
  PROVE  Consistent(InitialFds, bitmap)
<1>1. InitialFds \in [Slots -> FileType]
  BY EntryTypes DEF InitialFds, AllNames
<1>2. ASSUME NEW i \in Slots, NEW k \in FileIdx, NEW b \in Blocks
      PROVE  ~ OwnedIn(InitialFds, i, k, b)
  BY ConstantFacts DEF InitialFds, FreshFile, ZeroFile, OwnedIn
<1>3. ASSUME NEW i \in Slots, InitialFds[i].filename = EMPTY, NEW k \in FileIdx
      PROVE  InitialFds[i].block_numbers[k] # NIL
  BY <1>3, NamesAssumption, ConstantFacts DEF InitialFds, FreshFile, ZeroFile
<1> QED BY <1>1, <1>2, <1>3 DEF Consistent

LEMMA InitialTypes ==
  /\ InitialBitmap \in [Blocks -> {0, 1}]
  /\ InitialLdisk \in [Blocks -> [Offsets -> Bytes]]
  /\ InitialOpenFiles \in [Slots -> HandleType]
  /\ \A h \in Slots : InitialOpenFiles[h].fd_index = NIL
BY EntryTypes DEF InitialBitmap, InitialLdisk, InitialOpenFiles, NotOpen, Bytes

LEMMA RunsInit == LInit => RunsInv
<1> SUFFICES ASSUME LInit PROVE RunsInv
  OBVIOUS
<1>1. /\ Init /\ pc = "command"
      /\ ldisk_bin = NoBlocks /\ bitmap_bin = NOTHING /\ fds_bin = NOTHING
  BY DEF LInit, PInit, Init
<1>2. MemoryInv
  BY <1>1, OwnershipInit, ConsistentMemory DEF OwnershipInv, TypeInv, TypeOK, MemoryInv
<1>3. ldisk_bin \in [0 .. 0 - 1 -> [Offsets -> Bytes]]
  BY <1>1 DEF NoBlocks
<1>4. FilesInv
  BY <1>1, <1>3, ConstantFacts DEF FilesInv
<1> QED BY <1>1, <1>2, <1>4 DEF RunsInv, SaveInv

\* The commands and the loop of write(): the saved files stay as they are.
LEMMA RunsCommand ==
  ASSUME RunsInv, Next, UNCHANGED files
  PROVE  RunsInv'
<1>1. pc \in {"command", "write"}
  BY DEF Next, Command, WriteStep, Create, Destroy, Open, Close, Read, Lseek, WriteBegin,
         WriteInPlace, WriteNewBlock, WriteEnd, InLoop
<1>2. OwnershipInv
  BY <1>1, ConsistentMemory DEF RunsInv, MemoryInv
<1>3. OwnershipInv'
  BY <1>2, OwnershipStep
<1>4. MemoryInv' /\ pc' \in {"command", "write"}
  <2>1. TypeInv' => (Consistent(fds, disk_bitmap)' <=> OwnershipInv')
    BY DEF Consistent, OwnedIn, OwnershipInv, TypeInv, TypeOK, OwnedBlocksMarked, BlocksOwnedOnce,
           FreeDescriptorsTakeNoBlocks, Owns
  <2> QED BY <1>3, <2>1 DEF OwnershipInv, TypeInv, TypeOK, MemoryInv
<1>5. FilesInv'
  BY DEF RunsInv, FilesInv, files, Consistent, OwnedIn
<1> QED BY <1>4, <1>5 DEF RunsInv, SaveInv

\* The save does not change the memory.
LEMMA RunsMemoryKept ==
  ASSUME MemoryInv, UNCHANGED <<fds, disk_bitmap, ldisk>>, pc' \notin {"command", "write"}
  PROVE  MemoryInv'
BY DEF MemoryInv, Consistent, OwnedIn

LEMMA RunsExit == RunsInv /\ Exit => RunsInv'
<1> SUFFICES ASSUME RunsInv, Exit PROVE RunsInv'
  OBVIOUS
<1>1. /\ pc' = "save_ldisk" /\ ldisk_bin' = NoBlocks
      /\ UNCHANGED <<fds, disk_bitmap, ldisk, bitmap_bin, fds_bin>>
  BY DEF Exit
<1>2. MemoryInv'
  BY <1>1, RunsMemoryKept DEF RunsInv
<1>3. 0 \in 0 .. MAX_BLOCKS /\ 0 .. 0 - 1 = {}
  BY ConstantFacts
<1>4. FilesInv'
  <2>1. ldisk_bin' \in [0 .. 0 - 1 -> [Offsets -> Bytes]]
    BY <1>1, <1>3 DEF NoBlocks
  <2> QED BY <1>1, <1>3, <2>1 DEF RunsInv, FilesInv, Consistent, OwnedIn
<1>5. ldisk_bin' = [b \in 0 .. 0 - 1 |-> ldisk'[b]]
  BY <1>1, <1>3 DEF NoBlocks
<1> QED BY <1>1, <1>2, <1>3, <1>4, <1>5 DEF RunsInv, SaveInv

\* How many blocks ldisk.bin holds while they are written.
LEMMA SavedSoFar ==
  ASSUME RunsInv, pc = "save_ldisk"
  PROVE  /\ SavedBlocks \in 0 .. MAX_BLOCKS
         /\ ldisk_bin = [b \in 0 .. SavedBlocks - 1 |-> ldisk[b]]
<1>1. PICK n \in 0 .. MAX_BLOCKS : ldisk_bin = [b \in 0 .. n - 1 |-> ldisk[b]]
  BY DEF RunsInv, SaveInv
<1>2. n \in Nat /\ DOMAIN ldisk_bin = 0 .. n - 1
  BY <1>1, ConstantFacts
<1>3. Cardinality(0 .. n - 1) = n
  BY <1>2, FS_Interval
<1> QED BY <1>1, <1>2, <1>3 DEF SavedBlocks

LEMMA RunsSaveBlock == RunsInv /\ SaveBlock => RunsInv'
<1> SUFFICES ASSUME RunsInv, SaveBlock PROVE RunsInv'
  OBVIOUS
<1>1. /\ pc = "save_ldisk" /\ SavedBlocks < MAX_BLOCKS
      /\ UNCHANGED <<pc, fds, disk_bitmap, ldisk, bitmap_bin, fds_bin>>
      /\ ldisk_bin' = [b \in 0 .. SavedBlocks |-> ldisk[b]]
  BY DEF SaveBlock, vars
<1>2. MemoryInv' /\ ldisk \in [Blocks -> [Offsets -> Bytes]]
  BY <1>1, RunsMemoryKept DEF RunsInv, MemoryInv
<1>3. PICK n \in 1 .. MAX_BLOCKS : n = SavedBlocks + 1
  BY <1>1, SavedSoFar, ConstantFacts
<1>4. n \in 0 .. MAX_BLOCKS /\ ldisk_bin' = [b \in 0 .. n - 1 |-> ldisk'[b]]
  <2>1. SavedBlocks = n - 1
    BY <1>1, <1>3, SavedSoFar, ConstantFacts
  <2> QED BY <1>1, <1>3, <2>1
<1>5. FilesInv'
  <2>1. 0 .. n - 1 \subseteq Blocks
    BY <1>3, ConstantFacts DEF Blocks
  <2>2. ldisk_bin' \in [0 .. n - 1 -> [Offsets -> Bytes]]
    BY <1>1, <1>2, <1>4, <2>1
  <2> QED BY <1>1, <1>4, <2>2 DEF RunsInv, FilesInv, Consistent, OwnedIn
<1> QED BY <1>1, <1>2, <1>4, <1>5 DEF RunsInv, SaveInv

LEMMA RunsOpenFile == RunsInv /\ OpenFileSystemFile => RunsInv'
<1> SUFFICES ASSUME RunsInv, OpenFileSystemFile PROVE RunsInv'
  OBVIOUS
<1>1. /\ pc = "save_ldisk" /\ SavedBlocks = MAX_BLOCKS /\ pc' = "save_bitmap"
      /\ bitmap_bin' = NOTHING /\ fds_bin' = NOTHING
      /\ UNCHANGED <<fds, disk_bitmap, ldisk, ldisk_bin>>
  BY DEF OpenFileSystemFile
<1>2. MemoryInv' /\ ldisk \in [Blocks -> [Offsets -> Bytes]]
  BY <1>1, RunsMemoryKept DEF RunsInv, MemoryInv
<1>3. ldisk_bin = ldisk
  BY <1>1, <1>2, SavedSoFar DEF Blocks
<1>4. FilesInv'
  BY <1>1 DEF RunsInv, FilesInv
<1> QED BY <1>1, <1>2, <1>3, <1>4 DEF RunsInv, SaveInv

LEMMA RunsSaveBitmap == RunsInv /\ SaveBitmap => RunsInv'
<1> SUFFICES ASSUME RunsInv, SaveBitmap PROVE RunsInv'
  OBVIOUS
<1>1. /\ pc = "save_bitmap" /\ pc' = "save_fds" /\ bitmap_bin' = disk_bitmap
      /\ UNCHANGED <<fds, disk_bitmap, ldisk, ldisk_bin, fds_bin>>
  BY DEF SaveBitmap
<1>2. MemoryInv' /\ disk_bitmap \in [Blocks -> {0, 1}]
  BY <1>1, RunsMemoryKept DEF RunsInv, MemoryInv, Consistent
<1>3. ldisk_bin = ldisk /\ fds_bin = NOTHING
  BY <1>1 DEF RunsInv, SaveInv
<1>4. FilesInv'
  BY <1>1, <1>2, <1>3 DEF RunsInv, FilesInv
<1> QED BY <1>1, <1>2, <1>3, <1>4 DEF RunsInv, SaveInv

LEMMA RunsSaveFds == RunsInv /\ SaveFds => RunsInv'
<1> SUFFICES ASSUME RunsInv, SaveFds PROVE RunsInv'
  OBVIOUS
<1>1. /\ pc = "save_fds" /\ pc' = "exited" /\ fds_bin' = fds
      /\ UNCHANGED <<fds, disk_bitmap, ldisk, ldisk_bin, bitmap_bin>>
  BY DEF SaveFds
<1>2. MemoryInv' /\ Consistent(fds, disk_bitmap)
  BY <1>1, RunsMemoryKept DEF RunsInv, MemoryInv
<1>3. ldisk_bin = ldisk /\ bitmap_bin = disk_bitmap
  BY <1>1 DEF RunsInv, SaveInv
<1>4. FilesInv'
  BY <1>1, <1>2, <1>3 DEF RunsInv, FilesInv, Consistent, OwnedIn
<1> QED BY <1>1, <1>2, <1>3, <1>4 DEF RunsInv, SaveInv

LEMMA RunsKill == RunsInv /\ Kill => RunsInv'
<1> SUFFICES ASSUME RunsInv, Kill PROVE RunsInv'
  OBVIOUS
<1>1. /\ pc' = "killed" /\ fds' = InitialFds /\ disk_bitmap' = InitialBitmap
      /\ ldisk' = InitialLdisk /\ UNCHANGED files
  BY DEF Kill
<1>2. Consistent(InitialFds, InitialBitmap)
  BY InitialTypes, InitialFilesConsistent
<1>3. MemoryInv'
  BY <1>1, <1>2, InitialTypes DEF MemoryInv, Consistent, OwnedIn
<1>4. FilesInv'
  BY <1>1 DEF RunsInv, FilesInv, files, Consistent, OwnedIn
<1> QED BY <1>1, <1>3, <1>4 DEF RunsInv, SaveInv

LEMMA RunsStart == RunsInv /\ Start => RunsInv'
<1> SUFFICES ASSUME RunsInv, Start PROVE RunsInv'
  OBVIOUS
<1>1. /\ fds' = RestoredFds /\ disk_bitmap' = RestoredBitmap /\ ldisk' = RestoredLdisk
      /\ open_files' = InitialOpenFiles /\ pc' = "command" /\ job' = NoJob
      /\ UNCHANGED files
  BY DEF Start
<1>2. RestoredBitmap \in [Blocks -> {0, 1}]
  BY InitialTypes DEF RunsInv, FilesInv, RestoredBitmap
<1>3. Consistent(RestoredFds, RestoredBitmap)
  <2>1. CASE fds_bin = NOTHING
    BY <1>2, <2>1, InitialFilesConsistent DEF RestoredFds
  <2>2. CASE fds_bin # NOTHING
    <3>1. Consistent(fds_bin, bitmap_bin) /\ bitmap_bin # NOTHING
      BY <2>2, NothingAssumption DEF RunsInv, FilesInv, Consistent
    <3> QED BY <2>2, <3>1 DEF RestoredFds, RestoredBitmap
  <2> QED BY <2>1, <2>2
<1>4. RestoredLdisk \in [Blocks -> [Offsets -> Bytes]]
  <2>1. PICK n \in 0 .. MAX_BLOCKS : ldisk_bin \in [0 .. n - 1 -> [Offsets -> Bytes]]
    BY DEF RunsInv, FilesInv
  <2> QED BY <2>1, InitialTypes DEF RestoredLdisk
<1>5. TypeInv'
  <2>1. fds' \in [Slots -> FileType] /\ disk_bitmap' \in [Blocks -> {0, 1}]
    BY <1>1, <1>3 DEF Consistent
  <2>2. \A h \in Slots : ~ IsOpen(h)'
    BY <1>1, InitialTypes DEF IsOpen
  <2>3. CopiedFitsBlocks'
    BY <1>1, ConstantFacts DEF NoJob, CopiedFitsBlocks
  <2> QED BY <1>1, <1>4, <2>1, <2>2, <2>3, InitialTypes, EntryTypes DEF TypeInv, TypeOK
<1>6. MemoryInv'
  BY <1>1, <1>3, <1>4, <1>5 DEF MemoryInv, Consistent, OwnedIn
<1>7. FilesInv'
  BY <1>1 DEF RunsInv, FilesInv, files, Consistent, OwnedIn
<1> QED BY <1>1, <1>6, <1>7 DEF RunsInv, SaveInv

LEMMA RunsUnchanged == RunsInv /\ UNCHANGED allvars => RunsInv'
<1> SUFFICES ASSUME RunsInv, UNCHANGED allvars PROVE RunsInv'
  OBVIOUS
<1>1. UNCHANGED <<fds, open_files, disk_bitmap, ldisk, pc, job, ldisk_bin, bitmap_bin, fds_bin>>
  BY DEF allvars, vars, files
<1>2. MemoryInv'
  <2>1. TypeInv => TypeInv'
    BY <1>1 DEF TypeInv, TypeOK, IsOpen, CopiedFitsBlocks
  <2>2. Consistent(fds, disk_bitmap)' <=> Consistent(fds, disk_bitmap)
    BY <1>1 DEF Consistent, OwnedIn
  <2> QED BY <1>1, <2>1, <2>2 DEF RunsInv, MemoryInv
<1>3. FilesInv'
  <2>1. Consistent(fds_bin, bitmap_bin)' <=> Consistent(fds_bin, bitmap_bin)
    BY <1>1 DEF Consistent, OwnedIn
  <2> QED BY <1>1, <2>1 DEF RunsInv, FilesInv
<1>4. SaveInv'
  BY <1>1 DEF RunsInv, SaveInv
<1> QED BY <1>2, <1>3, <1>4 DEF RunsInv

LEMMA ExecuteIsCommand ==
  ASSUME NEW cmd \in Lines, Execute(cmd)
  PROVE  (Next /\ UNCHANGED files) \/ UNCHANGED allvars \/ Exit
<1>1. Effect(cmd) => Command
  BY DEF Effect, Command, Lines
<1> QED BY <1>1 DEF Execute, Next

\* The steps of the program, whatever line it executes: also the one that the
\* buffer still holds at the end of the input.
LEMMA LoopStep ==
  ASSUME [LNext]_loopvars, line \in Lines \union {Unset}
  PROVE  /\ \/ Next /\ UNCHANGED files
            \/ UNCHANGED allvars
            \/ Exit \/ SaveStep \/ Kill \/ Start
         /\ line' \in Lines \union {Unset}
<1>1. Unset \in Lines
  BY DEF Unset, Lines
<1>2. CASE ReadLine
  BY <1>2, ExecuteIsCommand DEF ReadLine
<1>3. CASE MeetEof \/ TurnAfterEof
  BY <1>1, <1>3, ExecuteIsCommand DEF MeetEof, TurnAfterEof
<1>4. CASE Work
  BY <1>4 DEF Work, Next
<1>5. CASE (Kill /\ UNCHANGED <<line, eof>>) \/ Restart
  BY <1>5 DEF Restart
<1>6. CASE UNCHANGED loopvars
  BY <1>6 DEF loopvars
<1> QED BY <1>2, <1>3, <1>4, <1>5, <1>6 DEF LNext

LoopInv == RunsInv /\ line \in Lines \union {Unset}

LEMMA LoopInvInit == LInit => LoopInv
BY RunsInit DEF LInit, LoopInv

LEMMA LoopInvStep == LoopInv /\ [LNext]_loopvars => LoopInv'
<1> SUFFICES ASSUME LoopInv, [LNext]_loopvars PROVE LoopInv'
  OBVIOUS
<1>1. CASE Next /\ UNCHANGED files
  BY <1>1, LoopStep, RunsCommand DEF LoopInv
<1>2. CASE SaveStep
  BY <1>2, LoopStep, RunsSaveBlock, RunsOpenFile, RunsSaveBitmap, RunsSaveFds
  DEF LoopInv, SaveStep
<1>3. CASE UNCHANGED allvars \/ Exit \/ Kill \/ Start
  BY <1>3, LoopStep, RunsUnchanged, RunsExit, RunsKill, RunsStart DEF LoopInv
<1> QED BY <1>1, <1>2, <1>3, LoopStep DEF LoopInv

\* Over all runs of the program, with kills at any moment: what a file owns is
\* marked, so no block is given to a second file after a restart.
THEOREM RestartsKeepBlocksMarked == LSpec => []OwnedBlocksMarked
<1>1. LoopInv => OwnedBlocksMarked
  BY DEF LoopInv, RunsInv, MemoryInv, Consistent, OwnedIn, OwnedBlocksMarked, Owns
<1> QED BY LoopInvInit, LoopInvStep, <1>1, PTL DEF LSpec

\* A run that follows a completed exit starts with the files, the bitmap and the
\* disk that the run before it ended with.
THEOREM RestartsRestore == LSpec => RestartRestores
<1>1. ASSUME LoopInv, [LNext]_loopvars
      PROVE  pc = "exited" /\ pc' = "command" => UNCHANGED <<fds, disk_bitmap, ldisk>>
  <2> SUFFICES ASSUME pc = "exited", pc' = "command"
               PROVE  UNCHANGED <<fds, disk_bitmap, ldisk>>
    OBVIOUS
  <2>1. /\ ldisk_bin = ldisk /\ bitmap_bin = disk_bitmap /\ fds_bin = fds
        /\ Consistent(fds, disk_bitmap) /\ ldisk \in [Blocks -> [Offsets -> Bytes]]
    BY <1>1 DEF LoopInv, RunsInv, SaveInv, MemoryInv
  <2>2. Start
    BY <1>1, LoopStep
    DEF LoopInv, Next, Command, WriteStep, Create, Destroy, Open, Close, Read, Lseek, WriteBegin,
        WriteInPlace, WriteNewBlock, WriteEnd, InLoop, allvars, vars, Exit, SaveStep, SaveBlock,
        OpenFileSystemFile, SaveBitmap, SaveFds, Kill
  <2>3. RestoredFds = fds /\ RestoredBitmap = disk_bitmap
    BY <2>1, NothingAssumption DEF RestoredFds, RestoredBitmap, Consistent
  <2>4. RestoredLdisk = ldisk
    BY <2>1 DEF RestoredLdisk
  <2> QED BY <2>2, <2>3, <2>4 DEF Start
<1>2. ASSUME LoopInv, [LNext]_loopvars
      PROVE  [pc = "exited" /\ pc' = "command" => UNCHANGED <<fds, disk_bitmap, ldisk>>]_allvars
  BY <1>1, <1>2
<1> QED BY LoopInvInit, LoopInvStep, <1>2, PTL DEF LSpec, RestartRestores

=============================================================================
