# A verification project for the OperatingSystem_HW programs

The repository holds the programs of six operating systems labs, about 2 700
lines of hand-written C++. Each is a small model of an operating system's part
(a shell, a file system, a memory manager), or uses the real thing (processes,
threads, semaphores, pipes, sockets). This directory keeps TLA+ specifications
of them, TLC configurations, and proofs for TLAPS. Paths below are relative to
the repository, which is `src/` in `PROJECT.json`.

## The system's parts

No two labs call each other; the parts that interact are the ones inside a lab.

| part | state | operations | what is hard about it | what makes it right | here |
|---|---|---|---|---|---|
| `lab06/src/lab06.cpp`: file system, commands | descriptors `fds`, table `open_files`, `disk_bitmap`, `ldisk`, `mem_area` | create, destroy, open, close, read, write, lseek | handles that outlive their files, reused descriptors, a disk that fills up inside write(), positions and lengths that part | the bitmap is exact, a block has one owner, writes stay in their file, copies stay in `mem_area` | modelled, proved |
| the same: save and restore | `ldisk.bin`, `file_system.bin` | exit, start | a kill between two writes | an owned block is marked after a start, an exit is restored | modelled, proved |
| the same: command loop | line buffer, end of input | a turn of the loop | the end of the input, loops inside commands | every command ends | modelled |
| `lab05/lab5_1.cpp`: virtual memory, 256 entries | `tlb`, `page_table`, `main_memory`, `init` | TLB hit, table hit, page fault | two caches of one mapping, zeros that look like entries | a read gives the page, a frame has one page | modelled, proved |
| `lab05/src/lab5_2.cpp`: the same, 128 entries | and `page_table_time` | and ageing, FIFO replacement | -1 in an unsigned char, stale TLB entries | replacement is FIFO, stale entries do no harm | modelled, proved |
| `Lab03/src/sharedmemory.cpp`: map-reduce search | shared segment, semaphores `/a` `/b`, mutex, `result` | load, map in 4 threads, reduce, print | threads, two processes, semaphores that survive a kill | no match lost, processes take turns, the output is right | modelled, safety proved |
| `lab04/main.cpp`: memory allocator | list of blocks | RQ (F/B/W), RL, C | splitting, merging while walking the list | the blocks tile the memory, C merges all and ends | modelled, safety proved |
| `Lab01/unix_shell.cpp`: shell | history, children | command, `!!`, `!n`, `&`, history, exit | wait() takes any child, the history fills up, end of input | the history is what ran, the prompt comes back | modelled, safety proved |
| `lab02/Sudoku.cpp`: checker | `puzzle`, `result`, `results` | 11 checking threads, verdict | one shared flag, an uninitialised parameter | the verdict is that of the rules | modelled, proved |
| `lab02/sortmutilthread.cpp`: sort | two arrays | 2 sorting threads, merge | scans without a bound, halves sorted in place, join before merge | threads stay in their halves, the result is sorted and a permutation | modelled, safety proved |
| `Lab03/src/pipe.cpp`: search | two pipes | filter, sort, copy | bounded pipes, end of file | no deadlock, right output | modelled, safety proved |
| `Lab03/src/socketpair.cpp`, `magic/socketpair.cpp`: search | a stream socket pair, semaphore `/test` | the same | both directions on one descriptor, terminator, stale semaphore | the same | modelled, safety proved |
| `Lab03/socketServer.cpp`, `socketClient.cpp`: echo | socket path, queue, connections | connect, echo in capitals | one client at a time, no timeouts, a path that outlives its server | a client gets its own answer, a server can be started again | modelled, safety proved |
| build files, IDE files, recorded outputs | | | | | no behaviour to model |

The components' hazards, each at its line, are in `PROJECT.json`.

## The modules

### The file system of lab06

`FileSystem` has the variables of the program (`fds`, `open_files`,
`disk_bitmap`, `ldisk`) and one action per command. C arrays are functions from
0. The program has one thread, so a command is one step; `write()` alone is
taken apart, into `WriteBegin` (the checks and the count), `WriteInPlace` and
`WriteNewBlock` (a turn of the copy loop), and `WriteEnd`, because its turns
allocate blocks and can meet a full disk half way. `job` holds its local
variables meanwhile. `destroy()` is modelled as it is: it clears the open file
entry that has the *descriptor's* number, so handles stay open on files that
are gone, and the properties are about what can then still be relied on. A free
descriptor's block numbers are the zeros of a `memset`, not the -1 of a file
without blocks; that this difference is what keeps stale handles from
allocating is `FreeDescriptorsTakeNoBlocks`.

A command that fails returns early and changes nothing: it has no action in
`FileSystem`, and is the step `OnlyPrints` of `FileSystemLoop`. The 3 blocks of
a file are the constant `FILE_BLOCKS`; the `512 * 3` in write() is `Capacity`.
What `read()` prints is left out, the number of bytes its loop gets through is
not, since it moves the pointer. The `mem` word of the write command is not
used by the program: it always copies from `mem_area`.

`BlockPool` is what the file system promises of its blocks, without bitmap,
descriptors or handles. `BlockOwner`, at the end of `FileSystem`, reads the owner
of each block off the descriptors, and `ImplementsBlockPool` states that the file
system implements the pool.

`FileSystemPersistence` adds the saved files and `exit`: the blocks of
`ldisk.bin` one at a time, then the bitmap and the descriptors of
`file_system.bin`, two writes, each of which is taken to be whole or absent.
Opening an `ofstream` empties the file. `Kill` can come between any two steps,
and `Start` restores what it finds; a part that is not there leaves what the
initialisation had set.

`FileSystemLoop` is `main()`'s loop around both: a line is the command it
parses to. The result of `fgets()` is not looked at, so at the end of the input
the line before is executed again (`MeetEof`, `TurnAfterEof`).

### Virtual memory of lab05

`VirtualMemory` (first version) has one action for each way an address is
translated. `VirtualMemoryFIFO` (second version) extends it: the buffer, the
memory and the output are the same code and the same definitions, the table
lookup is another (`SlotMatches`), the two hits also age the table's entries
(`AgedTlbHit`, `AgedTableHit`), and a fault replaces one (`Replacement`). An
address is its page, since the offset is carried over; what a frame holds is the
page that was read into it. `output` is the last line written, so that a read
can be compared with the page asked for. `tlbindex` counts up without end in the
code and is only used modulo 16: it is kept modulo `TLB_SIZE`. The tables are
static and start as zeros, which both searches take for a mapping of page 0 to
frame 0; the second version's -1 is 255 in an unsigned char, the number of the
last page. The second version is followed up to the first write past
`main_memory` (`overrun`, set by `ReplacementPastEnd`), after which the program
is undefined.

### The shared memory search of Lab03

`SharedMemory` has the parent, the child's main thread, and `NUM_THREADS`
mapping threads as processes of their own. The segment and the semaphores
outlive a process: `Kill` (a Ctrl-C, which reaches both) leaves them as they
are, `Start` opens them as they are, and a parent that gets to its end removes
them. A line is a number in the order of `strcmp()`, and that the search word
is found in it is membership in `Matching`. A thread finds a line, locks,
stores, and counts and unlocks, in four steps. `reduce()` and the `memset`
before it are one step each: they touch the segment only while the parent
waits, which `TakesTurns` checks for a run that found both semaphores at 0; for
other runs the model lets the parent see them whole, so nothing is claimed of
those runs but their types and that they end. `quickSort()` is modelled by what
it returns.

### The memory allocator of lab04

`MemoryAllocator` keeps the list as a sequence. A request and a release are one
step; `compactMemory()` is taken apart into the turns of its inner loop
(`MergeNext`, `StepOver`), and the ends of its passes, because a pass merges
pairs and goes on behind the merged block. `AddressSpace` is what it promises:
addresses with owners. `AddressOwner` reads the owners off the blocks, and
`ImplementsAddressSpace` states that the allocator implements it.

### The shell of Lab01

`UnixShell` has the turns of the shell's loop and the ends of its children. A
line is a text of which only that is known which the shell looks at: whether it
is blank (`Blanks`), a repeat (`LAST` for `!!`, `Number` for `!n` and anything
else that begins with an exclamation mark), `exit`, `history`, or a command; whether an
ampersand ends it (`Background`); what `strtok()` leaves of it in the buffer
(`FirstWord`); and what is left of it without its last character (`Cut`). A
`Turn` skips a text, leaves the shell, or records and executes it, or the line of
the history that it stands for. After the end of the input `fgets()` leaves the
buffer as it is, and each turn is one with the rest of what the turn before has
left there (`TurnAtEof`): `ls&` becomes `ls` in the buffer and `l` after it,
`!15` becomes a repeat of line 1, `exitx` ends the shell, and at the empty text
the shell prints prompts for ever. The buffer is not initialised, so at first it
holds any text. `wait()` returns for any child that has ended (`Wait`), so the
prompt can come back while the command in the foreground still runs.

### The threads of lab02

`Sudoku` has `main()` and a thread for the rows, one for the columns and one for
each subgrid. A thread looks at one group in a step; the puzzle is never
written, so nobody could tell the cells apart. `paradata[10].column` is not
initialised in the code: `Init` gives it -1 or another value.

`SortThreads` has `main()` and two threads in `quick_sort()`. A turn of a
scanning loop, an exchange, and a recursive call are a step each, and `calls`
holds the ranges a thread has still to sort. The loops test no bound, and the
model adds none: a scan that left the array would be an error of the run.

### The other searches of Lab03

`LineSearch` is what a search promises: it delivers, one by one, the least of the
matching lines that the file has more often than were delivered, and is over when
there is none. That fixes the output without saying how lines are found or sorted;
nor does the sort of the programs: `Alphabetical` is every arrangement of the lines
in order, of which there is one. `StreamSearch` has
the state that the programs over byte streams share: two streams that hold
`CAPACITY` lines, a parent that sends and receives, a child that keeps, sorts and
sends back. `PipeSearch` adds who holds which end of which pipe open, on which
the end of a stream depends; `SocketPairSearch` the terminator line, and the
named semaphore that outlives a run that is interrupted; `SleepSearch` is the
earlier version in `magic/`, which sleeps where the other waits for the
semaphore, so that the end of its wait is ordered with nothing. `MCStreamSearch`
runs one of the three (`StreamSpec`) and states that each implements `LineSearch`.

### The echo server and client of Lab03

`EchoServer` has servers, which can be started again after they died and also
while another one runs, and clients. Each system call that another program can
come between is a step: `access()`, `unlink()`, `bind()`, `listen()`, `accept()`,
`read()`, `write()`, `close()`. `path` is the socket at `SOCKET_PATH`, which a
dead server leaves behind. A write to a client that is gone ends the server
(`WriteToGone`), since it does not handle SIGPIPE. `connect()` waits while the
queue is full. What the kernel does with connections (queues, and their loss
when a process ends) is modelled from how the two programs use it.

## Runs

| run | instance | shows |
|---|---|---|
| `fs_commands` | 2 descriptors, 2 blocks of 2 bytes, 2 blocks per file, the names of a file and of the directory, counts 2 and 5, positions 0 and 1 | bitmap, ownership, lengths, copies, writes; implements `BlockPool` |
| `fs_loop` | 2 descriptors, 2 blocks of one byte, one name | saves, kills, restarts, the loop, termination of commands |
| `fs_eof` | 2 descriptors, 1 block | counterexample, see below |
| `vm_table` | 5 pages and frames, TLB of 2 | translation: the buffer agrees with the table, a read gives its page |
| `vm_fifo` | 5 pages and frames, TLB of 2, 3 entries, counts up to 8 | FIFO replacement, stale entries |
| `shm_search` | 2 threads, 3 rows, 5 files, kills and later runs | no match lost, turns, right output, termination |
| `stream_search` | each of the three programs on every file of up to 4 lines out of 3, streams of 2 lines, kills and later runs | implements `LineSearch`, who waits for whom, termination |
| `alloc` | 5 addresses, 2 processes and the name Free, sizes 0 to 2, lists of up to 5 | tiling, compaction, implements `AddressSpace` |
| `shell` | 14 texts that are one another without the last character, a history of 3, 4 commands | history, wait(), prompt, end of input |
| `sudoku` | 4 x 4, six puzzles, 6 threads | the verdict, both ways of finding it, termination |
| `sort` | 6 elements out of 3 numbers, all arrays | halves, result, termination |
| `echo` | 2 servers, 2 clients, a queue of one, a line with and one without lower case | answers, restarts, who is answered |

Why the bounds are enough.

- `fs_commands`: two-byte blocks have a position inside a block; a count of 5 is
  above the capacity of 4, so it must be cut down, and through the destroyed
  directory, whose length is negative, it is not; two blocks fill up in the
  middle of a write; and both descriptors can hold files with either name, with
  handles on either left open. `mem_area` holds a different byte at every index,
  so a copy to a wrong place shows. More descriptors and blocks are left to the
  proofs. A million states.
- `fs_loop`: two blocks make a save that can be cut in its middle, and two
  generations of saved files that can be mixed. A kill between the two writes of
  `file_system.bin` loses blocks, so that a later write() can meet a disk on
  which nothing is free.
- `vm_table`, `vm_fifo`: more pages than TLB entries, and than entries of the
  small table, so that both are overwritten while the other still has the page;
  with counts up to 8 every entry of the small table has been replaced once and
  the memory overrun.
- `alloc`: four free blocks in a row take a compaction three passes.
- `shm_search`: three lines and two threads give unequal shares, and files with
  repeated, with unordered, with no and with no matching lines.
- `stream_search`: a file can have twice as many matching lines as a stream
  holds, so that either side can have to wait in the middle of its work; the
  semaphore gets to `MAX_POSTS`, 2, by two interrupted runs.
- `shell`: with four commands the history of three fills up, two commands in the
  background can end before two in the foreground, and a leftover of the input
  can be a command, a repeat of one, of none, `exit`, blank, or empty.
- `sudoku`: a puzzle that is wrong only in rows, only in columns, only in
  subgrids, and one each with a number too small and too large. Their threads
  are of three kinds, as in the 9 x 9 program.
- `sort`: halves of three elements have a pivot in their middle, ranges of one
  and of two, and equal elements; both recursive calls happen.
- `echo`: two servers are what it takes for one to remove the other's path, and
  two clients and a queue of one for a connect() that waits. The bound is on the
  queue alone: `BACKLOG` is 0, and `listen(0)` queues one.

The other bounds are in guards: `MAX_POSTS` (no Ctrl-C once a semaphore has this
value, else it would grow with every killed run), `MAX_LIST` (requests of size 0
would lengthen the list without end), `MAX_JOBS` (no more lines are typed after
so many commands), `MAX_TIME` (the counts of the small page table).

`CHECK_DEADLOCK FALSE` is set where the system may stop: `vm_fifo` at its bound
and at the overrun, `shell`, `sudoku` and `sort` at the end of the program,
`stream_search` at the end of a pipe search. The other runs check that there is
always a step.

### Fairness

| specification | assumed | why |
|---|---|---|
| `FileSystemLoop` | weak fairness of the steps inside `write()` and a save, and of the turns after the end of the input | one thread, which does not wait; `fgets()` returns at once at the end of the input. Nobody has to type, kill or restart |
| `SharedMemory` | weak fairness of each process and thread | the scheduler runs them; weak is enough for the mutex, because every thread takes it finitely often. A failing `pthread_create()` is never forced |
| `MCStreamSearch` | weak fairness of the parent and of the child | the scheduler runs them. Nobody has to press Ctrl-C or start a run |
| `MemoryAllocator` | `compactMemory()` is not left in the middle | one thread |
| `UnixShell` | weak fairness of `Wait`, of the turns after the end of the input, and of the ends of commands in the foreground | the shell does not pause; a command in the foreground ends, one in the background may run for ever, so `PromptReturns` does not lean on it |
| `Sudoku`, `SortThreads` | weak fairness of `main()` and of each thread | the scheduler runs them |
| `EchoServer` | weak fairness of each server's steps, and of a client that waits for its answer | they do not pause. Nobody has to start, kill or type: a client may connect and stay silent for good, which is why `LinesAnswered` is conditional on nobody doing so |

The other specifications have safety properties only and no fairness.

### Where the program and what is said of it part

`fs_eof` states what the comment of the command loop says, that it ends at the
end of the input (`lab06.cpp:92`), and TLC refutes it: the last line is executed
again and again.

Others were met while modelling and have no run of their own:

- the open file table of lab06 holds entries of files that are gone: `destroy()`
  clears the entry with the *descriptor's* number (`lab06.cpp:280`);
- `destroy directory` takes the directory's length below the number of files
  (`lab06.cpp:281`, the comment at line 80);
- an overwrite adds to the length (`lab06.cpp:402`), after which read() announces
  more than it delivers;
- a kill during a save loses what an earlier exit had saved (`lab06.cpp:198`);
- page 0 is never read from the backing store (the searches of
  `lab5_1.cpp:39` and 53): the zeros of the table pass for its entry;
- in the second version the last page is read from a frame it was never loaded
  into (`lab5_2.cpp:33`), and replacement frees no frames (`lab5_2.cpp:79`);
- the two messages after `compareFiles()` are exchanged (`lab5_1.cpp:93-97`);
- a shared memory search after an interrupted one can print a wrong result,
  because `/a` may have been posted (`sharedmemory.cpp:52`);
- `RL` frees only one of a process's blocks (`lab04/main.cpp:181`);
- the report of the shell says that a full history drops its oldest line to make
  room (`READMELAB1.md:163`), so that `!!` runs the most recent command (lines 57
  and 206); the code stops recording instead (`unix_shell.cpp:64`), after which
  `!!` repeats the line that filled the history. What holds is in
  `HistoryIsWhatRan`: a full history keeps the first commands. (`HISTORY_SIZE`,
  which the report names, is how many lines `history` prints; the array holds
  `HISTORY_MAX_SIZE`);
- the report of the shell has the parent wait for the child it started
  (`READMELAB1.md:175-176`), `wait()` takes whichever child ends first
  (`unix_shell.cpp:108`); `WaitsInStead` says what can be relied on then;
- after the end of the input the shell does not end but executes what is left in
  its buffer (`unix_shell.cpp:24`), see `LeftoversRunOut`;
- of two echo servers that start together, the one that fails to bind removes
  the other's path (`socketServer.cpp:46`), after which no new client gets
  through; connections that exist are not harmed, which `OwnAnswer` checks.

## Proofs

Eight modules hold proofs. Each uses the named assumptions of its specification
on the constants and nothing else, so what they say holds for every size.

| theorem | says |
|---|---|
| `FileSystemProofs`: `TypeCorrect` | `TypeOK` always holds |
| `BitmapIsExact` | `BitmapExact` always holds |
| `BlocksHaveOneOwner` | `BlocksOwnedOnce` always holds |
| `FreeDescriptorsStayFull` | `FreeDescriptorsTakeNoBlocks` always holds |
| `CopiesStayInMemArea` | `CopyWithinMemArea` always holds |
| `WritesKeepOthersBlocks` | every step satisfies `WritesStayInFile` |
| `LengthsStayWithinCapacity` | `LengthWithinCapacity` always holds |
| `BlocksArePool` | the file system implements `BlockPool` |
| `RestartsKeepBlocksMarked` | `OwnedBlocksMarked` always holds, kills and restarts included |
| `RestartsRestore` | every start satisfies `RestartRestores` |
| `VirtualMemoryProofs`: `TypeCorrect` | `TypeOK` always holds |
| `TlbNeverStale` | `TlbAgreesWithTable` always holds |
| `OtherPagesRead` | `ReadsOtherPages` always holds |
| `OnePagePerFrame` | `FramesNotShared` always holds |
| `MiddlePagesRead` (second version) | `ReadsMiddlePages` always holds |
| `ReplacesOldest` (second version) | every step satisfies `FirstInFirstOut` |
| `SharedMemoryProofs`: `ProcessesTakeTurns` | `TakesTurns` always holds |
| `NoMatchIsLost` | `NoMatchLost` always holds |
| `CleanRunsAreRight` | `CleanRunsRight` always holds |
| `MemoryAllocatorProofs`: `BlocksTileMemory` | `Tiling` always holds |
| `CompactionLeavesNoNeighbours` | every end of a compaction satisfies `CompactionComplete` |
| `MemoryIsAddressSpace` | the allocator implements `AddressSpace` |
| `UnixShellProofs`: `WaitTakesOneForOne` | `WaitsInStead` always holds |
| `HistoryTellsWhatRan` | `HistoryIsWhatRan` always holds |
| `SudokuProofs`: `FlagAndEntriesAgree` | `EitherWay` always holds |
| `VerdictIsRight` | `VerdictRight` always holds |
| `SortThreadsProofs`: `ThreadsStayApart` | `StaysInHalf` always holds |
| `ResultIsSorted` | `ResultSorted` always holds |
| `StreamProofs`: `AnswersComeAfterInput` | `AnswersAfterInput` always holds |
| `SearchesImplementLineSearch` | each of the three programs implements `LineSearch` |
| `RestartsAfterCrash` | `StartsAfterCrash` always holds |
| `AnswersAreOwn` | `OwnAnswer` always holds |

None of these properties is inductive as it stands. What is added, and why:

- **File system.** `TypeInv` is `TypeOK` and `CopiedFitsBlocks`: the bytes a
  write has copied fit in the blocks it has passed. Without it, `TypeOK` does not
  give that `mem_area` is read inside its bounds, because the count alone does
  not bound it (the directory's length can be negative). `OwnershipInv` adds to it
  that owned blocks are marked, have one owner, and are never given to a free
  descriptor. An allocation keeps the second because an unmarked block has no
  owner, and destroy() keeps the first because the blocks it unmarks have no other
  owner. That a marked block has an owner (`MarkedBlocksOwned`) is kept apart: it
  makes the bitmap exact, but only as long as no process is killed. Every step of
  a command keeps the owners (`KeepsOwners`), gives back the blocks of one file
  (`GivesBack`), or takes one for one (`Takes`); these are also the steps of
  `BlockPool`. `LengthInv` adds that a write which is under way has no more left
  to write than the file's length leaves room for, a fact that is set up when it
  begins and used when it ends.
- **Saves and restarts.** `RunsInv` says of the memory what `OwnershipInv` says,
  of the saved files that the descriptors are in the file only behind a bitmap
  that marks their blocks (`Consistent`), and of a save under way which part of
  the memory is in the files already. A start then finds both, or a bitmap
  without descriptors, or nothing, and in each case owned blocks are marked; what
  can be left behind are marked blocks without an owner. `NothingAssumption` says
  that a missing part is told from a bitmap and from a table of descriptors.
- **Virtual memory.** The frames handed out are as many as the pages loaded, and
  page 0 is never loaded, so one frame is left for every fault; an entry of the
  table is a zero, or maps its own page to a frame below `init` that holds it.
- **FIFO replacement.** Frames are handed out in order, so they tell the age of
  an entry: among loaded entries the count falls as the frame rises, and the
  entries that were never loaded are all of one age, above all others. An entry
  of either table is for one of the two pages that initial entries stand for, or
  maps to a frame that holds its page.
- **Shared memory.** `Turns` lists where the two processes can be while the
  semaphores have which values, for a run that started with both at 0. A run that
  did not may do anything, and a later one that did is again in order, whatever
  happened before: the theorems are about all runs, interrupted ones included.
  `CleanInv` adds what the segment and `result` hold at each of these places.
  While the threads work, their shares are disjoint and cover the lines of the
  file (`Scheduled`), and `result` has, of each word, as many copies as there are
  matching lines with it among the rows that have been mapped (`Collected`); only
  the holder of the mutex writes there. Sorting keeps the number of copies
  (`SortedFacts`, by counting the rows with a smaller rank).
- **Memory allocator.** For the tiling, that every block ends inside the memory
  (so that a best and a worst fit exist), and that a compaction's position is not
  before the first block. A split inserts a block, a merge removes one;
  `TilesSplit` and `TilesMerge` are about the list alone. Tiling gives that every
  address is covered by exactly one block, so that it has one owner, and a request
  or a release hands over the addresses of one block. `PassInv` is for the
  compaction: a pass that has merged nothing so far has left no two free
  neighbours behind its position, and the last pass is one that merged nothing.
- **Shell.** While it waits, the children in the foreground that it has not waited
  for are one more than those in the background that it has; at the prompt they
  are as many (`Balance`). A recorded command is the one started at its place
  among the commands recorded, and as long as the history is not full there are
  as many of either.
- **Sudoku.** The flag is 0 exactly if some thread has rejected a group; a
  thread that ended without an entry has rejected one; a thread's groups before
  the current one were not rejected. That a group with no repetition and no
  number out of range holds every digit is a fact about sets of N numbers
  (`RejectedIsIncomplete`).
- **Sort.** Nothing in the loops tests a bound. What stops a scan is an element
  that is not below (above) the pivot, ahead of it and inside the range: first
  the pivot, later what the last exchange has put there. `Partition` says that
  there is one, for either scan, and that the first downward scan cannot stop at
  the last element, without which the two parts would not both be smaller. The
  other thread is in the other half and moves none of this. For the result,
  `OrderInv`: two elements of a half are in order unless a range that is still to
  be sorted holds both; `SameElements`: the array has its first numbers, in as
  many copies; and `MergeInv` for the two fingers of the merge.
- **Searches over streams.** The steps of the two processes are of eleven kinds
  (`KindsOfSteps`) in all three programs, each treated once. `Conduct` says
  where the two processes can be, what can be in the streams, and who holds the
  ends of a pipe: the child reads to its end only after the parent has closed
  it. `Contents` follows the lines: while the child reads, the stream holds what
  was sent last, and the child has kept as many copies of each matching line as
  there are among the lines before; later the output, the stream down and what
  the child has left are together the matching lines of the file, and the latter
  two are in order. Hence the next line to be received is the least that is
  missing, and none is missing when the parent ends. An interrupted run keeps
  `AnswersAfterInput` only; the next one starts anew whatever the semaphore
  holds, on whose value nothing in the argument depends.
- **Echo server.** In layers: types; `Queues` (each connection in one place, and
  of the server it connected to, which is how the kernel is modelled);
  `OwnsPath` (as long as no two servers have run together, one at most is up, the
  path is free when it binds and its own from then on); `Answers` (what is in a
  buffer is the line of the client that is served, what was written to a client
  is its line in capitals).

`FreeDescriptorsTakeNoBlocks` and `FramesNotShared` are parts of these arguments
and have no run of their own.

Only model-checked is liveness, in every module: the prover does not handle
fairness. Every invariant, action property and refinement that a passing run
checks is proved. Inductions over data, which need a theorem with an operator as
its parameter that the provers cannot be given, are avoided by counting copies: in
`NoMatchIsLost`, `ResultIsSorted` and `SearchesImplementLineSearch` the output is
right because it is in order and has each line as often as the input.

## Not modelled

- Undefined behaviour that needs arguments outside the arrays: negative
  positions, counts and handle numbers in lab06, more lines than the segment has
  rows in Lab03, negative or missing sizes in lab04. `VirtualMemoryFIFO` stops at
  the first write past `main_memory`. When the input of the shell has ended and
  its buffer is empty, `unix_shell.cpp:25` clears the byte before the buffer,
  `input[-1]`; in the model that byte is nobody's, so the shell goes on.
- An odd number of elements in the sort: the code has 10, and both halves are
  computed from it at compile time.
- Text: how a command line is parsed (lab06 splits lines longer than 19
  characters), what is printed, how the search word is matched, messages that do
  not fit a buffer of the echo programs, lines that do not fit that of the shell.
- Failures of system calls the programs do not check. Those that are checked and
  matter to another process are modelled: `pthread_create()` in the child of the
  shared memory search, an input file of the stream searches that is missing,
  `fork()` in the shell, `bind()` and `connect()` of the echo programs.
- Two invocations at a time of the shared memory search, or of the socket pair
  search: both share named semaphores, and nothing in their reports intends it.
- `read_block()` and `write_block()` of lab06, which nothing calls;
  `compareFiles()` and the statistics of lab05, which are computed from the output
  after all addresses are read; `STAT` of lab04.
- Makefiles, CMake and IDE files, the compiler identification sources that CMake
  wrote into `cmake-build-debug`, input texts and recorded outputs.
