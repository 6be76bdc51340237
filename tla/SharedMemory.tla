---------------------------- MODULE SharedMemory ----------------------------
(***************************************************************************)
(* The map-reduce search of Lab03 (sharedmemory.cpp): a parent loads the   *)
(* lines of a file into a shared memory segment, a child scans them with   *)
(* several threads that collect the matching lines in one array, sorts the *)
(* array, puts it back into the segment, and the parent prints it.  The    *)
(* named semaphores a and b order the two processes, a mutex the threads.  *)
(*                                                                         *)
(* A line is a number, smaller where strcmp() puts it first; whether the   *)
(* search word is found in it is a fact about the line.  The segment and   *)
(* the semaphores belong to the system: they survive a Ctrl-C, which kills *)
(* both processes, and are removed by a parent that gets to its end.       *)
(***************************************************************************)
EXTENDS Integers, Sequences, FiniteSets

CONSTANTS
  NUM_THREADS,  \* threads that scan: 4 in the code
  LINE_SIZE,    \* rows of the segment, and of the array of results
  Lines,        \* the lines there are
  Matching,     \* those in which the search word is found
  Files,        \* the files that are searched
  MAX_POSTS     \* bound: no Ctrl-C once a semaphore has got this far

ASSUME SearchAssumption ==
  /\ NUM_THREADS \in Nat \ {0}
  /\ LINE_SIZE \in Nat \ {0}
  /\ Lines \subseteq Nat \ {0}
  /\ Matching \subseteq Lines
  /\ Files \subseteq Seq(Lines)
  /\ \A f \in Files : Len(f) <= LINE_SIZE
  /\ MAX_POSTS \in Nat

VARIABLES
  sem_a, sem_b,  \* values of the semaphores
  data, l,       \* the segment: rows, and how many of them count
  file,          \* the file of this run
  parent,        \* what the parent does: "load", "wait", "print", "done", "killed"
  cnt,           \* lines the parent has loaded
  output,        \* rows the parent has printed
  child,         \* what the child does
  created,       \* threads the child has created
  len,           \* rows of a thread, as the child last computed it
  threads,
  mutex,         \* the thread that holds the mutex
  ans, index,    \* the results, and how many there are
  clean          \* the run found both semaphores as they are created (history)

segment  == <<data, l>>
results  == <<ans, index>>
work     == <<created, len, threads, mutex, results>>
childs   == <<child, work>>
parents  == <<parent, cnt, output, file, clean>>
vars     == <<sem_a, sem_b, segment, parents, childs>>

Threads == 0 .. NUM_THREADS - 1
Rows    == 0 .. LINE_SIZE - 1
Free    == -1
NoLine  == 0

NoLines    == [k \in Rows |-> NoLine]
IdleThread == [pc |-> "idle", now |-> 0, end |-> 0, line |-> NoLine]

\* fault: the thread does not wait for the mutex
MutexIgnored == TRUE

MutexFree == mutex = Free

\* fault: a semaphore is created with one post
PostedOnce == 1

\* the value a semaphore is created with
Unposted == 0

-----------------------------------------------------------------------------
(* The parent.                                                             *)

LoadLine ==
  /\ parent = "load"
  /\ cnt < Len(file)
  /\ data' = [data EXCEPT ![cnt] = file[cnt + 1]]
  /\ cnt' = cnt + 1
  /\ UNCHANGED <<sem_a, sem_b, l, file, parent, output, childs, clean>>

PostLoaded ==
  /\ parent = "load"
  /\ cnt = Len(file)
  /\ l' = cnt
  /\ sem_a' = sem_a + 1
  /\ parent' = "wait"
  /\ UNCHANGED <<sem_b, data, file, cnt, output, childs, clean>>

WaitForResults ==
  /\ parent = "wait"
  /\ sem_b > 0
  /\ sem_b' = sem_b - 1
  /\ parent' = "print"
  /\ UNCHANGED <<sem_a, segment, file, cnt, output, childs, clean>>

\* a row that was cleared prints as nothing; it is kept here to count the turns
PrintRow ==
  /\ parent = "print"
  /\ Len(output) < l
  /\ output' = Append(output, data[Len(output)])
  /\ UNCHANGED <<sem_a, sem_b, segment, file, parent, cnt, childs, clean>>

\* The segment and both semaphores are removed.  A child that is still at work,
\* as it can be when the run was not clean, keeps the removed ones to itself.
RemoveShared ==
  /\ parent = "print"
  /\ Len(output) >= l
  /\ parent' = "done"
  /\ sem_a' = Unposted
  /\ sem_b' = Unposted
  /\ data' = NoLines
  /\ l' = 0
  /\ child' = "exited"
  /\ threads' = [t \in Threads |-> IdleThread]
  /\ UNCHANGED <<file, cnt, output, created, len, mutex, results, clean>>

ParentStep == LoadLine \/ PostLoaded \/ WaitForResults \/ PrintRow \/ RemoveShared

-----------------------------------------------------------------------------
(* The child's main thread.                                                *)

WaitForLines ==
  /\ child = "wait"
  /\ sem_a > 0
  /\ sem_a' = sem_a - 1
  /\ child' = "divide"
  /\ UNCHANGED <<sem_b, segment, parents, work>>

Divide ==
  /\ child = "divide"
  /\ len' = l \div NUM_THREADS
  /\ child' = "create"
  /\ UNCHANGED <<sem_a, sem_b, segment, parents, created, threads, mutex, results>>

\* fault: the last thread gets no more rows than the others
ShareEven(i) == len

\* how many rows thread i scans; the last one takes the rest
Share(i) == IF i # NUM_THREADS - 1 THEN len ELSE l - (NUM_THREADS - 1) * len

CreateThread ==
  /\ child = "create"
  /\ threads' = [threads EXCEPT ![created] =
                   [IdleThread EXCEPT !.pc = "scan",
                                      !.now = created * len,
                                      !.end = created * len + Share(created)]]
  /\ created' = created + 1
  /\ child' = IF created + 1 < NUM_THREADS THEN "divide" ELSE "join"
  /\ UNCHANGED <<sem_a, sem_b, segment, parents, len, mutex, results>>

\* pthread_create() can fail; the child then ends, and its threads with it
CreateFails ==
  /\ child = "create"
  /\ child' = "failed"
  /\ threads' = [t \in Threads |-> IdleThread]
  /\ UNCHANGED <<sem_a, sem_b, segment, parents, created, len, mutex, results>>

Join ==
  /\ child = "join"
  /\ \A t \in Threads : threads[t].pc = "done"
  /\ data' = NoLines
  /\ child' = "reduce"
  /\ UNCHANGED <<sem_a, sem_b, l, parents, work>>

\* what quickSort() makes of the first n rows
Sorted(rows, n) ==
  [k \in Rows |->
     IF k >= n THEN rows[k]
     ELSE CHOOSE x \in {rows[j] : j \in 0 .. n - 1} :
            /\ Cardinality({j \in 0 .. n - 1 : rows[j] < x}) <= k
            /\ k < Cardinality({j \in 0 .. n - 1 : rows[j] <= x})]

Reduce ==
  /\ child = "reduce"
  /\ MutexFree
  /\ ans' = Sorted(ans, index)
  /\ data' = [k \in Rows |-> IF k < index THEN ans'[k] ELSE data[k]]
  /\ l' = index
  /\ child' = "post"
  /\ UNCHANGED <<sem_a, sem_b, parents, created, len, threads, mutex, index>>

\* fault: the last post is forgotten
PostNothing == sem_b' = sem_b

PostB == sem_b' = sem_b + 1

PostReduced ==
  /\ child = "post"
  /\ PostB
  /\ child' = "exited"
  /\ UNCHANGED <<sem_a, segment, parents, work>>

ChildStep == WaitForLines \/ Divide \/ CreateThread \/ Join \/ Reduce \/ PostReduced

-----------------------------------------------------------------------------
(* map(): the threads.                                                     *)

mapUnchanged == <<sem_a, sem_b, segment, parents, child, created, len>>

Scan(t) ==
  /\ threads[t].pc = "scan"
  /\ threads[t].now < threads[t].end
  /\ LET line == data[threads[t].now]
     IN  threads' = [threads EXCEPT ![t] =
           IF line \in Matching
           THEN [@ EXCEPT !.pc = "lock", !.line = line]
           ELSE [@ EXCEPT !.now = threads[t].now + 1]]
  /\ UNCHANGED <<mapUnchanged, mutex, results>>

Lock(t) ==
  /\ threads[t].pc = "lock"
  /\ MutexFree
  /\ mutex' = t
  /\ threads' = [threads EXCEPT ![t].pc = "store"]
  /\ UNCHANGED <<mapUnchanged, results>>

Store(t) ==
  /\ threads[t].pc = "store"
  /\ ans' = [ans EXCEPT ![index] = threads[t].line]
  /\ threads' = [threads EXCEPT ![t].pc = "count"]
  /\ UNCHANGED <<mapUnchanged, mutex, index>>

NextRow(thread) == [thread EXCEPT !.pc = "scan", !.now = @ + 1]

CountAndUnlock(t) ==
  /\ threads[t].pc = "count"
  /\ index' = index + 1
  /\ mutex' = Free
  /\ threads' = [threads EXCEPT ![t] = NextRow(@)]
  /\ UNCHANGED <<mapUnchanged, ans>>

Return(t) ==
  /\ threads[t].pc = "scan"
  /\ threads[t].now >= threads[t].end
  /\ threads' = [threads EXCEPT ![t].pc = "done"]
  /\ UNCHANGED <<mapUnchanged, mutex, results>>

map(t) == Scan(t) \/ Lock(t) \/ Store(t) \/ CountAndUnlock(t) \/ Return(t)

-----------------------------------------------------------------------------
Kill ==
  /\ parent \notin {"done", "killed"}
  /\ sem_a < MAX_POSTS
  /\ sem_b < MAX_POSTS
  /\ parent' = "killed"
  /\ child' = "killed"
  /\ threads' = [t \in Threads |-> IdleThread]
  /\ UNCHANGED <<sem_a, sem_b, segment, file, cnt, output, created, len, mutex, results, clean>>

\* the next run: sem_open() and shmget() create what is not there, and take
\* what is as it is
Start ==
  /\ parent \in {"done", "killed"}
  /\ file' \in Files
  /\ parent' = "load"
  /\ cnt' = 0
  /\ output' = <<>>
  /\ child' = "wait"
  /\ created' = 0
  /\ len' = 0
  /\ threads' = [t \in Threads |-> IdleThread]
  /\ mutex' = Free
  /\ ans' = NoLines
  /\ index' = 0
  /\ clean' = (sem_a = Unposted /\ sem_b = Unposted)
  /\ UNCHANGED <<sem_a, sem_b, segment>>

Init ==
  /\ sem_a = Unposted
  /\ sem_b = Unposted
  /\ data = NoLines
  /\ l = 0
  /\ file \in Files
  /\ parent = "load"
  /\ cnt = 0
  /\ output = <<>>
  /\ child = "wait"
  /\ created = 0
  /\ len = 0
  /\ threads = [t \in Threads |-> IdleThread]
  /\ mutex = Free
  /\ ans = NoLines
  /\ index = 0
  /\ clean = TRUE

Next ==
  \/ ParentStep
  \/ ChildStep
  \/ CreateFails
  \/ \E t \in Threads : map(t)
  \/ Kill
  \/ Start

\* The scheduler lets every process and every thread run; nobody has to start
\* the program again.
Spec ==
  /\ Init
  /\ [][Next]_vars
  /\ WF_vars(ParentStep)
  /\ WF_vars(ChildStep)
  /\ \A t \in Threads : WF_vars(map(t))

-----------------------------------------------------------------------------
(* Properties.                                                             *)

Copies(x, rows, n) == Cardinality({k \in 0 .. n - 1 : rows[k] = x})

\* rows that the threads are done with
MappedRows == UNION {t * len .. threads[t].now - 1 : t \in 0 .. created - 1}

\* The two processes take turns at the segment: while the child is at work the
\* parent waits.  A run with clean semaphores needs no lock on the segment.
TakesTurns ==
  clean /\ child \in {"divide", "create", "join", "reduce", "post"} => parent = "wait"

\* The threads lose no match and count none twice: each matching line is in the
\* results as often as it is in the rows that were scanned so far.
NoMatchLost ==
  clean /\ child \in {"divide", "create", "join"} =>
    \A x \in Matching :
      Copies(x, ans, index) = Cardinality({k \in MappedRows : file[k + 1] = x})

\* The right output: the matching lines of the file, each as often as it is
\* there, in order.
RightOutput ==
  /\ \A j, k \in DOMAIN output : j <= k => output[j] <= output[k]
  /\ \A x \in Lines :
       Cardinality({k \in DOMAIN output : output[k] = x})
         = IF x \in Matching THEN Cardinality({k \in DOMAIN file : file[k] = x}) ELSE 0

\* A run that ends prints the right output if it found the semaphores at 0,
\* whatever earlier runs that were killed have left in the segment.
CleanRunsRight == parent = "done" /\ clean => RightOutput

\* A run ends, unless its child failed or it is killed: the processes do not
\* wait for each other, also when the semaphores were not at 0.
RunsEnd == parent = "load" ~> parent \in {"done", "killed"} \/ child = "failed"

=============================================================================
