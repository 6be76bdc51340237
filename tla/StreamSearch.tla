---------------------------- MODULE StreamSearch ----------------------------
(***************************************************************************)
(* What the searches of Lab03 over byte streams have in common: a parent   *)
(* that sends the lines of a file to its child, a child that keeps the     *)
(* matching lines, sorts them and sends them back, and between them two    *)
(* streams of bounded capacity.  PipeSearch, SocketPairSearch and          *)
(* SleepSearch, one for each program, say how the streams are used.        *)
(*                                                                         *)
(* A line is written and read whole; a writer whose line does not fit      *)
(* waits, and so does a reader of an empty stream.                         *)
(***************************************************************************)
EXTENDS Integers, Sequences, FiniteSets, Functions

CONSTANTS
  Lines,     \* the lines there are
  Matching,  \* those in which the search word is found
  Files,     \* the files that are searched
  MISSING,   \* stands for a file that cannot be opened
  CAPACITY,  \* lines that fit into a stream
  END,       \* the line that holds only 0xDEADBEEF
  MAX_POSTS  \* bound: no Ctrl-C once the semaphore has got this far

ASSUME StreamAssumption ==
  /\ Lines \subseteq Nat
  /\ Matching \subseteq Lines
  /\ Files \subseteq Seq(Lines)
  /\ MISSING \notin Files
  /\ CAPACITY \in Nat \ {0}
  /\ END \notin Lines
  /\ MAX_POSTS \in Nat

VARIABLES
  program,      \* which of the programs runs
  file,         \* the file of this run, or MISSING
  parent,       \* what the parent does
  cnt,          \* lines the parent has sent
  output,       \* lines the parent has written to the output file
  child,        \* what the child does
  stline,       \* the lines the child has kept
  up, down,     \* the streams to the child and to the parent
  up_writers,   \* pipe: who holds a write end of `up' open
  down_writers, \* pipe: who holds a write end of `down' open
  sem           \* socketpair: the value of the semaphore /test

parents    == <<parent, cnt, output>>
childs     == <<child, stline>>
writers    == <<up_writers, down_writers>>
streamvars == <<program, file, parents, childs, up, down, writers, sem>>

Fits(stream) == Len(stream) < CAPACITY

\* the file has lines the parent has not sent
MoreToSend == file # MISSING /\ cnt < Len(file)

\* The child keeps a line in which the word stands alone.
KeepIfMatching(line) ==
  stline' = IF line \in Matching THEN Append(stline, line) ELSE stline

Copies(line, lines) == Cardinality({k \in DOMAIN lines : lines[k] = line})

\* fault: the lines are not sorted
Unsorted(lines) == {lines}

\* what the sort can make of the lines: each as often as before, in order
Alphabetical(lines) ==
  {s \in [DOMAIN lines -> Range(lines)] :
     /\ \A line \in Range(lines) : Copies(line, s) = Copies(line, lines)
     /\ \A j, k \in DOMAIN s : j <= k => s[j] <= s[k]}

\* a run before its first step
FreshRun(init) ==
  /\ parent = init
  /\ cnt = 0
  /\ output = <<>>
  /\ child = init
  /\ stline = <<>>
  /\ up = <<>>
  /\ down = <<>>
  /\ up_writers = {"parent", "child"}
  /\ down_writers = {"parent", "child"}

=============================================================================
