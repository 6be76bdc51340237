-------------------------- MODULE MCStreamSearch ---------------------------
(***************************************************************************)
(* The three searches over streams for TLC: one of the programs runs, on   *)
(* any file of up to four lines, twice what fits into a stream, or on one  *)
(* that is missing.                                                        *)
(***************************************************************************)
EXTENDS StreamSearch

SearchFiles == UNION {[1 .. n -> Lines] : n \in 0 .. 4}

Pipe   == INSTANCE PipeSearch
Socket == INSTANCE SocketPairSearch
Sleep  == INSTANCE SleepSearch

StreamInit == Pipe!Init \/ Socket!Init \/ Sleep!Init

ParentStep == Pipe!ParentStep \/ Socket!ParentStep \/ Sleep!ParentStep
ChildStep  == Pipe!ChildStep \/ Socket!ChildStep \/ Sleep!ChildStep

StreamNext == ParentStep \/ ChildStep \/ Socket!Kill \/ Socket!Start

\* The scheduler lets both processes run; nobody has to interrupt a program or
\* start it again.
StreamSpec ==
  /\ StreamInit
  /\ [][StreamNext]_streamvars
  /\ WF_streamvars(ParentStep)
  /\ WF_streamvars(ChildStep)

-----------------------------------------------------------------------------
(* Properties.                                                             *)

\* The child sends nothing before it has taken all the parent sends.  That is
\* why two streams of bounded capacity cannot have each process wait for the
\* other to read.
AnswersAfterInput == down # <<>> => parent \notin {"close", "work", "send"} /\ up = <<>>

Search == INSTANCE LineSearch WITH
  file  <- IF file = MISSING THEN <<>> ELSE file,
  Files <- Files \union {<<>>},
  over  <- parent = "done"

\* Each program implements the search: its output file is at all times a
\* beginning of the right result, and complete when the program ends.  This
\* holds whatever value an interrupted run has left in the semaphore, and
\* without a semaphore.
ImplementsLineSearch == Search!Spec

\* A run comes to its end or is interrupted, unless its file is missing and
\* the end of the input is told by a terminator, which is not sent then.
SearchEnds ==
  (program = "pipe" \/ file # MISSING) ~> parent \in {"done", "killed"}

=============================================================================
