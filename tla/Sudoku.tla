------------------------------- MODULE Sudoku -------------------------------
(***************************************************************************)
(* The sudoku checker of lab02: main() starts a thread for the rows, one   *)
(* for the columns and one for each subgrid, waits for them all, and says  *)
(* whether the puzzle is valid.  The threads clear one flag, `result', and *)
(* each sets its own entry of `results'.                                   *)
(*                                                                         *)
(* A thread looks at one row, column or subgrid in a step: the puzzle is   *)
(* never written, so nobody can tell the cells of one apart.  A critical   *)
(* section is one assignment, and one step.                                *)
(***************************************************************************)
EXTENDS Integers, FiniteSets

CONSTANTS
  N,             \* rows, columns, subgrids and digits: 9 in the code
  SUBGRID_SIZE,  \* rows and columns of a subgrid
  Puzzles        \* the puzzles that are checked

Index == 0 .. N - 1

ASSUME SudokuAssumption ==
  /\ N \in Nat \ {0}
  /\ SUBGRID_SIZE \in Nat \ {0}
  /\ N = SUBGRID_SIZE * SUBGRID_SIZE
  /\ Puzzles \subseteq [Index -> [Index -> Int]]

\* threads[k] checks subgrid k, threads[N] the rows, threads[N + 1] the columns
Threads == 0 .. N + 1

VARIABLES
  puzzle,
  column,   \* the field of paradata[10] that main() leaves uninitialised
  created,  \* threads that were created
  pc,       \* what each thread does
  i,        \* for each thread, how many rows or columns it is done with
  result,   \* 1 as long as no thread has found a fault
  results,  \* 1 for a thread that has found none
  verdict   \* what main() says

vars == <<puzzle, column, created, pc, i, result, results, verdict>>

Row(k)     == [m \in Index |-> puzzle[k][m]]
Column(k)  == [m \in Index |-> puzzle[m][k]]
Subgrid(k) ==
  [m \in Index |-> puzzle[(k \div SUBGRID_SIZE) * SUBGRID_SIZE + (m \div SUBGRID_SIZE)]
                         [(k % SUBGRID_SIZE) * SUBGRID_SIZE + (m % SUBGRID_SIZE)]]

\* fault: a digit is compared with the one before it only
RepeatsNeighbour(cells) ==
  \E m \in Index : cells[m] \notin 1 .. N \/ (m > 0 /\ cells[m - 1] = cells[m])

\* the test of a cell against the digits seen before it
Rejected(cells) ==
  \E m \in Index : cells[m] \notin 1 .. N \/ \E k \in 0 .. m - 1 : cells[k] = cells[m]

\* checkRowColumn() looks at `column' first; paradata[9].column is -1
ChecksRows(t) == t = N \/ (t = N + 1 /\ column = -1)

Group(t) ==
  IF t < N THEN Subgrid(t) ELSE IF ChecksRows(t) THEN Row(i[t]) ELSE Column(i[t])

\* how many groups a thread looks at
Groups(t) == IF t < N THEN 1 ELSE N

-----------------------------------------------------------------------------
Check(t) ==
  /\ pc[t] = "check"
  /\ i[t] < Groups(t)
  /\ ~ Rejected(Group(t))
  /\ i' = [i EXCEPT ![t] = @ + 1]
  /\ UNCHANGED <<puzzle, column, created, pc, result, results, verdict>>

Cleared == 0

Reject(t) ==
  /\ pc[t] = "check"
  /\ i[t] < Groups(t)
  /\ Rejected(Group(t))
  /\ result' = Cleared
  /\ pc' = [pc EXCEPT ![t] = "exited"]
  /\ UNCHANGED <<puzzle, column, created, i, results, verdict>>

Accept(t) ==
  /\ pc[t] = "check"
  /\ i[t] = Groups(t)
  /\ results' = [results EXCEPT ![t] = 1]
  /\ pc' = [pc EXCEPT ![t] = "exited"]
  /\ UNCHANGED <<puzzle, column, created, i, result, verdict>>

\* fault: the threads of the subgrids are forgotten
NthUnwrapped(n) == n + N

\* the thread for the rows first, then the one for the columns, then the others
Nth(n) == (n + N) % (N + 2)

Create ==
  /\ created < N + 2
  /\ created' = created + 1
  /\ pc' = [pc EXCEPT ![Nth(created)] = "check"]
  /\ UNCHANGED <<puzzle, column, i, result, results, verdict>>

\* fault: main() does not wait for the thread of the columns
JoinedButLast == \A t \in Threads \ {N + 1} : pc[t] = "exited"

Joined == \A t \in Threads : pc[t] = "exited"

Conclude ==
  /\ created = N + 2
  /\ Joined
  /\ verdict = "none"
  /\ verdict' = IF result # 0 THEN "valid" ELSE "not valid"
  /\ UNCHANGED <<puzzle, column, created, pc, i, result, results>>

Init ==
  /\ puzzle \in Puzzles
  /\ column \in {-1, 0}
  /\ created = 0
  /\ pc = [t \in Threads |-> "none"]
  /\ i = [t \in Threads |-> 0]
  /\ result = 1
  /\ results = [t \in Threads |-> 0]
  /\ verdict = "none"

main == Create \/ Conclude

thread(t) == Check(t) \/ Reject(t) \/ Accept(t)

Next == main \/ \E t \in Threads : thread(t)

\* The scheduler lets main() and every thread run.
Spec ==
  /\ Init
  /\ [][Next]_vars
  /\ WF_vars(main)
  /\ \A t \in Threads : WF_vars(thread(t))

-----------------------------------------------------------------------------
(* Properties.                                                             *)

\* the rule of the game: every digit is there, in each of the groups
Complete(cells) == {cells[m] : m \in Index} = 1 .. N

ValidPuzzle ==
  \A k \in Index : Complete(Row(k)) /\ Complete(Column(k)) /\ Complete(Subgrid(k))

\* The verdict is that of the puzzle: "not valid" is only said of an invalid
\* one, and "valid" of a valid one, unless the uninitialised field is -1 by
\* chance, and the columns are not looked at.
VerdictRight ==
  /\ verdict = "not valid" => ~ ValidPuzzle
  /\ verdict = "valid" /\ column # -1 => ValidPuzzle

\* The two ways main() could find the verdict, by the flag or by the entries of
\* all threads, come to the same, as its comment says.
EitherWay == verdict # "none" => (verdict = "valid" <=> \A t \in Threads : results[t] = 1)

\* main() comes to a verdict.
Concludes == <>(verdict # "none")

=============================================================================
