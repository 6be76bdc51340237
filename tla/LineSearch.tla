---------------------------- MODULE LineSearch -----------------------------
(***************************************************************************)
(* What a search of Lab03 promises, however its two processes talk to each *)
(* other: the output of a run is the matching lines of its file in the     *)
(* order of the alphabet, delivered one by one, and the run is over when   *)
(* all of them are there.  A run can be cut off, and be followed by        *)
(* another one.                                                            *)
(*                                                                         *)
(* A line is a number, smaller where it comes first in the alphabet;       *)
(* whether the search word is found in it is a fact about the line.        *)
(***************************************************************************)
EXTENDS Integers, Sequences, FiniteSets

CONSTANTS
  Matching,  \* the lines in which the search word is found
  Files      \* the files that are searched: sequences of lines

VARIABLES
  file,    \* the lines of the file that is searched
  output,  \* the lines that were delivered
  over     \* the run has come to its end

vars == <<file, output, over>>

Copies(line, lines) == Cardinality({k \in DOMAIN lines : lines[k] = line})

\* the file has the line more often than it was delivered
Missing(line) == Copies(line, output) < Copies(line, file)

Start ==
  /\ file' \in Files
  /\ output' = <<>>
  /\ over' = FALSE

Deliver ==
  /\ ~ over
  /\ \E line \in Matching :
       /\ Missing(line)
       /\ \A other \in Matching : Missing(other) => line <= other
       /\ output' = Append(output, line)
  /\ UNCHANGED <<file, over>>

Finish ==
  /\ \A line \in Matching : ~ Missing(line)
  /\ over' = TRUE
  /\ UNCHANGED <<file, output>>

Init == file \in Files /\ output = <<>> /\ over = FALSE

Spec == Init /\ [][Start \/ Deliver \/ Finish]_vars

=============================================================================
