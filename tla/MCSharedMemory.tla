-------------------------- MODULE MCSharedMemory ----------------------------
(***************************************************************************)
(* SharedMemory for TLC: an empty file, files in and out of order, with    *)
(* lines that match twice, and one in which no line matches.  Three lines  *)
(* for two threads leave the last thread one more than the first.          *)
(***************************************************************************)
EXTENDS SharedMemory

SearchFiles == {<<>>, <<2, 1>>, <<3, 3, 3>>, <<2, 3, 1>>, <<1, 2, 1>>}

=============================================================================
