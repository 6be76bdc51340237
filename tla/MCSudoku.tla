------------------------------ MODULE MCSudoku ------------------------------
(***************************************************************************)
(* Sudoku for TLC, with digits up to 4: a valid puzzle, one with a fault   *)
(* in two columns only, one in two rows only, one with rows and columns    *)
(* that are right and subgrids that are not, one with a 0 and one with a 5.*)
(***************************************************************************)
EXTENDS Sudoku, Sequences

Grid(rows) == [k \in Index |-> [m \in Index |-> rows[k + 1][m + 1]]]

Valid       == <<<<1, 2, 3, 4>>, <<3, 4, 1, 2>>, <<2, 1, 4, 3>>, <<4, 3, 2, 1>>>>
BadColumns  == <<<<1, 2, 3, 4>>, <<3, 4, 1, 2>>, <<1, 2, 4, 3>>, <<4, 3, 2, 1>>>>
BadRows     == <<<<1, 2, 3, 4>>, <<3, 4, 2, 1>>, <<2, 1, 1, 3>>, <<4, 3, 4, 2>>>>
BadSubgrids == <<<<1, 2, 3, 4>>, <<2, 3, 4, 1>>, <<3, 4, 1, 2>>, <<4, 1, 2, 3>>>>

SmallPuzzles ==
  {Grid(Valid), Grid(BadColumns), Grid(BadRows), Grid(BadSubgrids),
   [Grid(Valid) EXCEPT ![3][3] = 0], [Grid(Valid) EXCEPT ![3][3] = 5]}

=============================================================================
