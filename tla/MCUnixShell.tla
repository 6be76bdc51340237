---------------------------- MODULE MCUnixShell -----------------------------
(***************************************************************************)
(* UnixShell for TLC: two commands, with and without an ampersand, a       *)
(* command that starts like `exit', a blank line, and repeats of the last, *)
(* of the first and of lines that are not there.  Without their last       *)
(* characters these are one another, down to the empty text; `history' and *)
(* `exit' are more characters than one away from l.                        *)
(***************************************************************************)
EXTENDS UnixShell, TLC

CONSTANTS
  l, ls, l_and, ls_and,          \* l, ls, l&, ls&
  exitx, space,
  no, no_1, no_15, last_x        \* !, !1, !15, !!x

White        == {EMPTY, space}
Numbers      == (no :> 0) @@ (no_1 :> 1) @@ (no_15 :> 15) @@ (last_x :> 0)
InBackground == {l_and, ls_and}
Words        == (l :> l) @@ (ls :> ls) @@ (exitx :> exitx) @@ (l_and :> l) @@ (ls_and :> ls)
AllTexts     == DOMAIN Words \union White \union DOMAIN Numbers \union {LAST, EXIT, HISTORY}

CutOff ==
  (ls_and :> ls) @@ (l_and :> l) @@ (ls :> l) @@ (l :> EMPTY) @@ (space :> EMPTY)
    @@ (exitx :> EXIT) @@ (EXIT :> l) @@ (HISTORY :> l)
    @@ (no_15 :> no_1) @@ (no_1 :> no) @@ (last_x :> LAST) @@ (LAST :> no) @@ (no :> EMPTY)

=============================================================================
