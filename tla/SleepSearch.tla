---------------------------- MODULE SleepSearch ----------------------------
(***************************************************************************)
(* magic/socketpair.cpp: the socket pair search without the semaphore.     *)
(* Instead of waiting for the child the parent sleeps for five seconds; a  *)
(* sleep orders nothing, so its end may come before or after any step of   *)
(* the child.  The rest is as in SocketPairSearch.                         *)
(***************************************************************************)
EXTENDS StreamSearch

Socket == INSTANCE SocketPairSearch

Init ==
  /\ program = "sleep"
  /\ file \in Files \union {MISSING}
  /\ FreshRun("work")
  /\ sem = 0

WakeUp ==
  /\ parent = "wait"
  /\ parent' = "receive"
  /\ UNCHANGED <<cnt, output, childs, up, down, sem>>

Sort ==
  /\ child = "post"
  /\ stline' \in Alphabetical(stline)
  /\ child' = "write"
  /\ UNCHANGED <<parents, up, down, sem>>

ParentStep ==
  /\ program = "sleep"
  /\ Socket!SendLine \/ Socket!SendEnd \/ Socket!SkipFile \/ WakeUp \/ Socket!ReceiveLine
  /\ UNCHANGED <<program, file, writers>>

ChildStep ==
  /\ program = "sleep"
  /\ Socket!ReadLine \/ Sort \/ Socket!WriteLine \/ Socket!WriteEnd
  /\ UNCHANGED <<program, file, writers>>

=============================================================================
