----------------------------- MODULE PipeSearch -----------------------------
(***************************************************************************)
(* pipe.cpp: a pipe in each direction.  fork() gives both processes both   *)
(* ends of both pipes; a reader meets the end of a pipe when it is empty   *)
(* and nobody holds its write end any more, the reader included.           *)
(***************************************************************************)
EXTENDS StreamSearch

Init ==
  /\ program = "pipe"
  /\ file \in Files \union {MISSING}
  /\ FreshRun("close")
  /\ sem = 0

-----------------------------------------------------------------------------
ParentCloses ==
  /\ parent = "close"
  /\ parent' = "send"
  /\ down_writers' = down_writers \ {"parent"}
  /\ UNCHANGED <<cnt, output, childs, up, down, up_writers>>

SendLine ==
  /\ parent = "send"
  /\ MoreToSend
  /\ Fits(up)
  /\ up' = Append(up, file[cnt + 1])
  /\ cnt' = cnt + 1
  /\ UNCHANGED <<parent, output, childs, down, writers>>

\* also the way of a file that could not be opened
CloseSend ==
  /\ parent = "send"
  /\ ~ MoreToSend
  /\ parent' = "receive"
  /\ up_writers' = up_writers \ {"parent"}
  /\ UNCHANGED <<cnt, output, childs, up, down, down_writers>>

ReceiveLine ==
  /\ parent = "receive"
  /\ down # <<>>
  /\ output' = Append(output, Head(down))
  /\ down' = Tail(down)
  /\ UNCHANGED <<parent, cnt, childs, up, writers>>

ReceiveEnd ==
  /\ parent = "receive"
  /\ down = <<>>
  /\ down_writers = {}
  /\ parent' = "wait"
  /\ UNCHANGED <<cnt, output, childs, up, down, writers>>

WaitForChild ==
  /\ parent = "wait"
  /\ child = "exited"
  /\ parent' = "done"
  /\ UNCHANGED <<cnt, output, childs, up, down, writers>>

-----------------------------------------------------------------------------
\* fault: the child keeps the write end of the pipe it reads from
KeptOpen == {}

ClosedByChild == {"child"}

ChildCloses ==
  /\ child = "close"
  /\ child' = "read"
  /\ up_writers' = up_writers \ ClosedByChild
  /\ UNCHANGED <<parents, stline, up, down, down_writers>>

ReadLine ==
  /\ child = "read"
  /\ up # <<>>
  /\ KeepIfMatching(Head(up))
  /\ up' = Tail(up)
  /\ UNCHANGED <<parents, child, down, writers>>

\* fault: an empty pipe is taken for one at its end
EmptyIsEnd == up = <<>>

AtEnd == up = <<>> /\ up_writers = {}

ReadEnd ==
  /\ child = "read"
  /\ AtEnd
  /\ child' = "write"
  /\ stline' \in Alphabetical(stline)
  /\ UNCHANGED <<parents, up, down, writers>>

WriteLine ==
  /\ child = "write"
  /\ stline # <<>>
  /\ Fits(down)
  /\ down' = Append(down, Head(stline))
  /\ stline' = Tail(stline)
  /\ UNCHANGED <<parents, child, up, writers>>

\* close() of both ends it still has, and exit()
Exit ==
  /\ child = "write"
  /\ stline = <<>>
  /\ child' = "exited"
  /\ down_writers' = down_writers \ {"child"}
  /\ UNCHANGED <<parents, stline, up, down, up_writers>>

-----------------------------------------------------------------------------
ParentStep ==
  /\ program = "pipe"
  /\ ParentCloses \/ SendLine \/ CloseSend \/ ReceiveLine \/ ReceiveEnd \/ WaitForChild
  /\ UNCHANGED <<program, file, sem>>

ChildStep ==
  /\ program = "pipe"
  /\ ChildCloses \/ ReadLine \/ ReadEnd \/ WriteLine \/ Exit
  /\ UNCHANGED <<program, file, sem>>

=============================================================================
