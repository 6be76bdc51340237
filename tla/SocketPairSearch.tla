-------------------------- MODULE SocketPairSearch --------------------------
(***************************************************************************)
(* socketpair.cpp: one stream socket pair for both directions.  Both       *)
(* processes keep both sockets open, so neither ever meets the end of a    *)
(* stream: a line of its own, END, marks where one side has sent all.  The *)
(* parent waits for the named semaphore /test, which the child posts when  *)
(* it has read everything, before it reads.  The semaphore is never        *)
(* removed, so it keeps its value when a Ctrl-C ends both processes.       *)
(***************************************************************************)
EXTENDS StreamSearch

Init ==
  /\ program = "socketpair"
  /\ file \in Files \union {MISSING}
  /\ FreshRun("work")
  /\ sem = 0

-----------------------------------------------------------------------------
SendLine ==
  /\ parent = "work"
  /\ MoreToSend
  /\ Fits(up)
  /\ up' = Append(up, file[cnt + 1])
  /\ cnt' = cnt + 1
  /\ UNCHANGED <<parent, output, childs, down, sem>>

SendEnd ==
  /\ parent = "work"
  /\ file # MISSING
  /\ ~ MoreToSend
  /\ Fits(up)
  /\ up' = Append(up, END)
  /\ parent' = "wait"
  /\ UNCHANGED <<cnt, output, childs, down, sem>>

\* a file that could not be opened is not reported to the child
SkipFile ==
  /\ parent = "work"
  /\ file = MISSING
  /\ parent' = "wait"
  /\ UNCHANGED <<cnt, output, childs, up, down, sem>>

Wait ==
  /\ parent = "wait"
  /\ sem > 0
  /\ sem' = sem - 1
  /\ parent' = "receive"
  /\ UNCHANGED <<cnt, output, childs, up, down>>

ReceiveLine ==
  /\ parent = "receive"
  /\ down # <<>>
  /\ down' = Tail(down)
  /\ \/ /\ Head(down) = END
        /\ parent' = "done"
        /\ UNCHANGED output
     \/ /\ Head(down) # END
        /\ output' = Append(output, Head(down))
        /\ UNCHANGED parent
  /\ UNCHANGED <<cnt, childs, up, sem>>

-----------------------------------------------------------------------------
ReadLine ==
  /\ child = "work"
  /\ up # <<>>
  /\ up' = Tail(up)
  /\ \/ Head(up) = END /\ child' = "post" /\ UNCHANGED stline
     \/ Head(up) # END /\ KeepIfMatching(Head(up)) /\ UNCHANGED child
  /\ UNCHANGED <<parents, down, sem>>

Post ==
  /\ child = "post"
  /\ sem' = sem + 1
  /\ stline' \in Alphabetical(stline)
  /\ child' = "write"
  /\ UNCHANGED <<parents, up, down>>

WriteLine ==
  /\ child = "write"
  /\ stline # <<>>
  /\ Fits(down)
  /\ down' = Append(down, Head(stline))
  /\ stline' = Tail(stline)
  /\ UNCHANGED <<parents, child, up, sem>>

WriteEnd ==
  /\ child = "write"
  /\ stline = <<>>
  /\ Fits(down)
  /\ down' = Append(down, END)
  /\ child' = "exited"
  /\ UNCHANGED <<parents, stline, up, sem>>

-----------------------------------------------------------------------------
ParentStep ==
  /\ program = "socketpair"
  /\ SendLine \/ SendEnd \/ SkipFile \/ Wait \/ ReceiveLine
  /\ UNCHANGED <<program, file, writers>>

ChildStep ==
  /\ program = "socketpair"
  /\ ReadLine \/ Post \/ WriteLine \/ WriteEnd
  /\ UNCHANGED <<program, file, writers>>

\* a Ctrl-C, which reaches both processes
Kill ==
  /\ program = "socketpair"
  /\ parent \notin {"done", "killed"}
  /\ sem < MAX_POSTS
  /\ parent' = "killed"
  /\ child' = "killed"
  /\ UNCHANGED <<program, file, cnt, output, stline, up, down, writers, sem>>

\* the next run, with a socket pair of its own and the semaphore as it is
Start ==
  /\ program = "socketpair"
  /\ parent \in {"done", "killed"}
  /\ child \in {"exited", "killed"}
  /\ file' \in Files \union {MISSING}
  /\ parent' = "work"
  /\ cnt' = 0
  /\ output' = <<>>
  /\ child' = "work"
  /\ stline' = <<>>
  /\ up' = <<>>
  /\ down' = <<>>
  /\ UNCHANGED <<program, writers, sem>>

=============================================================================
