--------------------------- MODULE FileSystemLoop ---------------------------
(***************************************************************************)
(* The command loop of lab06: fgets() fills the line buffer, the line is   *)
(* matched against the commands in turn, the command runs or is refused.   *)
(* The loop does not look at what fgets() returns: at the end of the input *)
(* the buffer keeps the line before it, which is executed again.           *)
(***************************************************************************)
EXTENDS FileSystemPersistence

VARIABLES
  line,   \* what the buffer `command' holds
  eof     \* standard input is at its end

loopvars == <<allvars, line, eof>>

Lines ==
  [op : {"create", "destroy", "open"}, filename : Names]
    \union [op : {"close"}, index : Slots]
    \union [op : {"read", "write"}, index : Slots, count : Counts]
    \union [op : {"lseek"}, index : Slots, pos : Positions]
    \union [op : {"directory", "exit", "invalid"}]

\* The buffer has no initial value.  Of what it can hold, only text that starts
\* like a command would be acted on; it is taken to hold none.
Unset == [op |-> "invalid"]

-----------------------------------------------------------------------------
Effect(l) ==
  \/ l.op = "create"  /\ Create(l.filename)
  \/ l.op = "destroy" /\ Destroy(l.filename)
  \/ l.op = "open"    /\ Open(l.filename)
  \/ l.op = "close"   /\ Close(l.index)
  \/ l.op = "read"    /\ Read(l.index, l.count)
  \/ l.op = "write"   /\ WriteBegin(l.index, l.count)
  \/ l.op = "lseek"   /\ Lseek(l.index, l.pos)

\* the commands that only print: refused ones, the listing, unknown ones
OnlyPrints(l) ==
  \/ l.op = "create"  /\ Named(EMPTY) = {}
  \/ l.op = "destroy" /\ Named(l.filename) = {}
  \/ l.op = "open"    /\ (Named(l.filename) = {} \/ ClosedHandles = {})
  \/ l.op \in {"close", "read", "write", "lseek"} /\ ~ IsOpen(l.index)
  \/ l.op \in {"directory", "invalid"}

Execute(l) ==
  /\ pc = "command"
  /\ \/ Effect(l) /\ UNCHANGED files
     \/ OnlyPrints(l) /\ UNCHANGED allvars
     \/ l.op = "exit" /\ Exit

\* one turn of the loop, by what fgets() finds
ReadLine ==
  /\ ~ eof
  /\ \E l \in Lines : Execute(l) /\ line' = l
  /\ UNCHANGED eof

MeetEof ==
  /\ ~ eof
  /\ eof' = TRUE
  /\ Execute(line)
  /\ UNCHANGED line

TurnAfterEof ==
  /\ eof
  /\ Execute(line)
  /\ UNCHANGED <<line, eof>>

\* the turns of the loops inside write() and the save
Work ==
  /\ (WriteStep /\ UNCHANGED files) \/ SaveStep
  /\ UNCHANGED <<line, eof>>

Restart ==
  /\ Start
  /\ line' = Unset
  /\ eof' = FALSE

LInit == PInit /\ line = Unset /\ eof = FALSE

LNext ==
  \/ ReadLine
  \/ MeetEof
  \/ TurnAfterEof
  \/ Work
  \/ Kill /\ UNCHANGED <<line, eof>>
  \/ Restart

\* The program runs on when it has something to do; nobody has to type a line,
\* to kill the program or to start it again.
LSpec == LInit /\ [][LNext]_loopvars /\ WF_loopvars(Work) /\ WF_loopvars(TurnAfterEof)

-----------------------------------------------------------------------------
(* Properties.                                                             *)

\* The loops of write() and of the save end, also when the disk is full before a
\* write is done, be it with blocks that a kill has left marked for nobody: every
\* command gets back to the prompt or, for `exit', to the end of the program.
CommandsEnd == pc # "command" ~> pc = "command" \/ Stopped

\* Comment in main(): commands are read in a loop until EOF, which ends it.
EofExits == eof ~> Stopped

=============================================================================
