----------------------------- MODULE UnixShell ------------------------------
(***************************************************************************)
(* The shell of Lab01: the turns of its loop, the history, and the child   *)
(* processes it starts, in the foreground or, with an ampersand, in the    *)
(* background.  For a command in the foreground it calls wait(), which     *)
(* returns when any child has ended, and says which one to nobody.         *)
(*                                                                         *)
(* A line is a text, of which the model knows no more than the shell looks *)
(* at: whether it is blank, a repeat, a word of the shell or a command, and *)
(* what is left of it without its last character.  When the input has      *)
(* ended, fgets() leaves its buffer as it is, and the loop goes on with    *)
(* what the last turn has left there, less one character each turn.        *)
(***************************************************************************)
EXTENDS Integers, Sequences, FiniteSets

CONSTANTS
  Texts,             \* what the buffer can hold
  EMPTY,             \* the text of length 0
  Blanks,            \* texts of white space only, the empty one among them
  LAST,              \* the text "!!"
  Number,            \* of the other texts that begin with an exclamation mark: n
  EXIT,              \* the text "exit"
  HISTORY,           \* the text "history"
  Background,        \* commands that end with an ampersand
  FirstWord,         \* what strtok() leaves of a command: its first word
  Cut,               \* what is left of a text without its last character
  HISTORY_MAX_SIZE,  \* entries of the history: 10000 in the code
  MAX_JOBS           \* bound: no more lines are typed after so many commands

Repeats  == {LAST} \union DOMAIN Number
Programs == Texts \ (Blanks \union Repeats \union {EXIT, HISTORY})

ASSUME ShellAssumption ==
  /\ Blanks \union Repeats \union {EXIT, HISTORY} \subseteq Texts
  /\ EMPTY \in Blanks
  /\ LAST \notin DOMAIN Number
  /\ EXIT # HISTORY
  /\ Blanks \intersect Repeats = {}
  /\ {EXIT, HISTORY} \intersect (Blanks \union Repeats) = {}
  /\ Background \subseteq Programs
  /\ FirstWord \in [Programs -> Texts]
  /\ Cut \in [Texts \ {EMPTY} -> Texts]
  /\ HISTORY_MAX_SIZE \in Nat \ {0}
  /\ MAX_JOBS \in Nat

VARIABLES
  shell,    \* "prompt", "wait", "exited"
  input,    \* what the buffer holds
  history,  \* the lines that were recorded
  jobs,     \* the children in the order they were started, and their state
  eof       \* the input has ended

vars == <<shell, input, history, jobs, eof>>

Unreaped == {k \in DOMAIN jobs : jobs[k].state # "reaped"}

-----------------------------------------------------------------------------
(* A turn of the loop, from the text in the buffer to the next prompt or   *)
(* to wait().                                                              *)

\* fault: the ampersand is cut off before the line is recorded
RecordedCut(line) ==
  Append(history, IF line \in Background THEN FirstWord[line] ELSE line)

\* a full history takes no more lines
Recorded(line) ==
  IF Len(history) < HISTORY_MAX_SIZE THEN Append(history, line) ELSE history

ShowHistory(line) ==
  /\ line = HISTORY
  /\ input' = line
  /\ UNCHANGED <<shell, jobs>>

\* fault: the shell waits for a command in the background as well
AlwaysWait(line) == "wait"

AfterFork(line) == IF line \in Background THEN "prompt" ELSE "wait"

Launch(line) ==
  /\ line \in Programs
  /\ input' = FirstWord[line]
  /\ jobs' = Append(jobs, [line |-> line, state |-> "running"])
  /\ shell' = AfterFork(line)

ForkFails(line) ==
  /\ line \in Programs
  /\ input' = FirstWord[line]
  /\ shell' = "exited"
  /\ UNCHANGED jobs

Execute(line) ==
  /\ history' = Recorded(line)
  /\ ShowHistory(line) \/ Launch(line) \/ ForkFails(line)

\* the entry that !! or !n stands for, if there is one
Repeated(text) ==
  {n \in DOMAIN history : IF text = LAST THEN n = Len(history) ELSE n = Number[text]}

\* The line is copied from the history into the buffer.  (It cannot be `exit',
\* which is not recorded.)
Repeat(text) ==
  /\ text \in Repeats
  /\ \E n \in Repeated(text) : Execute(history[n])

\* a blank line, and a repeat of what is not in the history
Skip(text) ==
  /\ text \in Blanks \/ (text \in Repeats /\ Repeated(text) = {})
  /\ input' = text
  /\ UNCHANGED <<shell, history, jobs>>

Leave(text) ==
  /\ text = EXIT
  /\ input' = text
  /\ shell' = "exited"
  /\ UNCHANGED <<history, jobs>>

Turn(text) == Skip(text) \/ Repeat(text) \/ Leave(text) \/ Execute(text)

-----------------------------------------------------------------------------
(* Where the text comes from.                                              *)

TypeLine ==
  /\ shell = "prompt"
  /\ ~ eof
  /\ Len(jobs) < MAX_JOBS
  /\ \E text \in Texts : Turn(text)
  /\ UNCHANGED eof

EndInput ==
  /\ shell = "prompt"
  /\ ~ eof
  /\ eof' = TRUE
  /\ UNCHANGED <<shell, input, history, jobs>>

\* fault: the buffer is executed as it is
Uncut(text) == text

\* Of an empty text the byte before the buffer is cleared, which is undefined;
\* here that byte is none of the variables'.
Leftover(text) == IF text = EMPTY THEN EMPTY ELSE Cut[text]

\* a turn after the end of the input
TurnAtEof ==
  /\ shell = "prompt"
  /\ eof
  /\ Turn(Leftover(input))
  /\ UNCHANGED eof

-----------------------------------------------------------------------------
(* The children, and wait().                                               *)

\* the program comes to its end, or execvp() has failed
End(k) ==
  /\ jobs[k].state = "running"
  /\ jobs' = [jobs EXCEPT ![k].state = "ended"]
  /\ UNCHANGED <<shell, input, history, eof>>

Ended == {k \in DOMAIN jobs : jobs[k].state = "ended"}

\* fault: the shell waits for all its children
AllEnded == IF \A k \in DOMAIN jobs : jobs[k].state # "running" THEN Ended ELSE {}

\* the children wait() can return for
Waitable == Ended

Wait ==
  /\ shell = "wait"
  /\ \E k \in Waitable : jobs' = [jobs EXCEPT ![k].state = "reaped"]
  /\ shell' = "prompt"
  /\ UNCHANGED <<input, history, eof>>

-----------------------------------------------------------------------------
\* the buffer has no initial value
Init ==
  /\ shell = "prompt"
  /\ input \in Texts
  /\ history = <<>>
  /\ jobs = <<>>
  /\ eof = FALSE

Next ==
  \/ TypeLine \/ EndInput \/ TurnAtEof
  \/ \E k \in DOMAIN jobs : End(k)
  \/ Wait

EndForeground == \E k \in DOMAIN jobs : jobs[k].line \notin Background /\ End(k)

\* The shell runs on while it need not wait for a line, and a command in the
\* foreground comes to its end; one in the background may run for ever.
Spec ==
  /\ Init
  /\ [][Next]_vars
  /\ WF_vars(Wait)
  /\ WF_vars(TurnAtEof)
  /\ WF_vars(EndForeground)

-----------------------------------------------------------------------------
(* Properties.                                                             *)

\* the entries of the history that are commands, and the place of one among them
Commands == {n \in DOMAIN history : history[n] \in Programs}
Place(n) == Cardinality({m \in Commands : m <= n})

\* The history is what was executed, ampersands included, so that a repeated
\* line runs as it did at first: its commands are those that were started, in
\* their order, all of them as long as it is not full, and the first of them from
\* then on.  (Repeats and leftovers are recorded as the lines they stand for.)
\* READMELAB1.md has a full history drop its oldest line, so that !! runs the most
\* recent command; the code drops the new lines, and !! runs the last one recorded.
HistoryIsWhatRan ==
  shell # "exited" =>
    /\ \A n \in Commands : Place(n) \in DOMAIN jobs /\ jobs[Place(n)].line = history[n]
    /\ Len(history) < HISTORY_MAX_SIZE => Cardinality(Commands) = Len(jobs)

\* At the prompt a command in the foreground can only be unfinished, or not
\* waited for, if one in the background was waited for in its stead: there are
\* as many of these as of those.
WaitsInStead ==
  shell = "prompt" =>
    Cardinality({k \in Unreaped : jobs[k].line \notin Background})
      = Cardinality({k \in DOMAIN jobs \ Unreaped : jobs[k].line \in Background})

\* The prompt comes back, also when the commands in the background never end.
PromptReturns == shell = "wait" ~> shell # "wait"

\* After the end of the input the shell executes what is left in its buffer,
\* which may be a repeat or a command again, and what is left of that, but not for
\* ever: it leaves, when what is left is `exit' or fork() fails, or else comes to
\* the empty text and prints prompts from then on.
LeftoversRunOut ==
  eof ~> [](shell = "exited" \/ (shell = "prompt" /\ input = EMPTY))

=============================================================================
