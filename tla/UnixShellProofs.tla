-------------------------- MODULE UnixShellProofs ---------------------------
(***************************************************************************)
(* Proofs about the shell, for all texts, whatever they are without their  *)
(* last character, and every size of the history: that wait() takes one    *)
(* child for another only one for one, and that the history is what ran.   *)
(***************************************************************************)
EXTENDS UnixShell, FiniteSetTheorems, SequenceTheorems, TLAPS

-----------------------------------------------------------------------------
(* The inductive invariant.                                                *)

Jobs == [line : Programs, state : {"running", "ended", "reaped"}]

Types ==
  /\ shell \in {"prompt", "wait", "exited"}
  /\ input \in Texts
  /\ history \in Seq(Texts)
  /\ jobs \in Seq(Jobs)

\* the commands in the foreground that the shell has not waited for, and those in
\* the background that it has
Left  == {k \in Unreaped : jobs[k].line \notin Background}
Taken == {k \in DOMAIN jobs \ Unreaped : jobs[k].line \in Background}

\* While the shell waits there is one more of the first than of the second.
Balance ==
  /\ shell = "prompt" => Cardinality(Left) = Cardinality(Taken)
  /\ shell = "wait" => Cardinality(Left) = Cardinality(Taken) + 1

Inv == Types /\ Balance /\ HistoryIsWhatRan

LEMMA InvInit == Init => Inv
<1> SUFFICES ASSUME Init PROVE Inv
  OBVIOUS
<1>1. jobs = <<>> /\ history = <<>> /\ DOMAIN jobs = {} /\ DOMAIN history = {}
  BY DEF Init
<1>2. Types
  BY DEF Init, Types
<1>3. Left = {} /\ Taken = {} /\ Commands = {}
  BY <1>1 DEF Left, Taken, Unreaped, Commands
<1>4. Balance
  BY <1>3 DEF Balance, Init
<1>5. Cardinality(Commands) = Len(jobs)
  BY <1>1, <1>3, FS_EmptySet
<1> QED BY <1>2, <1>3, <1>4, <1>5 DEF Inv, HistoryIsWhatRan

-----------------------------------------------------------------------------
(* Finite sets.                                                            *)

LEMMA SetFacts ==
  ASSUME Types
  PROVE  /\ DOMAIN jobs = 1 .. Len(jobs) /\ Len(jobs) \in Nat
         /\ DOMAIN history = 1 .. Len(history) /\ Len(history) \in Nat
         /\ IsFiniteSet(Left) /\ IsFiniteSet(Taken) /\ IsFiniteSet(Commands)
         /\ Cardinality(Left) \in Nat /\ Cardinality(Taken) \in Nat
         /\ Cardinality(Commands) \in Nat
<1>1. /\ DOMAIN jobs = 1 .. Len(jobs) /\ Len(jobs) \in Nat
      /\ DOMAIN history = 1 .. Len(history) /\ Len(history) \in Nat
  BY DEF Types
<1>2. IsFiniteSet(1 .. Len(jobs)) /\ IsFiniteSet(1 .. Len(history))
  BY <1>1, FS_Interval
<1>3. Left \in SUBSET (1 .. Len(jobs)) /\ Taken \in SUBSET (1 .. Len(jobs))
      /\ Commands \in SUBSET (1 .. Len(history))
  BY <1>1 DEF Left, Taken, Unreaped, Commands
<1>4. IsFiniteSet(Left) /\ IsFiniteSet(Taken) /\ IsFiniteSet(Commands)
  BY <1>2, <1>3, FS_Subset
<1> QED BY <1>1, <1>4, FS_CardinalityType

-----------------------------------------------------------------------------
(* A line is executed.                                                     *)

LEMMA TypesExecute ==
  ASSUME Types, NEW line \in Texts, Execute(line)
  PROVE  Types'
<1>1. history' \in Seq(Texts)
  BY DEF Types, Execute, Recorded
<1>2. CASE ShowHistory(line)
  BY <1>1, <1>2 DEF ShowHistory, Types
<1>3. CASE Launch(line)
  <2>1. line \in Programs /\ FirstWord[line] \in Texts
    BY <1>3, ShellAssumption DEF Launch
  <2>2. [line |-> line, state |-> "running"] \in Jobs
    BY <2>1 DEF Jobs
  <2>3. jobs' \in Seq(Jobs)
    BY <1>3, <2>2 DEF Launch, Types
  <2> QED BY <1>1, <1>3, <2>1, <2>3 DEF Launch, AfterFork, Types
<1>4. CASE ForkFails(line)
  <2>1. FirstWord[line] \in Texts
    BY <1>4, ShellAssumption DEF ForkFails
  <2> QED BY <1>1, <1>4, <2>1 DEF ForkFails, Types
<1> QED BY <1>2, <1>3, <1>4 DEF Execute

LEMMA BalanceExecute ==
  ASSUME Types, Balance, shell = "prompt", NEW line \in Texts, Execute(line)
  PROVE  Balance'
<1>1. CASE ShowHistory(line)
  BY <1>1 DEF ShowHistory, Balance, Left, Taken, Unreaped
<1>2. CASE ForkFails(line)
  BY <1>2 DEF ForkFails, Balance
<1>3. CASE Launch(line)
  <2> DEFINE new == Len(jobs) + 1
             job == [line |-> line, state |-> "running"]
  <2>1. /\ job.line = line /\ job.state = "running" /\ jobs \in Seq(Jobs) /\ job \in Jobs
        /\ Len(jobs) \in Nat
    BY <1>3 DEF Types, Jobs, Launch
  <2> HIDE DEF job
  <2>2. /\ DOMAIN jobs' = 1 .. new /\ jobs'[new] = job
        /\ \A k \in 1 .. Len(jobs) : jobs'[k] = jobs[k]
    <3>1. jobs' = Append(jobs, job)
      BY <1>3 DEF Launch, job
    <3> QED BY <2>1, <3>1
  <2>3. DOMAIN jobs = 1 .. Len(jobs) /\ DOMAIN jobs' = DOMAIN jobs \union {new}
        /\ new \notin DOMAIN jobs
    BY <2>1, <2>2
  <2>4. Taken' = Taken
    BY <2>1, <2>2, <2>3 DEF Taken, Unreaped
  <2>5. CASE line \in Background
    <3>1. Left' = Left
      BY <2>1, <2>2, <2>3, <2>5 DEF Left, Unreaped
    <3>2. shell' = "prompt"
      BY <1>3, <2>5 DEF Launch, AfterFork
    <3> QED BY <2>4, <3>1, <3>2 DEF Balance
  <2>6. CASE line \notin Background
    <3>1. Left' = Left \union {new}
      BY <2>1, <2>2, <2>3, <2>6 DEF Left, Unreaped
    <3>2. new \notin Left
      BY <2>3 DEF Left, Unreaped
    <3>3. Cardinality(Left') = Cardinality(Left) + 1
      BY <3>1, <3>2, SetFacts, FS_AddElement
    <3>4. shell' = "wait"
      BY <1>3, <2>6 DEF Launch, AfterFork
    <3> QED BY <2>4, <3>3, <3>4 DEF Balance
  <2> QED BY <2>5, <2>6
<1> QED BY <1>1, <1>2, <1>3 DEF Execute

\* A line that is recorded comes last; the places of the others stay.
LEMMA RecordedFacts ==
  ASSUME Types, NEW line \in Texts, history' = Append(history, line)
  PROVE  /\ Len(history') = Len(history) + 1 /\ history'[Len(history) + 1] = line
         /\ Len(history) + 1 \notin Commands
         /\ Commands' = Commands \union (IF line \in Programs THEN {Len(history) + 1} ELSE {})
         /\ \A n \in Commands : history'[n] = history[n] /\ Place(n)' = Place(n)
<1> DEFINE last == Len(history) + 1
<1>1. /\ DOMAIN history = 1 .. Len(history) /\ Len(history) \in Nat
      /\ DOMAIN history' = 1 .. last /\ Len(history') = last /\ history'[last] = line
      /\ \A n \in 1 .. Len(history) : history'[n] = history[n]
  BY DEF Types
<1>2. DOMAIN history' = DOMAIN history \union {last} /\ last \notin DOMAIN history
  BY <1>1
<1>3. Commands' = Commands \union (IF line \in Programs THEN {last} ELSE {})
  BY <1>1, <1>2 DEF Commands
<1>4. last \notin Commands
  BY <1>2 DEF Commands
<1>5. ASSUME NEW n \in Commands PROVE history'[n] = history[n] /\ Place(n)' = Place(n)
  <2>1. n \in 1 .. Len(history) /\ ~ (last <= n)
    BY <1>1 DEF Commands
  <2>2. {m \in Commands' : m <= n} = {m \in Commands : m <= n}
    BY <1>3, <2>1
  <2> QED BY <1>1, <2>1, <2>2 DEF Place
<1> QED BY <1>1, <1>3, <1>4, <1>5

LEMMA HistoryExecute ==
  ASSUME Types, HistoryIsWhatRan, shell = "prompt", NEW line \in Texts, Execute(line)
  PROVE  HistoryIsWhatRan'
<1> SUFFICES ASSUME shell' # "exited" PROVE HistoryIsWhatRan'
  BY DEF HistoryIsWhatRan
<1>0. PICK last \in Nat : last = Len(history) + 1
  BY SetFacts
<1>1. /\ \A n \in Commands : Place(n) \in DOMAIN jobs /\ jobs[Place(n)].line = history[n]
      /\ Len(history) < HISTORY_MAX_SIZE => Cardinality(Commands) = Len(jobs)
  BY DEF HistoryIsWhatRan
<1>2. /\ DOMAIN jobs = 1 .. Len(jobs) /\ Len(jobs) \in Nat /\ Len(history) \in Nat
      /\ IsFiniteSet(Commands)
  BY SetFacts
<1>3. /\ DOMAIN jobs \subseteq DOMAIN jobs'
      /\ \A k \in DOMAIN jobs : jobs'[k].line = jobs[k].line
      /\ DOMAIN jobs' = 1 .. Len(jobs')
      /\ \/ line \notin Programs /\ Len(jobs') = Len(jobs)
         \/ /\ line \in Programs /\ Len(jobs') = Len(jobs) + 1
            /\ jobs'[Len(jobs) + 1].line = line
  <2>1. CASE ShowHistory(line)
    <3>1. HISTORY \notin Programs
      BY DEF Programs
    <3> QED BY <1>2, <2>1, <3>1 DEF ShowHistory
  <2>2. CASE Launch(line)
    <3> DEFINE job == [line |-> line, state |-> "running"]
    <3>1. /\ jobs' = Append(jobs, job) /\ job \in Jobs /\ job.line = line
          /\ jobs \in Seq(Jobs) /\ line \in Programs
      BY <2>2 DEF Launch, Jobs, Types
    <3> HIDE DEF job
    <3>2. /\ DOMAIN jobs' = 1 .. Len(jobs) + 1 /\ Len(jobs') = Len(jobs) + 1
          /\ jobs'[Len(jobs) + 1] = job
          /\ \A k \in 1 .. Len(jobs) : jobs'[k] = jobs[k]
      <4>1. Len(jobs) \in Nat
        BY <1>2
      <4> QED BY <3>1, <4>1
    <3>3. DOMAIN jobs \subseteq DOMAIN jobs'
      BY <1>2, <3>2
    <3> QED BY <1>2, <3>1, <3>2, <3>3
  <2>3. ~ ForkFails(line)
    BY Zenon DEF ForkFails
  <2> QED BY <2>1, <2>2, <2>3 DEF Execute
<1>4. CASE ~ (Len(history) < HISTORY_MAX_SIZE)
  <2>1. history' = history
    BY <1>4 DEF Execute, Recorded
  <2>2. Commands' = Commands /\ \A n \in Commands : Place(n)' = Place(n)
    BY <2>1 DEF Commands, Place
  <2> QED BY <1>1, <1>3, <1>4, <2>1, <2>2 DEF HistoryIsWhatRan
<1>5. CASE Len(history) < HISTORY_MAX_SIZE
  <2>1. history' = Append(history, line) /\ Cardinality(Commands) = Len(jobs)
    BY <1>1, <1>5 DEF Execute, Recorded
  <2>2. /\ history'[last] = line /\ last \notin Commands
        /\ Commands' = Commands \union (IF line \in Programs THEN {last} ELSE {})
        /\ \A n \in Commands : history'[n] = history[n] /\ Place(n)' = Place(n)
    BY <1>0, <2>1, RecordedFacts
  <2>3. \A n \in Commands : Place(n)' \in DOMAIN jobs' /\ jobs'[Place(n)'].line = history'[n]
    BY <1>1, <1>3, <2>2
  <2>4. CASE line \notin Programs
    <3>1. Commands' = Commands /\ Len(jobs') = Len(jobs)
      BY <1>3, <2>2, <2>4
    <3> QED BY <2>1, <2>3, <3>1 DEF HistoryIsWhatRan
  <2>5. CASE line \in Programs
    <3>1. Commands' = Commands \union {last} /\ Len(jobs') = Len(jobs) + 1
      BY <1>3, <2>2, <2>5
    <3>2. Cardinality(Commands') = Len(jobs')
      <4>1. Cardinality(Commands \union {last}) = Cardinality(Commands) + 1
        BY <1>2, <2>2, FS_AddElement
      <4> QED BY <2>1, <3>1, <4>1
    <3>3. Place(last)' = Len(jobs')
      <4>1. \A n \in Commands' : n <= last
        <5>1. \A n \in Commands : n \in Nat /\ n <= Len(history)
          BY SetFacts DEF Commands
        <5> QED BY <1>0, <1>2, <3>1, <5>1
      <4>2. {m \in Commands' : m <= last} = Commands'
        BY <4>1
      <4> QED BY <3>2, <4>2 DEF Place
    <3>4. Len(jobs') \in DOMAIN jobs' /\ jobs'[Len(jobs')].line = history'[last]
      <4>1. Len(jobs') \in DOMAIN jobs'
        <5>1. DOMAIN jobs' = 1 .. Len(jobs')
          BY <1>3
        <5>2. Len(jobs) \in Nat
          BY <1>2
        <5> QED BY <3>1, <5>1, <5>2
      <4>2. jobs'[Len(jobs) + 1].line = line /\ history'[last] = line
        BY <1>3, <2>2, <2>5
      <4> QED BY <3>1, <4>1, <4>2
    <3>5. Place(last)' \in DOMAIN jobs' /\ jobs'[Place(last)'].line = history'[last]
      BY <3>1, <3>3, <3>4
    <3>6. \A n \in Commands' : Place(n)' \in DOMAIN jobs' /\ jobs'[Place(n)'].line = history'[n]
      BY <2>3, <3>1, <3>5
    <3> QED BY <3>2, <3>6, Zenon DEF HistoryIsWhatRan
  <2> QED BY <2>4, <2>5
<1> QED BY <1>4, <1>5

-----------------------------------------------------------------------------
(* The steps.                                                              *)

LEMMA InvExecute ==
  ASSUME Inv, shell = "prompt", NEW line \in Texts, Execute(line)
  PROVE  Inv'
BY TypesExecute, BalanceExecute, HistoryExecute DEF Inv

\* a turn that changes no more than the buffer
LEMMA InvUnmoved ==
  ASSUME Inv, UNCHANGED <<shell, history, jobs>>, input' \in Texts
  PROVE  Inv'
BY DEF Inv, Types, Balance, Left, Taken, Unreaped, HistoryIsWhatRan, Commands, Place

LEMMA InvTurn ==
  ASSUME Inv, shell = "prompt", NEW text \in Texts, Turn(text)
  PROVE  Inv'
<1>1. CASE Skip(text)
  BY <1>1, InvUnmoved DEF Skip
<1>2. CASE Repeat(text)
  <2>1. PICK n \in DOMAIN history : Execute(history[n])
    BY <1>2 DEF Repeat, Repeated
  <2>2. history[n] \in Texts
    BY DEF Inv, Types
  <2> QED BY <2>1, <2>2, InvExecute
<1>3. CASE Leave(text)
  BY <1>3 DEF Leave, Inv, Types, Balance, HistoryIsWhatRan
<1>4. CASE Execute(text)
  BY <1>4, InvExecute
<1> QED BY <1>1, <1>2, <1>3, <1>4 DEF Turn

LEMMA InvTyped == Inv /\ (TypeLine \/ EndInput) => Inv'
<1> SUFFICES ASSUME Inv, TypeLine \/ EndInput PROVE Inv'
  OBVIOUS
<1>1. CASE TypeLine
  BY <1>1, InvTurn DEF TypeLine
<1>2. CASE EndInput
  <2>1. input \in Texts
    BY DEF Inv, Types
  <2> QED BY <1>2, <2>1, InvUnmoved DEF EndInput
<1> QED BY <1>1, <1>2

LEMMA InvTurnAtEof == Inv /\ TurnAtEof => Inv'
<1> SUFFICES ASSUME Inv, TurnAtEof PROVE Inv'
  OBVIOUS
<1>1. Leftover(input) \in Texts
  BY ShellAssumption DEF Leftover, Inv, Types
<1> QED BY <1>1, InvTurn DEF TurnAtEof

\* A child that ends or is waited for keeps its line and its place.
LEMMA MarkFacts ==
  ASSUME Types, NEW k \in DOMAIN jobs, NEW s \in {"ended", "reaped"},
         jobs' = [jobs EXCEPT ![k].state = s]
  PROVE  /\ jobs' \in Seq(Jobs) /\ DOMAIN jobs' = DOMAIN jobs /\ Len(jobs') = Len(jobs)
         /\ \A n \in DOMAIN jobs : jobs'[n].line = jobs[n].line
         /\ \A n \in DOMAIN jobs : jobs'[n].state = IF n = k THEN s ELSE jobs[n].state
<1> DEFINE job == [jobs[k] EXCEPT !.state = s]
<1>1. /\ jobs \in Seq(Jobs) /\ DOMAIN jobs = 1 .. Len(jobs) /\ Len(jobs) \in Nat
      /\ jobs[k] \in Jobs
  BY DEF Types
<1>2. job \in Jobs /\ job.line = jobs[k].line /\ job.state = s
  BY <1>1 DEF Jobs
<1>3. jobs' = [jobs EXCEPT ![k] = job]
  OBVIOUS
<1> HIDE DEF job
<1>4. /\ jobs' \in Seq(Jobs) /\ Len(jobs') = Len(jobs)
      /\ \A n \in 1 .. Len(jobs) : jobs'[n] = IF n = k THEN job ELSE jobs[n]
  BY <1>1, <1>2, <1>3, ExceptSeq
<1> QED BY <1>1, <1>2, <1>4

LEMMA HistoryMarked ==
  ASSUME HistoryIsWhatRan, shell # "exited", UNCHANGED history,
         DOMAIN jobs' = DOMAIN jobs, Len(jobs') = Len(jobs),
         \A n \in DOMAIN jobs : jobs'[n].line = jobs[n].line
  PROVE  HistoryIsWhatRan'
BY DEF HistoryIsWhatRan, Commands, Place

LEMMA InvEnd ==
  ASSUME Inv, NEW k \in DOMAIN jobs, End(k)
  PROVE  Inv'
<1>1. Types /\ UNCHANGED <<shell, input, history>> /\ jobs[k].state = "running"
  BY DEF Inv, End
<1>2. /\ jobs' \in Seq(Jobs) /\ DOMAIN jobs' = DOMAIN jobs /\ Len(jobs') = Len(jobs)
      /\ \A n \in DOMAIN jobs : jobs'[n].line = jobs[n].line
      /\ \A n \in DOMAIN jobs : jobs'[n].state = IF n = k THEN "ended" ELSE jobs[n].state
  BY <1>1, MarkFacts DEF End
<1>3. Types'
  BY <1>1, <1>2 DEF Types
<1>4. Unreaped' = Unreaped
  BY <1>1, <1>2 DEF Unreaped
<1>5. Left' = Left /\ Taken' = Taken
  BY <1>2, <1>4 DEF Left, Taken, Unreaped
<1>6. Balance'
  BY <1>1, <1>5 DEF Inv, Balance
<1>7. HistoryIsWhatRan'
  <2>1. CASE shell = "exited"
    BY <1>1, <2>1 DEF HistoryIsWhatRan
  <2>2. CASE shell # "exited"
    BY <1>1, <1>2, <2>2, HistoryMarked DEF Inv
  <2> QED BY <2>1, <2>2
<1> QED BY <1>3, <1>6, <1>7 DEF Inv

\* wait() returns for a command in the foreground, and there is one less to wait
\* for, or for one in the background, and there is one more that was taken.
LEMMA InvWait == Inv /\ Wait => Inv'
<1> SUFFICES ASSUME Inv, Wait PROVE Inv'
  OBVIOUS
<1>1. PICK k \in Ended : jobs' = [jobs EXCEPT ![k].state = "reaped"]
  BY DEF Wait, Waitable
<1>2. /\ Types /\ UNCHANGED <<input, history>> /\ shell = "wait" /\ shell' = "prompt"
      /\ k \in DOMAIN jobs /\ jobs[k].state = "ended"
  BY DEF Inv, Wait, Ended
<1>3. /\ jobs' \in Seq(Jobs) /\ DOMAIN jobs' = DOMAIN jobs /\ Len(jobs') = Len(jobs)
      /\ \A n \in DOMAIN jobs : jobs'[n].line = jobs[n].line
      /\ \A n \in DOMAIN jobs : jobs'[n].state = IF n = k THEN "reaped" ELSE jobs[n].state
  BY <1>1, <1>2, MarkFacts
<1>4. Types'
  BY <1>2, <1>3 DEF Types
<1>5. Unreaped' = Unreaped \ {k} /\ k \in Unreaped
  BY <1>2, <1>3 DEF Unreaped
<1>6. Cardinality(Left) = Cardinality(Taken) + 1
  BY <1>2 DEF Inv, Balance
<1>7. Cardinality(Left') = Cardinality(Taken')
  <2>1. CASE jobs[k].line \in Background
    <3>1. Left' = Left /\ Taken' = Taken \union {k} /\ k \notin Taken
      BY <1>2, <1>3, <1>5, <2>1 DEF Left, Taken, Unreaped
    <3> QED BY <1>2, <1>6, <3>1, SetFacts, FS_AddElement
  <2>2. CASE jobs[k].line \notin Background
    <3>1. Left' = Left \ {k} /\ k \in Left /\ Taken' = Taken
      BY <1>2, <1>3, <1>5, <2>2 DEF Left, Taken, Unreaped
    <3>2. Cardinality(Left \ {k}) = Cardinality(Left) - 1
      BY <1>2, <3>1, SetFacts, FS_RemoveElement
    <3> QED BY <1>2, <1>6, <3>1, <3>2, SetFacts
  <2> QED BY <2>1, <2>2
<1>8. Balance'
  BY <1>2, <1>7 DEF Balance
<1>9. HistoryIsWhatRan'
  BY <1>2, <1>3, HistoryMarked DEF Inv
<1> QED BY <1>4, <1>8, <1>9 DEF Inv

LEMMA InvStep == Inv /\ [Next]_vars => Inv'
<1>1. Inv /\ UNCHANGED vars => Inv'
  BY DEF vars, Inv, Types, Balance, Left, Taken, Unreaped, HistoryIsWhatRan, Commands, Place
<1> QED BY <1>1, InvTyped, InvTurnAtEof, InvEnd, InvWait DEF Next

-----------------------------------------------------------------------------
(* The theorems.                                                           *)

\* At the prompt, as many commands in the foreground are not waited for as
\* commands in the background were waited for in their stead: every wait() of the
\* loop takes exactly one child, whichever has ended.
THEOREM WaitTakesOneForOne == Spec => []WaitsInStead
<1>1. Inv => WaitsInStead
  BY DEF Inv, Balance, Left, Taken, WaitsInStead
<1> QED BY InvInit, InvStep, <1>1, PTL DEF Spec

\* The history holds the commands that were started, in their order and with
\* their ampersands: all of them until it is full, repeats and leftovers included.
THEOREM HistoryTellsWhatRan == Spec => []HistoryIsWhatRan
<1>1. Inv => HistoryIsWhatRan
  BY DEF Inv
<1> QED BY InvInit, InvStep, <1>1, PTL DEF Spec

=============================================================================
