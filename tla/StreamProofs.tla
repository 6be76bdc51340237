---------------------------- MODULE StreamProofs ----------------------------
(***************************************************************************)
(* Proofs about the programs of Lab03 that talk over pipes and sockets.    *)
(*                                                                         *)
(* The searches over a pipe and over a socket pair, for any lines, files   *)
(* and capacity of the streams: no answer is sent before the input was     *)
(* read, and each of the programs implements LineSearch.  Their steps are  *)
(* of a few kinds (KindsOfSteps), the same in all three programs.  The     *)
(* invariant (StreamInv) says who may do what (Conduct) and where the      *)
(* lines are (Contents), which it does by counting their copies.           *)
(*                                                                         *)
(* The echo server, for any number of servers and clients, any messages    *)
(* and any length of the queue.  Its invariants come in layers, each of    *)
(* which uses the ones before it: types, queues, the path, and the answers.*)
(***************************************************************************)
EXTENDS EchoServer, MCStreamSearch, FiniteSetTheorems, FunctionTheorems, TLAPS

-----------------------------------------------------------------------------
(* How often a line is in a sequence, and streams with their terminator.   *)

\* what goes through a stream
Items == Lines \union {END}

LEMMA ItemFacts ==
  /\ Lines \subseteq Items /\ Matching \subseteq Items /\ END \in Items
  /\ Seq(Lines) \subseteq Seq(Items) /\ Seq(Matching) \subseteq Seq(Items)
  /\ Seq(Matching \union {END}) \subseteq Seq(Items)
  /\ <<>> \in Seq(Items)
<1>1. Lines \subseteq Items /\ Matching \subseteq Items /\ END \in Items /\ Matching \union {END} \subseteq Items
  BY StreamAssumption DEF Items
<1>2. ASSUME NEW S, S \subseteq Items PROVE Seq(S) \subseteq Seq(Items)
  BY <1>2
<1> QED BY <1>1, <1>2

LEMMA PlacesFinite ==
  ASSUME NEW s \in Seq(Items), NEW x
  PROVE  IsFiniteSet({k \in DOMAIN s : s[k] = x}) /\ Copies(x, s) \in Nat
<1>1. IsFiniteSet(1 .. Len(s)) /\ DOMAIN s = 1 .. Len(s)
  BY FS_Interval
<1>2. IsFiniteSet({k \in DOMAIN s : s[k] = x})
  BY <1>1, FS_Subset
<1> QED BY <1>2, FS_CardinalityType DEF Copies

LEMMA CopiesOfNone ==
  ASSUME NEW s \in Seq(Items), NEW x, \A k \in DOMAIN s : s[k] # x
  PROVE  Copies(x, s) = 0
<1>1. {k \in DOMAIN s : s[k] = x} = {}
  OBVIOUS
<1> QED BY <1>1, FS_EmptySet DEF Copies

LEMMA CopiesOfEmpty == \A x : Copies(x, <<>>) = 0
<1>1. \A x : {k \in DOMAIN <<>> : <<>>[k] = x} = {}
  OBVIOUS
<1> QED BY <1>1, FS_EmptySet DEF Copies

LEMMA CopiesOfSome ==
  ASSUME NEW s \in Seq(Items), NEW x, Copies(x, s) # 0
  PROVE  \E k \in 1 .. Len(s) : s[k] = x
<1>1. {k \in DOMAIN s : s[k] = x} # {}
  BY FS_EmptySet DEF Copies
<1> QED BY <1>1

\* How often x is at the first n places of s.
CopiesTo(x, s, n) == Cardinality({k \in 1 .. n : s[k] = x})

LEMMA CopiesToAll ==
  ASSUME NEW s \in Seq(Items), NEW x
  PROVE  CopiesTo(x, s, Len(s)) = Copies(x, s)
<1>1. DOMAIN s = 1 .. Len(s)
  OBVIOUS
<1> QED BY <1>1, Zenon DEF CopiesTo, Copies

LEMMA CopiesToType ==
  ASSUME NEW s, NEW n \in Nat, NEW x
  PROVE  IsFiniteSet({k \in 1 .. n : s[k] = x}) /\ CopiesTo(x, s, n) \in Nat
<1>1. IsFiniteSet(1 .. n)
  BY FS_Interval
<1>2. IsFiniteSet({k \in 1 .. n : s[k] = x})
  BY <1>1, FS_Subset
<1> QED BY <1>2, FS_CardinalityType DEF CopiesTo

LEMMA CopiesToNone == \A x, s : CopiesTo(x, s, 0) = 0
<1>1. \A x, s : {k \in 1 .. 0 : s[k] = x} = {}
  OBVIOUS
<1> QED BY <1>1, FS_EmptySet DEF CopiesTo

LEMMA CopiesToNext ==
  ASSUME NEW s, NEW n \in Nat, NEW m, m = n + 1, NEW x
  PROVE  /\ s[m] = x => CopiesTo(x, s, m) = CopiesTo(x, s, n) + 1
         /\ s[m] # x => CopiesTo(x, s, m) = CopiesTo(x, s, n)
<1> DEFINE A == {k \in 1 .. n : s[k] = x}
           B == {k \in 1 .. m : s[k] = x}
<1>1. m \in 1 .. m /\ (\A k : k \in 1 .. m <=> k \in 1 .. n \/ k = m) /\ m \notin A
  OBVIOUS
<1>2. s[m] = x => B = A \union {m}
  BY <1>1
<1>3. s[m] # x => B = A
  BY <1>1
<1>4. IsFiniteSet(A)
  BY CopiesToType
<1> HIDE DEF A, B
<1>5. Cardinality(A \union {m}) = Cardinality(A) + 1
  BY <1>1, <1>4, FS_AddElement
<1>6. CopiesTo(x, s, n) = Cardinality(A) /\ CopiesTo(x, s, m) = Cardinality(B)
  BY Zenon DEF A, B, CopiesTo
<1> QED BY <1>2, <1>3, <1>5, <1>6

LEMMA CopiesAppend ==
  ASSUME NEW s \in Seq(Items), NEW y \in Items, NEW x
  PROVE  Copies(x, Append(s, y)) = Copies(x, s) + (IF y = x THEN 1 ELSE 0)
<1> DEFINE a == Append(s, y)
           n == Len(s)
<1>1. n \in Nat /\ a \in Seq(Items) /\ Len(a) = n + 1 /\ a[n + 1] = y
      /\ \A k \in 1 .. n : a[k] = s[k]
  OBVIOUS
<1>2. CopiesTo(x, s, n) = Copies(x, s)
  BY CopiesToAll
<1> HIDE DEF a, n
<1>3. {k \in 1 .. n : a[k] = x} = {k \in 1 .. n : s[k] = x}
  BY <1>1
<1>4. CopiesTo(x, a, n) = CopiesTo(x, s, n)
  BY <1>3 DEF CopiesTo
<1>5. PICK m : m = n + 1
  OBVIOUS
<1>6. /\ a[m] = x => CopiesTo(x, a, m) = CopiesTo(x, a, n) + 1
      /\ a[m] # x => CopiesTo(x, a, m) = CopiesTo(x, a, n)
  <2>1. n \in Nat
    BY <1>1
  <2> QED BY <1>5, <2>1, CopiesToNext
<1>7. CopiesTo(x, a, m) = Copies(x, a)
  BY <1>1, <1>5, CopiesToAll
<1>8. Copies(x, s) \in Nat
  BY PlacesFinite
<1>9. Copies(x, a) = Copies(x, s) + (IF y = x THEN 1 ELSE 0)
  BY <1>1, <1>2, <1>4, <1>5, <1>6, <1>7, <1>8
<1> QED BY <1>9 DEF a

LEMMA CopiesTail ==
  ASSUME NEW s \in Seq(Items), s # <<>>, NEW x
  PROVE  Copies(x, s) = Copies(x, Tail(s)) + (IF Head(s) = x THEN 1 ELSE 0)
<1> DEFINE t == Tail(s)
           n == Len(s)
           A == {k \in DOMAIN t : t[k] = x}
           B == {k \in 2 .. n : s[k] = x}
           C == {k \in DOMAIN s : s[k] = x}
           g == [k \in A |-> k + 1]
<1>1. n \in Nat \ {0} /\ DOMAIN s = 1 .. n /\ DOMAIN t = 1 .. n - 1 /\ t \in Seq(Items)
      /\ Head(s) = s[1] /\ \A k \in 1 .. n - 1 : t[k] = s[k + 1]
  OBVIOUS
<1> HIDE DEF t, n
<1>2. IsFiniteSet(A) /\ Cardinality(A) = Copies(x, t)
  BY <1>1, PlacesFinite DEF Copies
<1>3. g \in Bijection(A, B)
  <2>1. \A k \in A : k \in Int /\ k + 1 \in B
    BY <1>1
  <2>2. \A h, k \in A : h + 1 = k + 1 => h = k
    BY <2>1
  <2>3. \A k \in B : k - 1 \in A /\ (k - 1) + 1 = k
    BY <1>1
  <2> HIDE DEF A, B
  <2>4. g \in [A -> B] /\ \A h, k \in A : g[h] = g[k] => h = k
    BY <2>1, <2>2
  <2>5. ASSUME NEW k \in B PROVE \E h \in A : g[h] = k
    <3>1. g[k - 1] = k
      BY <2>3
    <3> QED BY <2>3, <3>1
  <2> HIDE DEF g
  <2> QED BY <2>4, <2>5, Fun_IsBij
<1>4. Cardinality(B) = Cardinality(A) /\ IsFiniteSet(B) /\ Cardinality(B) \in Nat
  <2>1. ExistsBijection(A, B)
    BY <1>3 DEF ExistsBijection
  <2> HIDE DEF A, B
  <2> QED BY <1>2, <2>1, FS_Bijection, FS_CardinalityType
<1>5. 1 \notin B /\ (s[1] = x => C = B \union {1}) /\ (s[1] # x => C = B)
  <2>1. \A k : k \in 1 .. n <=> k \in 2 .. n \/ k = 1
    BY <1>1
  <2>2. 1 \notin 2 .. n
    BY <1>1
  <2> QED BY <1>1, <2>1, <2>2
<1> HIDE DEF A, B, C, g
<1>6. Cardinality(C) = Cardinality(B) + (IF s[1] = x THEN 1 ELSE 0)
  <2>1. 1 \notin B
    BY <1>5
  <2>2. Cardinality(B \union {1}) = Cardinality(B) + 1
    BY <1>4, <2>1, FS_AddElement
  <2>3. Cardinality(B) + 0 = Cardinality(B)
    BY <1>4
  <2> QED BY <1>5, <2>2, <2>3
<1>7. Copies(x, s) = Copies(x, t) + (IF s[1] = x THEN 1 ELSE 0)
  BY <1>2, <1>4, <1>6 DEF Copies, C
<1> QED BY <1>1, <1>7 DEF t

\* The terminator has been put into the stream; the lines that are in it.
Ended(stream)   == stream # <<>> /\ stream[Len(stream)] = END
LinesIn(stream) == Len(stream) - (IF Ended(stream) THEN 1 ELSE 0)

LEMMA EmptyStream == ~ Ended(<<>>) /\ LinesIn(<<>>) = 0
BY DEF Ended, LinesIn

LEMMA LinesInStream ==
  ASSUME NEW s \in Seq(Items)
  PROVE  /\ LinesIn(s) \in 0 .. Len(s)
         /\ LinesIn(s) \in Nat
         /\ ~ Ended(s) => LinesIn(s) = Len(s)
         /\ Ended(s) => s # <<>> /\ Len(s) = LinesIn(s) + 1
         /\ \A k \in 1 .. Len(s) : s[k] # END => k \in 1 .. LinesIn(s)
<1>1. Len(s) \in Nat /\ (s # <<>> => Len(s) > 0)
  OBVIOUS
<1> QED BY <1>1 DEF Ended, LinesIn

LEMMA TakenFromStream ==
  ASSUME NEW s \in Seq(Items), s # <<>>, Head(s) # END
  PROVE  /\ Ended(Tail(s)) <=> Ended(s)
         /\ LinesIn(s) \in Nat \ {0}
         /\ LinesIn(Tail(s)) = LinesIn(s) - 1
         /\ \A k \in 1 .. LinesIn(Tail(s)) : k + 1 \in 1 .. LinesIn(s) /\ Tail(s)[k] = s[k + 1]
<1> DEFINE t == Tail(s)
<1>1. Len(s) \in Nat \ {0} /\ Len(t) = Len(s) - 1 /\ Head(s) = s[1] /\ (t = <<>> <=> Len(s) = 1)
      /\ \A k \in 1 .. Len(s) - 1 : t[k] = s[k + 1]
  <2>1. Len(s) \in Nat \ {0} /\ t \in Seq(Items) /\ Len(t) = Len(s) - 1 /\ Head(s) = s[1]
        /\ \A k \in 1 .. Len(s) - 1 : t[k] = s[k + 1]
    OBVIOUS
  <2> HIDE DEF t
  <2>2. t = <<>> <=> Len(t) = 0
    BY <2>1
  <2> QED BY <2>1, <2>2
<1> HIDE DEF t
<1>2. Ended(t) <=> Ended(s)
  <2>1. CASE Len(s) = 1
    BY <1>1, <2>1 DEF Ended
  <2>2. CASE Len(s) # 1
    <3>1. Len(t) \in 1 .. Len(s) - 1 /\ Len(t) + 1 = Len(s) /\ t # <<>>
      BY <1>1, <2>2
    <3>2. t[Len(t)] = s[Len(s)]
      BY <1>1, <3>1
    <3> QED BY <3>1, <3>2 DEF Ended
  <2> QED BY <2>1, <2>2
<1>3. Ended(s) => Len(s) > 1
  BY <1>1 DEF Ended
<1>4. LinesIn(s) \in Nat \ {0} /\ LinesIn(s) <= Len(s) /\ LinesIn(t) = LinesIn(s) - 1
  <2>1. CASE Ended(s)
    <3>1. LinesIn(s) = Len(s) - 1 /\ LinesIn(t) = Len(t) - 1
      BY <1>2, <2>1, Zenon DEF LinesIn
    <3> QED BY <1>1, <1>3, <2>1, <3>1
  <2>2. CASE ~ Ended(s)
    <3>1. LinesIn(s) = Len(s) - 0 /\ LinesIn(t) = Len(t) - 0
      BY <1>2, <2>2, Zenon DEF LinesIn
    <3> QED BY <1>1, <3>1
  <2> QED BY <2>1, <2>2
<1>5. \A k \in 1 .. LinesIn(t) : k + 1 \in 1 .. LinesIn(s) /\ t[k] = s[k + 1]
  BY <1>1, <1>4
<1> QED BY <1>2, <1>4, <1>5 DEF t

\* What comes to the end of a stream without terminator.
LEMMA PutIntoStream ==
  ASSUME NEW s \in Seq(Items), NEW x \in Items, ~ Ended(s)
  PROVE  /\ Ended(Append(s, x)) <=> x = END
         /\ LinesIn(s) = Len(s)
         /\ x = END => LinesIn(Append(s, x)) = LinesIn(s)
         /\ x # END => LinesIn(Append(s, x)) = LinesIn(s) + 1
         /\ \A k \in 1 .. LinesIn(s) : Append(s, x)[k] = s[k]
         /\ x # END => Append(s, x)[LinesIn(s) + 1] = x
<1> DEFINE a == Append(s, x)
<1>1. Len(s) \in Nat /\ Len(a) = Len(s) + 1 /\ a # <<>> /\ a[Len(s) + 1] = x
      /\ \A k \in 1 .. Len(s) : a[k] = s[k]
  OBVIOUS
<1> HIDE DEF a
<1>2. Ended(a) <=> x = END
  BY <1>1 DEF Ended
<1>3. LinesIn(s) = Len(s)
  BY <1>1 DEF LinesIn
<1>4. (x = END => LinesIn(a) = Len(s)) /\ (x # END => LinesIn(a) = Len(s) + 1)
  <2>1. CASE x = END
    BY <1>1, <1>2, <2>1 DEF LinesIn
  <2>2. CASE x # END
    BY <1>1, <1>2, <2>2 DEF LinesIn
  <2> QED BY <2>1, <2>2
<1> QED BY <1>1, <1>2, <1>3, <1>4 DEF a

\* The terminator comes last.
LEMMA EndOfStream ==
  ASSUME NEW s \in Seq(Items), s # <<>>, Head(s) = END,
         \A k \in 1 .. LinesIn(s) : s[k] # END
  PROVE  Ended(s) /\ LinesIn(s) = 0 /\ Tail(s) = <<>> /\ Len(s) = 1
<1>1. Len(s) \in Nat \ {0} /\ Head(s) = s[1] /\ LinesIn(s) \in Nat
  BY LinesInStream
<1>2. LinesIn(s) = 0
  BY <1>1
<1>3. Ended(s) /\ Len(s) = 1
  BY <1>1, <1>2 DEF LinesIn
<1>4. Tail(s) = <<>>
  <2> DEFINE t == Tail(s)
  <2>1. t \in Seq(Items) /\ Len(t) = 0
    BY <1>1, <1>3
  <2> HIDE DEF t
  <2>2. t = <<>>
    BY <2>1
  <2> QED BY <2>2 DEF t
<1> QED BY <1>2, <1>3, <1>4

-----------------------------------------------------------------------------
(* The invariant of the searches over streams.                             *)

\* what the parent has to send
Text == IF file = MISSING THEN <<>> ELSE file

Sending == {"close", "work", "send"}

\* the lines the child has taken
Got == cnt - LinesIn(up)

InputRead == up = <<>> /\ parent \notin Sending

Roles ==
  \/ /\ program = "pipe"
     /\ parent \in {"close", "send", "receive", "wait", "done"}
     /\ child \in {"close", "read", "write", "exited"}
  \/ /\ program \in {"socketpair", "sleep"}
     /\ parent \in {"work", "wait", "receive", "done", "killed"}
     /\ child \in {"work", "post", "write", "exited", "killed"}
     /\ parent = "killed" <=> child = "killed"

SearchTypes ==
  /\ file \in Files \union {MISSING}
  /\ cnt \in 0 .. Len(Text)
  /\ output \in Seq(Matching) /\ stline \in Seq(Matching)
  /\ up \in Seq(Lines \union {END}) /\ down \in Seq(Matching \union {END})

\* A pipe has no terminator, but ends when nobody holds it open.
PipeEnds ==
  program = "pipe" =>
    /\ up \in Seq(Lines) /\ down \in Seq(Matching)
    /\ parent \in Sending => "parent" \in up_writers
    /\ child # "exited" => "child" \in down_writers
    /\ parent \in {"wait", "done"} => child = "exited" /\ down = <<>>

SentAll == parent \notin Sending \union {"killed"} => cnt = Len(Text)

Conduct == Roles /\ SearchTypes /\ PipeEnds /\ SentAll

\* What is in the stream is what was sent last, and what the child has kept are
\* the matching ones of the lines before.
Collecting ==
  child \in {"close", "read", "work"} =>
    /\ output = <<>> /\ down = <<>>
    /\ Got \in Nat
    /\ \A k \in 1 .. LinesIn(up) : up[k] = Text[Got + k]
    /\ Ended(up) => parent \notin Sending
    /\ \A line \in Matching : Copies(line, stline) = CopiesTo(line, Text, Got)

Sorting ==
  child = "post" =>
    /\ InputRead
    /\ output = <<>> /\ down = <<>>
    /\ \A line \in Matching : Copies(line, stline) = Copies(line, Text)

\* The first m of the one and then the first n of the other sequence are in order.
InOrder(a, m, b, n) ==
  /\ \A j, k \in 1 .. m : j <= k => a[j] <= a[k]
  /\ \A j \in 1 .. m, k \in 1 .. n : a[j] <= b[k]
  /\ \A j, k \in 1 .. n : j <= k => b[j] <= b[k]

\* The output, the stream and what the child has left are the matching lines.
Delivering ==
  child \in {"write", "exited"} =>
    /\ InputRead
    /\ \A line \in Matching :
         Copies(line, output) + Copies(line, down) + Copies(line, stline) = Copies(line, Text)
    /\ \A k \in 1 .. LinesIn(down) : down[k] \in Matching
    /\ InOrder(down, LinesIn(down), stline, Len(stline))
    /\ child = "write" => ~ Ended(down)
    /\ child = "exited" => stline = <<>>

\* An interrupted run is worth nothing until the next one starts, but for what
\* it still has in the streams.
Contents == Collecting /\ Sorting /\ Delivering

StreamInv == Conduct /\ Contents /\ AnswersAfterInput

-----------------------------------------------------------------------------
(* The kinds of steps the three programs are made of.                      *)

Sockets == {"socketpair", "sleep"}

SendsLine ==
  /\ parent \in {"send", "work"}
  /\ MoreToSend
  /\ cnt' = cnt + 1
  /\ up' = Append(up, file[cnt + 1])
  /\ UNCHANGED <<program, file, parent, output, childs, down, writers>>

SendsEnd ==
  /\ program \in Sockets
  /\ parent = "work"
  /\ file # MISSING /\ ~ MoreToSend
  /\ up' = Append(up, END)
  /\ parent' = "wait"
  /\ UNCHANGED <<program, file, cnt, output, childs, down, writers>>

ParentGoesOn ==
  /\ \/ /\ program = "pipe" /\ parent = "close" /\ parent' = "send"
        /\ up_writers' = up_writers /\ down_writers' = down_writers \ {"parent"}
     \/ /\ program = "pipe" /\ parent = "send" /\ parent' = "receive" /\ ~ MoreToSend
        /\ up_writers' = up_writers \ {"parent"} /\ down_writers' = down_writers
     \/ /\ program = "pipe" /\ parent = "receive" /\ parent' = "wait"
        /\ down = <<>> /\ down_writers = {} /\ UNCHANGED writers
     \/ /\ program = "pipe" /\ parent = "wait" /\ parent' = "done" /\ child = "exited"
        /\ UNCHANGED writers
     \/ /\ program \in Sockets /\ parent = "work" /\ parent' = "wait" /\ file = MISSING
        /\ UNCHANGED writers
     \/ /\ program \in Sockets /\ parent = "wait" /\ parent' = "receive"
        /\ UNCHANGED writers
  /\ UNCHANGED <<program, file, cnt, output, childs, up, down>>

ReceivesLine ==
  /\ parent = "receive"
  /\ down # <<>> /\ Head(down) # END
  /\ output' = Append(output, Head(down))
  /\ down' = Tail(down)
  /\ UNCHANGED <<program, file, parent, cnt, childs, up, writers>>

ReceivesEnd ==
  /\ program \in Sockets
  /\ parent = "receive"
  /\ down # <<>> /\ Head(down) = END
  /\ down' = Tail(down)
  /\ parent' = "done"
  /\ UNCHANGED <<program, file, cnt, output, childs, up, writers>>

ReadsLine ==
  /\ child \in {"read", "work"}
  /\ up # <<>> /\ Head(up) # END
  /\ KeepIfMatching(Head(up))
  /\ up' = Tail(up)
  /\ UNCHANGED <<program, file, parents, child, down, writers>>

ReadsEnd ==
  /\ child = "work"
  /\ up # <<>> /\ Head(up) = END
  /\ up' = Tail(up)
  /\ child' = "post"
  /\ UNCHANGED <<program, file, parents, stline, down, writers>>

Closes ==
  /\ child = "close"
  /\ child' = "read"
  /\ UNCHANGED <<program, file, parents, stline, up, down, down_writers>>
  /\ up_writers' = up_writers \ {"child"}

Sorts ==
  /\ \/ program = "pipe" /\ child = "read" /\ up = <<>> /\ up_writers = {}
     \/ child = "post"
  /\ child' = "write"
  /\ stline' \in Alphabetical(stline)
  /\ UNCHANGED <<program, file, parents, up, down, writers>>

WritesLine ==
  /\ child = "write"
  /\ stline # <<>>
  /\ down' = Append(down, Head(stline))
  /\ stline' = Tail(stline)
  /\ UNCHANGED <<program, file, parents, child, up, writers>>

Leaves ==
  /\ child = "write"
  /\ stline = <<>>
  /\ child' = "exited"
  /\ \/ /\ program = "pipe" /\ down' = down
        /\ up_writers' = up_writers /\ down_writers' = down_writers \ {"child"}
     \/ /\ program \in Sockets /\ down' = Append(down, END)
        /\ UNCHANGED writers
  /\ UNCHANGED <<program, file, parents, stline, up>>

ParentWorks == SendsLine \/ SendsEnd \/ ParentGoesOn \/ ReceivesLine \/ ReceivesEnd
ChildWorks  == ReadsLine \/ ReadsEnd \/ Closes \/ Sorts \/ WritesLine \/ Leaves

LEMMA KindsOfPipeSteps ==
  ASSUME Conduct
  PROVE  /\ Pipe!ParentStep => ParentWorks
         /\ Pipe!ChildStep => ChildWorks
<1>1. Pipe!MoreToSend <=> MoreToSend
  BY DEF Pipe!MoreToSend, MoreToSend
<1>2. Pipe!Alphabetical(stline) = Alphabetical(stline)
  BY Zenon DEF Pipe!Alphabetical, Alphabetical, Pipe!Copies, Copies, Pipe!Cardinality, Cardinality,
               Pipe!Range, Range
<1>3. ASSUME program = "pipe" PROVE (down # <<>> => Head(down) # END) /\ (up # <<>> => Head(up) # END)
  <2>1. up \in Seq(Lines) /\ down \in Seq(Matching) /\ END \notin Lines /\ END \notin Matching
    BY <1>3, StreamAssumption DEF Conduct, PipeEnds
  <2> QED BY <2>1
<1>4. ASSUME Pipe!ParentStep PROVE ParentWorks
  <2>1. program = "pipe" /\ UNCHANGED <<program, file, sem>>
    BY <1>4 DEF Pipe!ParentStep
  <2>2. CASE Pipe!ParentCloses
    BY <2>1, <2>2 DEF Pipe!ParentCloses, Pipe!childs, childs, ParentWorks, ParentGoesOn
  <2>3. CASE Pipe!SendLine
    BY <1>1, <2>1, <2>3 DEF Pipe!SendLine, Pipe!childs, Pipe!writers, childs, writers, ParentWorks, SendsLine
  <2>4. CASE Pipe!CloseSend
    BY <1>1, <2>1, <2>4 DEF Pipe!CloseSend, Pipe!childs, childs, ParentWorks, ParentGoesOn
  <2>5. CASE Pipe!ReceiveLine
    BY <1>3, <2>1, <2>5 DEF Pipe!ReceiveLine, Pipe!childs, Pipe!writers, childs, writers, ParentWorks, ReceivesLine
  <2>6. CASE Pipe!ReceiveEnd
    BY <2>1, <2>6 DEF Pipe!ReceiveEnd, Pipe!childs, Pipe!writers, childs, writers, ParentWorks, ParentGoesOn
  <2>7. CASE Pipe!WaitForChild
    BY <2>1, <2>7 DEF Pipe!WaitForChild, Pipe!childs, Pipe!writers, childs, writers, ParentWorks, ParentGoesOn
  <2> QED BY <1>4, <2>2, <2>3, <2>4, <2>5, <2>6, <2>7 DEF Pipe!ParentStep
<1>5. ASSUME Pipe!ChildStep PROVE ChildWorks
  <2>1. program = "pipe" /\ UNCHANGED <<program, file, sem>>
    BY <1>5 DEF Pipe!ChildStep
  <2>2. CASE Pipe!ChildCloses
    BY <2>1, <2>2 DEF Pipe!ChildCloses, Pipe!ClosedByChild, Pipe!parents, parents, ChildWorks, Closes
  <2>3. CASE Pipe!ReadLine
    BY <1>3, <2>1, <2>3 DEF Pipe!ReadLine, Pipe!KeepIfMatching, Pipe!parents, Pipe!writers,
                            parents, writers, KeepIfMatching, ChildWorks, ReadsLine
  <2>4. CASE Pipe!ReadEnd
    BY <1>2, <2>1, <2>4 DEF Pipe!ReadEnd, Pipe!AtEnd, Pipe!parents, Pipe!writers, parents, writers, ChildWorks, Sorts
  <2>5. CASE Pipe!WriteLine
    BY <2>1, <2>5 DEF Pipe!WriteLine, Pipe!parents, Pipe!writers, parents, writers, ChildWorks, WritesLine
  <2>6. CASE Pipe!Exit
    BY <2>1, <2>6 DEF Pipe!Exit, Pipe!parents, parents, ChildWorks, Leaves
  <2> QED BY <1>5, <2>2, <2>3, <2>4, <2>5, <2>6 DEF Pipe!ChildStep
<1> QED BY <1>4, <1>5

\* The two programs over a socket pair differ in the wait for the child only.
LEMMA KindsOfSocketSteps ==
  /\ Socket!ParentStep => ParentWorks
  /\ Socket!ChildStep => ChildWorks
<1>1. Socket!MoreToSend <=> MoreToSend
  BY DEF Socket!MoreToSend, MoreToSend
<1>2. Socket!Alphabetical(stline) = Alphabetical(stline)
  BY Zenon DEF Socket!Alphabetical, Alphabetical, Socket!Copies, Copies, Socket!Cardinality, Cardinality,
               Socket!Range, Range
<1>3. ASSUME Socket!ParentStep PROVE ParentWorks
  <2>1. program = "socketpair" /\ program \in Sockets /\ UNCHANGED <<program, file, Socket!writers>>
    BY <1>3 DEF Socket!ParentStep, Sockets
  <2>2. CASE Socket!SendLine
    BY <1>1, <2>1, <2>2 DEF Socket!SendLine, Socket!childs, Socket!writers, childs, writers, ParentWorks, SendsLine
  <2>3. CASE Socket!SendEnd
    BY <1>1, <2>1, <2>3 DEF Socket!SendEnd, Socket!childs, Socket!writers, childs, writers, ParentWorks, SendsEnd
  <2>4. CASE Socket!SkipFile
    BY <2>1, <2>4 DEF Socket!SkipFile, Socket!childs, Socket!writers, childs, writers, ParentWorks, ParentGoesOn
  <2>5. CASE Socket!Wait
    BY <2>1, <2>5 DEF Socket!Wait, Socket!childs, Socket!writers, childs, writers, ParentWorks, ParentGoesOn
  <2>6. CASE Socket!ReceiveLine
    BY <2>1, <2>6 DEF Socket!ReceiveLine, Socket!childs, Socket!writers, childs, writers,
                      ParentWorks, ReceivesLine, ReceivesEnd
  <2> QED BY <1>3, <2>2, <2>3, <2>4, <2>5, <2>6 DEF Socket!ParentStep
<1>4. ASSUME Socket!ChildStep PROVE ChildWorks
  <2>1. program = "socketpair" /\ program \in Sockets /\ UNCHANGED <<program, file, Socket!writers>>
    BY <1>4 DEF Socket!ChildStep, Sockets
  <2>2. CASE Socket!ReadLine
    BY <2>1, <2>2 DEF Socket!ReadLine, Socket!KeepIfMatching, Socket!parents, Socket!writers,
                      parents, writers, KeepIfMatching, ChildWorks, ReadsLine, ReadsEnd
  <2>3. CASE Socket!Post
    BY <1>2, <2>1, <2>3 DEF Socket!Post, Socket!parents, Socket!writers, parents, writers, ChildWorks, Sorts
  <2>4. CASE Socket!WriteLine
    BY <2>1, <2>4 DEF Socket!WriteLine, Socket!parents, Socket!writers, parents, writers, ChildWorks, WritesLine
  <2>5. CASE Socket!WriteEnd
    BY <2>1, <2>5 DEF Socket!WriteEnd, Socket!parents, Socket!writers, parents, writers, ChildWorks, Leaves
  <2> QED BY <1>4, <2>2, <2>3, <2>4, <2>5 DEF Socket!ChildStep
<1> QED BY <1>3, <1>4

LEMMA KindsOfSleepSteps ==
  /\ Sleep!ParentStep => ParentWorks
  /\ Sleep!ChildStep => ChildWorks
<1>1. Sleep!Socket!MoreToSend <=> MoreToSend
  BY DEF Sleep!Socket!MoreToSend, MoreToSend
<1>2. Sleep!Alphabetical(stline) = Alphabetical(stline)
  BY Zenon DEF Sleep!Alphabetical, Alphabetical, Sleep!Copies, Copies, Sleep!Cardinality, Cardinality,
               Sleep!Range, Range
<1>3. ASSUME Sleep!ParentStep PROVE ParentWorks
  <2>1. program = "sleep" /\ program \in Sockets /\ UNCHANGED <<program, file, Sleep!writers>>
    BY <1>3 DEF Sleep!ParentStep, Sockets
  <2>2. CASE Sleep!Socket!SendLine
    BY <1>1, <2>1, <2>2 DEF Sleep!Socket!SendLine, Sleep!Socket!childs, Sleep!writers, childs, writers,
                            ParentWorks, SendsLine
  <2>3. CASE Sleep!Socket!SendEnd
    BY <1>1, <2>1, <2>3 DEF Sleep!Socket!SendEnd, Sleep!Socket!childs, Sleep!writers, childs, writers,
                            ParentWorks, SendsEnd
  <2>4. CASE Sleep!Socket!SkipFile
    BY <2>1, <2>4 DEF Sleep!Socket!SkipFile, Sleep!Socket!childs, Sleep!writers, childs, writers,
                      ParentWorks, ParentGoesOn
  <2>5. CASE Sleep!WakeUp
    BY <2>1, <2>5 DEF Sleep!WakeUp, Sleep!childs, Sleep!writers, childs, writers, ParentWorks, ParentGoesOn
  <2>6. CASE Sleep!Socket!ReceiveLine
    BY <2>1, <2>6 DEF Sleep!Socket!ReceiveLine, Sleep!Socket!childs, Sleep!writers, childs, writers,
                      ParentWorks, ReceivesLine, ReceivesEnd
  <2> QED BY <1>3, <2>2, <2>3, <2>4, <2>5, <2>6 DEF Sleep!ParentStep
<1>4. ASSUME Sleep!ChildStep PROVE ChildWorks
  <2>1. program = "sleep" /\ program \in Sockets /\ UNCHANGED <<program, file, Sleep!writers>>
    BY <1>4 DEF Sleep!ChildStep, Sockets
  <2>2. CASE Sleep!Socket!ReadLine
    BY <2>1, <2>2 DEF Sleep!Socket!ReadLine, Sleep!Socket!KeepIfMatching, Sleep!Socket!parents, Sleep!writers,
                      parents, writers, KeepIfMatching, ChildWorks, ReadsLine, ReadsEnd
  <2>3. CASE Sleep!Sort
    BY <1>2, <2>1, <2>3 DEF Sleep!Sort, Sleep!parents, Sleep!writers, parents, writers, ChildWorks, Sorts
  <2>4. CASE Sleep!Socket!WriteLine
    BY <2>1, <2>4 DEF Sleep!Socket!WriteLine, Sleep!Socket!parents, Sleep!writers, parents, writers,
                      ChildWorks, WritesLine
  <2>5. CASE Sleep!Socket!WriteEnd
    BY <2>1, <2>5 DEF Sleep!Socket!WriteEnd, Sleep!Socket!parents, Sleep!writers, parents, writers,
                      ChildWorks, Leaves
  <2> QED BY <1>4, <2>2, <2>3, <2>4, <2>5 DEF Sleep!ChildStep
<1> QED BY <1>3, <1>4

LEMMA KindsOfSteps ==
  Conduct /\ StreamNext => ParentWorks \/ ChildWorks \/ Socket!Kill \/ Socket!Start
BY KindsOfPipeSteps, KindsOfSocketSteps, KindsOfSleepSteps DEF StreamNext, ParentStep, ChildStep

-----------------------------------------------------------------------------
(* Conduct: what the processes do, and what goes through the streams.      *)

LEMMA LineFacts ==
  /\ Lines \subseteq Nat /\ Matching \subseteq Lines /\ Matching \subseteq Nat
  /\ END \notin Lines /\ END \notin Matching
BY StreamAssumption

LEMMA TextFacts ==
  ASSUME SearchTypes
  PROVE  /\ Text \in Seq(Lines) /\ Text \in Seq(Items) /\ Len(Text) \in Nat
         /\ cnt \in Nat /\ cnt <= Len(Text)
         /\ \A k \in 1 .. Len(Text) : Text[k] \in Lines
         /\ MoreToSend => cnt < Len(Text) /\ file[cnt + 1] = Text[cnt + 1]
         /\ ~ MoreToSend => cnt = Len(Text)
         /\ file = MISSING => Len(Text) = 0
<1>1. Text \in Seq(Lines) /\ (file # MISSING => Text = file) /\ (file = MISSING => Text = <<>>)
  BY StreamAssumption DEF SearchTypes, Text
<1>2. cnt \in 0 .. Len(Text)
  BY DEF SearchTypes
<1>3. Len(Text) \in Nat /\ \A k \in 1 .. Len(Text) : Text[k] \in Lines
  BY <1>1
<1>4. file = MISSING => Len(Text) = 0
  BY <1>1
<1>5. Text \in Seq(Items)
  BY <1>1, ItemFacts
<1> QED BY <1>1, <1>2, <1>3, <1>4, <1>5 DEF MoreToSend

LEMMA StreamFacts ==
  ASSUME SearchTypes
  PROVE  /\ up \in Seq(Items) /\ down \in Seq(Items) /\ output \in Seq(Items) /\ stline \in Seq(Items)
         /\ \A k \in 1 .. Len(down) : down[k] # END => down[k] \in Matching
<1>1. up \in Seq(Items)
  BY DEF SearchTypes, Items
<1>2. down \in Seq(Items) /\ output \in Seq(Items) /\ stline \in Seq(Items)
  BY ItemFacts DEF SearchTypes
<1>3. \A k \in 1 .. Len(down) : down[k] # END => down[k] \in Matching
  BY DEF SearchTypes
<1> QED BY <1>1, <1>2, <1>3

\* What a sort leaves: the same lines, in order.
LEMMA SortedLines ==
  ASSUME NEW s \in Seq(Matching), NEW t \in Alphabetical(s)
  PROVE  /\ t \in Seq(Matching)
         /\ \A j, k \in 1 .. Len(t) : j <= k => t[j] <= t[k]
         /\ \A line \in Matching : Copies(line, t) = Copies(line, s)
<1>1. /\ t \in [DOMAIN s -> Range(s)]
      /\ \A line \in Range(s) : Copies(line, t) = Copies(line, s)
      /\ \A j, k \in DOMAIN t : j <= k => t[j] <= t[k]
  BY DEF Alphabetical
<1>2. DOMAIN s = 1 .. Len(s) /\ Len(s) \in Nat /\ \A k \in DOMAIN s : s[k] \in Matching
  OBVIOUS
<1>3. Range(s) \subseteq Matching
  BY <1>2 DEF Range
<1>4. t \in Seq(Range(s)) /\ t \in Seq(Matching)
  BY <1>1, <1>2, <1>3
<1>5. DOMAIN t = 1 .. Len(t)
  BY <1>4
<1>6. ASSUME NEW line \in Matching, line \notin Range(s) PROVE Copies(line, t) = Copies(line, s)
  <2>1. \A k \in DOMAIN s : s[k] # line
    BY <1>6 DEF Range
  <2>2. \A k \in DOMAIN t : t[k] # line
    BY <1>1, <1>6
  <2>3. s \in Seq(Items) /\ t \in Seq(Items)
    BY <1>4, ItemFacts
  <2>4. Copies(line, s) = 0 /\ Copies(line, t) = 0
    BY <2>1, <2>2, <2>3, CopiesOfNone
  <2> QED BY <2>4
<1> QED BY <1>1, <1>4, <1>5, <1>6

LEMMA ConductInit == StreamInit => Conduct /\ up = <<>> /\ down = <<>> /\ output = <<>> /\ stline = <<>>
                                   /\ cnt = 0 /\ child \in {"close", "work"}
<1> SUFFICES ASSUME StreamInit
             PROVE  /\ Conduct /\ up = <<>> /\ down = <<>> /\ output = <<>> /\ stline = <<>>
                    /\ cnt = 0 /\ child \in {"close", "work"}
  OBVIOUS
<1>1. /\ \/ program = "pipe" /\ parent = "close" /\ child = "close"
         \/ program \in {"socketpair", "sleep"} /\ parent = "work" /\ child = "work"
      /\ file \in Files \union {MISSING} /\ cnt = 0 /\ output = <<>> /\ stline = <<>>
      /\ up = <<>> /\ down = <<>>
      /\ up_writers = {"parent", "child"} /\ down_writers = {"parent", "child"}
  <2>1. CASE Pipe!Init
    BY <2>1 DEF Pipe!Init, Pipe!FreshRun
  <2>2. CASE Socket!Init
    BY <2>2 DEF Socket!Init, Socket!FreshRun
  <2>3. CASE Sleep!Init
    BY <2>3 DEF Sleep!Init, Sleep!FreshRun
  <2> QED BY <2>1, <2>2, <2>3 DEF StreamInit
<1>2. Roles /\ PipeEnds /\ SentAll
  BY <1>1 DEF Roles, PipeEnds, SentAll, Sending
<1>3. SearchTypes
  <2>1. Text \in Seq(Lines)
    BY <1>1, StreamAssumption DEF Text
  <2>2. 0 \in 0 .. Len(Text)
    BY <2>1
  <2> QED BY <1>1, <2>2 DEF SearchTypes
<1> QED BY <1>1, <1>2, <1>3 DEF Conduct

LEMMA ConductParent == Conduct /\ ParentWorks => Conduct'
<1> SUFFICES ASSUME Conduct, ParentWorks PROVE Conduct'
  OBVIOUS
<1> USE LineFacts
<1>1. Roles /\ SearchTypes /\ PipeEnds /\ SentAll
  BY DEF Conduct
<1>2. CASE SendsLine
  <2>1. /\ parent \in {"send", "work"} /\ cnt' = cnt + 1 /\ up' = Append(up, Text[cnt + 1])
        /\ cnt < Len(Text) /\ Text[cnt + 1] \in Lines /\ cnt' \in 0 .. Len(Text)
        /\ UNCHANGED <<program, file, parent, output, child, stline, down, up_writers, down_writers>>
    BY <1>1, <1>2, TextFacts DEF SendsLine, childs, writers
  <2>2. Roles' /\ SentAll'
    BY <1>1, <2>1 DEF Roles, SentAll, Sending
  <2>3. SearchTypes'
    BY <1>1, <2>1 DEF SearchTypes, Text
  <2>4. PipeEnds'
    BY <1>1, <2>1 DEF PipeEnds, Sending
  <2> QED BY <2>2, <2>3, <2>4 DEF Conduct
<1>3. CASE SendsEnd
  <2>1. /\ program \in {"socketpair", "sleep"} /\ parent = "work" /\ parent' = "wait"
        /\ up' = Append(up, END) /\ cnt = Len(Text)
        /\ UNCHANGED <<program, file, cnt, output, child, stline, down, up_writers, down_writers>>
    BY <1>1, <1>3, TextFacts DEF SendsEnd, childs, writers, Sockets
  <2> QED BY <1>1, <2>1 DEF Conduct, Roles, SearchTypes, PipeEnds, SentAll, Text
<1>4. CASE ParentGoesOn
  <2>1. UNCHANGED <<program, file, cnt, output, child, stline, up, down>>
    BY <1>4 DEF ParentGoesOn, childs
  <2>2. SearchTypes'
    BY <1>1, <2>1 DEF SearchTypes, Text
  <2>3. Roles' /\ PipeEnds'
    BY <1>1, <1>4, <2>1 DEF ParentGoesOn, Roles, PipeEnds, Sending, Sockets, writers
  <2>4. SentAll'
    BY <1>1, <1>4, <2>1, TextFacts DEF ParentGoesOn, SentAll, Sending, Text, Sockets, Roles
  <2> QED BY <2>2, <2>3, <2>4 DEF Conduct
<1>5. CASE ReceivesLine
  <2>1. /\ parent = "receive" /\ down # <<>> /\ Head(down) # END
        /\ output' = Append(output, Head(down)) /\ down' = Tail(down)
        /\ UNCHANGED <<program, file, cnt, parent, child, stline, up, up_writers, down_writers>>
    BY <1>5 DEF ReceivesLine, childs, writers
  <2>2. Head(down) \in Matching /\ (down \in Seq(Matching) => down' \in Seq(Matching))
        /\ down' \in Seq(Matching \union {END}) /\ output' \in Seq(Matching)
    BY <1>1, <2>1 DEF SearchTypes
  <2>3. Roles' /\ SentAll'
    BY <1>1, <2>1 DEF Roles, SentAll, Text
  <2>4. SearchTypes' /\ PipeEnds'
    BY <1>1, <2>1, <2>2 DEF SearchTypes, PipeEnds, Text
  <2> QED BY <2>3, <2>4 DEF Conduct
<1>6. CASE ReceivesEnd
  <2>1. /\ program \in {"socketpair", "sleep"} /\ parent = "receive" /\ parent' = "done"
        /\ down # <<>> /\ down' = Tail(down)
        /\ UNCHANGED <<program, file, cnt, output, child, stline, up, up_writers, down_writers>>
    BY <1>6 DEF ReceivesEnd, childs, writers, Sockets
  <2>2. down' \in Seq(Matching \union {END})
    BY <1>1, <2>1 DEF SearchTypes
  <2> QED BY <1>1, <2>1, <2>2 DEF Conduct, Roles, SearchTypes, PipeEnds, SentAll, Sending, Text
<1> QED BY <1>2, <1>3, <1>4, <1>5, <1>6 DEF ParentWorks

LEMMA ConductChild == Conduct /\ ChildWorks => Conduct'
<1> SUFFICES ASSUME Conduct, ChildWorks PROVE Conduct'
  OBVIOUS
<1> USE LineFacts
<1>1. Roles /\ SearchTypes /\ PipeEnds /\ SentAll
  BY DEF Conduct
<1>2. UNCHANGED <<program, file, parent, cnt, output>>
  BY DEF ChildWorks, ReadsLine, ReadsEnd, Closes, Sorts, WritesLine, Leaves, parents
<1>3. SentAll'
  BY <1>1, <1>2 DEF SentAll, Text
<1>4. Roles'
  BY <1>1, <1>2 DEF ChildWorks, ReadsLine, ReadsEnd, Closes, Sorts, WritesLine, Leaves, Roles, PipeEnds
<1>5. CASE ReadsLine
  <2>1. /\ up # <<>> /\ Head(up) # END /\ up' = Tail(up)
        /\ stline' = IF Head(up) \in Matching THEN Append(stline, Head(up)) ELSE stline
        /\ UNCHANGED <<child, down, up_writers, down_writers>>
    BY <1>5 DEF ReadsLine, writers, KeepIfMatching
  <2>2. stline' \in Seq(Matching) /\ up' \in Seq(Lines \union {END}) /\ (up \in Seq(Lines) => up' \in Seq(Lines))
    BY <1>1, <2>1 DEF SearchTypes
  <2>3. SearchTypes' /\ PipeEnds'
    BY <1>1, <1>2, <2>1, <2>2 DEF SearchTypes, PipeEnds, Text
  <2> QED BY <1>3, <1>4, <2>3 DEF Conduct
<1>6. CASE ReadsEnd
  <2>1. /\ up # <<>> /\ child = "work" /\ child' = "post" /\ up' = Tail(up)
        /\ UNCHANGED <<stline, down, up_writers, down_writers>>
    BY <1>6 DEF ReadsEnd, writers
  <2>2. up' \in Seq(Lines \union {END}) /\ program # "pipe"
    BY <1>1, <2>1 DEF SearchTypes, Roles
  <2>3. SearchTypes' /\ PipeEnds'
    BY <1>1, <1>2, <2>1, <2>2 DEF SearchTypes, PipeEnds, Text
  <2> QED BY <1>3, <1>4, <2>3 DEF Conduct
<1>7. CASE Closes
  <2>1. /\ child = "close" /\ child' = "read" /\ up_writers' = up_writers \ {"child"}
        /\ UNCHANGED <<stline, up, down, down_writers>>
    BY <1>7 DEF Closes
  <2>2. SearchTypes' /\ PipeEnds'
    BY <1>1, <1>2, <2>1 DEF SearchTypes, PipeEnds, Text
  <2> QED BY <1>3, <1>4, <2>2 DEF Conduct
<1>8. CASE Sorts
  <2>1. /\ child # "exited" /\ child' = "write" /\ stline' \in Alphabetical(stline)
        /\ UNCHANGED <<up, down, up_writers, down_writers>>
    BY <1>8 DEF Sorts, writers
  <2>2. stline' \in Seq(Matching)
    BY <1>1, <2>1, SortedLines DEF SearchTypes
  <2>3. SearchTypes' /\ PipeEnds'
    BY <1>1, <1>2, <2>1, <2>2 DEF SearchTypes, PipeEnds, Text
  <2> QED BY <1>3, <1>4, <2>3 DEF Conduct
<1>9. CASE WritesLine
  <2>1. /\ child = "write" /\ stline # <<>> /\ down' = Append(down, Head(stline)) /\ stline' = Tail(stline)
        /\ UNCHANGED <<child, up, up_writers, down_writers>>
    BY <1>9 DEF WritesLine, writers
  <2>2. stline' \in Seq(Matching) /\ Head(stline) \in Matching
        /\ down' \in Seq(Matching \union {END}) /\ (down \in Seq(Matching) => down' \in Seq(Matching))
    BY <1>1, <2>1 DEF SearchTypes
  <2>3. SearchTypes' /\ PipeEnds'
    BY <1>1, <1>2, <2>1, <2>2 DEF SearchTypes, PipeEnds, Text
  <2> QED BY <1>3, <1>4, <2>3 DEF Conduct
<1>10. CASE Leaves
  <2>1. /\ child = "write" /\ child' = "exited" /\ UNCHANGED <<stline, up>>
        /\ \/ program = "pipe" /\ down' = down /\ up_writers' = up_writers
           \/ program \in {"socketpair", "sleep"} /\ down' = Append(down, END)
    BY <1>10 DEF Leaves, Sockets
  <2>2. down' \in Seq(Matching \union {END}) /\ (program = "pipe" => down' = down)
    <3>1. down \in Seq(Matching \union {END}) /\ Append(down, END) \in Seq(Matching \union {END})
      BY <1>1 DEF SearchTypes
    <3> QED BY <2>1, <3>1
  <2>3. SearchTypes' /\ PipeEnds'
    BY <1>1, <1>2, <2>1, <2>2 DEF SearchTypes, PipeEnds, Text
  <2> QED BY <1>3, <1>4, <2>3 DEF Conduct
<1> QED BY <1>5, <1>6, <1>7, <1>8, <1>9, <1>10 DEF ChildWorks

-----------------------------------------------------------------------------
(* Contents: what is in the streams, in the output and with the child.     *)

LEMMA OrderWithoutFirst ==
  ASSUME NEW a, NEW b, NEW c, NEW m \in Nat \ {0}, NEW n \in Nat,
         InOrder(a, m, b, n), \A k \in 1 .. m - 1 : c[k] = a[k + 1]
  PROVE  InOrder(c, m - 1, b, n)
<1>1. \A k \in 1 .. m - 1 : k + 1 \in 1 .. m
  OBVIOUS
<1>2. \A j, k \in 1 .. m - 1 : j <= k => c[j] <= c[k]
  <2> SUFFICES ASSUME NEW j \in 1 .. m - 1, NEW k \in 1 .. m - 1, j <= k PROVE c[j] <= c[k]
    OBVIOUS
  <2>1. j + 1 \in 1 .. m /\ k + 1 \in 1 .. m /\ j + 1 <= k + 1
    OBVIOUS
  <2>2. a[j + 1] <= a[k + 1]
    BY <2>1, Zenon DEF InOrder
  <2> QED BY <2>2
<1>3. \A j \in 1 .. m - 1, k \in 1 .. n : c[j] <= b[k]
  BY <1>1, Zenon DEF InOrder
<1> QED BY <1>2, <1>3, Zenon DEF InOrder

\* The first of the lines that follow has become the last of those before.
LEMMA OrderMoved ==
  ASSUME NEW a, NEW b, NEW c, NEW d, NEW m \in Nat, NEW n \in Nat \ {0},
         InOrder(a, m, b, n),
         \A k \in 1 .. m : c[k] = a[k], c[m + 1] = b[1],
         \A k \in 1 .. n - 1 : d[k] = b[k + 1]
  PROVE  InOrder(c, m + 1, d, n - 1)
<1>1. /\ \A k \in 1 .. m + 1 : k \in 1 .. m \/ k = m + 1
      /\ \A k \in 1 .. m + 1, j \in 1 .. m : ~ m + 1 <= j
      /\ \A k \in 1 .. n - 1 : k + 1 \in 1 .. n /\ 1 <= k + 1
      /\ 1 \in 1 .. n /\ 1 <= 1
      /\ \A j, k \in 1 .. n - 1 : j <= k => j + 1 <= k + 1
  OBVIOUS
<1>2. ASSUME NEW j \in 1 .. m + 1, NEW k \in 1 .. m + 1, j <= k PROVE c[j] <= c[k]
  <2>1. CASE j \in 1 .. m /\ k \in 1 .. m
    BY <1>2, <2>1, Zenon DEF InOrder
  <2>2. CASE j \in 1 .. m /\ k = m + 1
    BY <1>1, <2>2, Zenon DEF InOrder
  <2>3. CASE j = m + 1 /\ k = m + 1
    BY <1>1, <2>3, Zenon DEF InOrder
  <2>4. (j \in 1 .. m \/ j = m + 1) /\ (k \in 1 .. m \/ k = m + 1)
    BY <1>1, Zenon
  <2>5. ~ (j = m + 1 /\ k \in 1 .. m)
    BY <1>2
  <2> QED BY <2>1, <2>2, <2>3, <2>4, <2>5
<1>3. ASSUME NEW j \in 1 .. m + 1, NEW k \in 1 .. n - 1 PROVE c[j] <= d[k]
  <2>1. CASE j \in 1 .. m
    BY <1>1, <2>1, Zenon DEF InOrder
  <2>2. CASE j = m + 1
    BY <1>1, <2>2, Zenon DEF InOrder
  <2> QED BY <1>1, <2>1, <2>2, Zenon
<1>4. ASSUME NEW j \in 1 .. n - 1, NEW k \in 1 .. n - 1, j <= k PROVE d[j] <= d[k]
  <2>1. j + 1 \in 1 .. n /\ k + 1 \in 1 .. n /\ j + 1 <= k + 1
    BY <1>1, <1>4, Zenon
  <2>2. b[j + 1] <= b[k + 1]
    BY <2>1, Zenon DEF InOrder
  <2> QED BY <2>2
<1> QED BY <1>2, <1>3, <1>4, Zenon DEF InOrder

LEMMA OrderKept ==
  ASSUME NEW a, NEW b, NEW c, NEW m \in Nat, NEW n \in Nat,
         InOrder(a, m, b, n), \A k \in 1 .. m : c[k] = a[k]
  PROVE  InOrder(c, m, b, n)
BY Zenon DEF InOrder

\* With all lines read, the child has kept the matching lines of the file.
LEMMA AllRead ==
  ASSUME Conduct, Collecting, child \in {"close", "read", "work"},
         LinesIn(up) = 0, parent \notin Sending
  PROVE  \A line \in Matching : Copies(line, stline) = Copies(line, Text)
<1>1. parent # "killed" /\ SearchTypes /\ SentAll
  BY DEF Conduct, Roles
<1>2. Text \in Seq(Items) /\ cnt = Len(Text) /\ cnt \in Nat
  BY <1>1, TextFacts DEF SentAll
<1>3. Got = Len(Text)
  BY <1>2 DEF Got
<1> QED BY <1>2, <1>3, CopiesToAll DEF Collecting

LEMMA ContentsSends ==
  ASSUME Conduct, Contents, Conduct', SendsLine \/ SendsEnd
  PROVE  Contents'
<1> USE LineFacts
<1>1. Roles /\ SearchTypes /\ Collecting /\ Sorting /\ Delivering
  BY DEF Conduct, Contents
<1>2. parent \in Sending /\ parent # "killed"
  BY DEF SendsLine, SendsEnd, Sending
<1>3. child \in {"close", "read", "work"}
  BY <1>1, <1>2 DEF Roles, Sorting, Delivering, InputRead
<1>4. UNCHANGED <<program, file, output, child, stline, down>>
  BY DEF SendsLine, SendsEnd, childs
<1>5. /\ output = <<>> /\ down = <<>> /\ Got \in Nat /\ ~ Ended(up)
      /\ \A k \in 1 .. LinesIn(up) : up[k] = Text[Got + k]
      /\ \A line \in Matching : Copies(line, stline) = CopiesTo(line, Text, Got)
  BY <1>1, <1>2, <1>3 DEF Collecting
<1>6. up \in Seq(Items) /\ cnt \in Nat /\ Text' = Text
  BY <1>1, <1>4, StreamFacts, TextFacts DEF Text
<1>7. LinesIn(up) \in Nat /\ Got \in Nat /\ cnt \in Nat /\ Got + LinesIn(up) = cnt
  BY <1>5, <1>6, LinesInStream DEF Got
<1>8. /\ LinesIn(up') \in Nat /\ cnt' - LinesIn(up') = Got
      /\ \A k \in 1 .. LinesIn(up') : up'[k] = Text[Got + k]
      /\ Ended(up') => parent' \notin Sending
  <2>1. CASE SendsLine
    <3>1. /\ cnt' = cnt + 1 /\ up' = Append(up, Text[cnt + 1])
          /\ Text[cnt + 1] \in Items /\ Text[cnt + 1] # END
      BY <1>1, <2>1, TextFacts, ItemFacts DEF SendsLine
    <3>2. /\ ~ Ended(up') /\ LinesIn(up') = LinesIn(up) + 1
          /\ \A k \in 1 .. LinesIn(up) : up'[k] = up[k]
          /\ up'[LinesIn(up) + 1] = Text[cnt + 1]
      BY <1>5, <1>6, <3>1, PutIntoStream
    <3>3. \A k \in 1 .. LinesIn(up') : k \in 1 .. LinesIn(up) \/ (k = LinesIn(up) + 1 /\ Got + k = cnt + 1)
      BY <1>7, <3>2
    <3>4. \A k \in 1 .. LinesIn(up') : up'[k] = Text[Got + k]
      BY <1>5, <3>2, <3>3, Zenon
    <3>5. LinesIn(up') \in Nat /\ cnt' - LinesIn(up') = Got
      <4>1. cnt' = cnt + 1 /\ LinesIn(up') = LinesIn(up) + 1
        BY <3>1, <3>2
      <4> QED BY <1>7, <4>1
    <3> QED BY <3>2, <3>4, <3>5
  <2>2. CASE SendsEnd
    <3>1. cnt' = cnt /\ up' = Append(up, END) /\ parent' \notin Sending
      BY <2>2 DEF SendsEnd, Sending
    <3>2. /\ LinesIn(up') = LinesIn(up)
          /\ \A k \in 1 .. LinesIn(up) : up'[k] = up[k]
      BY <1>5, <1>6, <3>1, ItemFacts, PutIntoStream
    <3>3. \A k \in 1 .. LinesIn(up') : up'[k] = Text[Got + k]
      BY <1>5, <3>2, Zenon
    <3>4. LinesIn(up') \in Nat /\ cnt' - LinesIn(up') = Got
      BY <1>7, <3>1, <3>2
    <3> QED BY <3>1, <3>3, <3>4
  <2> QED BY <2>1, <2>2
<1>9. Got' = Got
  BY <1>8 DEF Got
<1>10. Collecting'
  BY <1>3, <1>4, <1>5, <1>6, <1>8, <1>9 DEF Collecting
<1>11. Sorting' /\ Delivering'
  BY <1>3, <1>4 DEF Sorting, Delivering
<1> QED BY <1>10, <1>11 DEF Contents

LEMMA ContentsGoesOn ==
  ASSUME Conduct, Contents, ParentGoesOn
  PROVE  Contents'
<1>1. UNCHANGED <<program, file, cnt, output, child, stline, up, down>>
  BY DEF ParentGoesOn, childs
<1>2. parent \notin Sending => parent' \notin Sending
  BY DEF ParentGoesOn, Sending
<1>3. UNCHANGED <<Text, Got>>
  BY <1>1 DEF Text, Got
<1> QED BY <1>1, <1>2, <1>3 DEF Contents, Collecting, Sorting, Delivering, InputRead

\* What the parent receives was written by a child that is done with the input.
LEMMA WhoWrites ==
  ASSUME Conduct, Contents, down # <<>>, parent # "killed"
  PROVE  child \in {"write", "exited"}
BY DEF Conduct, Contents, Roles, Collecting, Sorting

LEMMA ContentsReceives ==
  ASSUME Conduct, Contents, Conduct', ReceivesLine \/ ReceivesEnd
  PROVE  Contents'
<1> USE LineFacts
<1>1. SearchTypes /\ Delivering /\ parent = "receive" /\ down # <<>> /\ down' = Tail(down)
      /\ UNCHANGED <<file, cnt, child, stline, up>> /\ parent' \in {"receive", "done"}
  BY DEF Conduct, Contents, ReceivesLine, ReceivesEnd, childs
<1>2. child \in {"write", "exited"}
  BY <1>1, WhoWrites
<1>3. /\ InputRead
      /\ \A line \in Matching :
           Copies(line, output) + Copies(line, down) + Copies(line, stline) = Copies(line, Text)
      /\ \A k \in 1 .. LinesIn(down) : down[k] \in Matching
      /\ InOrder(down, LinesIn(down), stline, Len(stline))
      /\ child = "write" => ~ Ended(down)
      /\ child = "exited" => stline = <<>>
  BY <1>1, <1>2 DEF Delivering
<1>4. InputRead' /\ Text' = Text
  BY <1>1, <1>3 DEF InputRead, Sending, Text
<1>5. /\ down \in Seq(Items) /\ output \in Seq(Items) /\ stline \in Seq(Items) /\ Tail(down) \in Seq(Items)
      /\ Len(stline) \in Nat
  BY <1>1, StreamFacts
<1>6. ASSUME NEW line \in Matching
      PROVE  Copies(line, output) \in Nat /\ Copies(line, Tail(down)) \in Nat /\ Copies(line, stline) \in Nat
  BY <1>5, PlacesFinite
<1>7. CASE ReceivesLine
  <2>1. Head(down) \in Items /\ Head(down) # END /\ output' = Append(output, Head(down))
    BY <1>1, <1>5, <1>7 DEF ReceivesLine
  <2>2. /\ Ended(down') <=> Ended(down)
        /\ LinesIn(down) \in Nat \ {0} /\ LinesIn(down') = LinesIn(down) - 1
        /\ \A k \in 1 .. LinesIn(down') : k + 1 \in 1 .. LinesIn(down) /\ down'[k] = down[k + 1]
    BY <1>1, <1>5, <2>1, TakenFromStream
  <2>3. \A line \in Matching :
          Copies(line, output') + Copies(line, down') + Copies(line, stline) = Copies(line, Text)
    <3> SUFFICES ASSUME NEW line \in Matching
                 PROVE  Copies(line, output') + Copies(line, down') + Copies(line, stline) = Copies(line, Text)
      OBVIOUS
    <3>1. Copies(line, output') = Copies(line, output) + (IF Head(down) = line THEN 1 ELSE 0)
      BY <1>5, <2>1, CopiesAppend
    <3>2. Copies(line, down) = Copies(line, down') + (IF Head(down) = line THEN 1 ELSE 0)
      BY <1>1, <1>5, CopiesTail
    <3>3. Copies(line, output) \in Nat /\ Copies(line, down') \in Nat /\ Copies(line, stline) \in Nat
      BY <1>1, <1>6
    <3>4. Copies(line, output) + Copies(line, down) + Copies(line, stline) = Copies(line, Text)
      BY <1>3
    <3> QED BY <3>1, <3>2, <3>3, <3>4
  <2>4. \A k \in 1 .. LinesIn(down') : down'[k] \in Matching
    BY <1>3, <2>2
  <2>5. InOrder(down', LinesIn(down'), stline, Len(stline))
    BY <1>3, <1>5, <2>2, OrderWithoutFirst
  <2>6. Delivering'
    BY <1>1, <1>3, <1>4, <2>2, <2>3, <2>4, <2>5 DEF Delivering
  <2> QED BY <1>1, <1>2, <2>6 DEF Contents, Collecting, Sorting
<1>8. CASE ReceivesEnd
  <2>1. Head(down) = END /\ output' = output
    BY <1>8 DEF ReceivesEnd
  <2>2. \A k \in 1 .. LinesIn(down) : down[k] # END
    BY <1>3
  <2>3. LinesIn(down) = 0 /\ down' = <<>>
    BY <1>1, <1>5, <2>1, <2>2, EndOfStream
  <2>4. ~ Ended(down') /\ LinesIn(down') = 0
    BY <2>3, EmptyStream
  <2>5. \A line \in Matching :
          Copies(line, output) + Copies(line, down') + Copies(line, stline) = Copies(line, Text)
    <3> SUFFICES ASSUME NEW line \in Matching
                 PROVE  Copies(line, output) + Copies(line, down') + Copies(line, stline) = Copies(line, Text)
      OBVIOUS
    <3>1. Copies(line, down) = Copies(line, down') + (IF Head(down) = line THEN 1 ELSE 0)
      BY <1>1, <1>5, CopiesTail
    <3>2. Copies(line, output) \in Nat /\ Copies(line, down') \in Nat /\ Copies(line, stline) \in Nat
      BY <1>1, <1>6
    <3>3. Copies(line, output) + Copies(line, down) + Copies(line, stline) = Copies(line, Text)
      BY <1>3
    <3> QED BY <2>1, <3>1, <3>2, <3>3
  <2>6. InOrder(down', LinesIn(down'), stline, Len(stline))
    <3>1. \A k \in 1 .. LinesIn(down) : down'[k] = down[k]
      BY <2>3
    <3>2. 0 \in Nat
      OBVIOUS
    <3>3. InOrder(down', 0, stline, Len(stline))
      BY <1>3, <1>5, <2>3, <3>1, <3>2, OrderKept
    <3> QED BY <2>4, <3>3
  <2>7. Delivering'
    BY <1>1, <1>3, <1>4, <2>1, <2>4, <2>5, <2>6 DEF Delivering
  <2> QED BY <1>1, <1>2, <2>7 DEF Contents, Collecting, Sorting
<1> QED BY <1>7, <1>8

LEMMA ContentsReadsLine ==
  ASSUME Conduct, Contents, ReadsLine
  PROVE  Contents'
<1> USE LineFacts
<1>1. Roles /\ SearchTypes /\ Collecting
  BY DEF Conduct, Contents
<1>2. /\ child \in {"read", "work"} /\ up # <<>> /\ Head(up) # END /\ up' = Tail(up)
      /\ stline' = IF Head(up) \in Matching THEN Append(stline, Head(up)) ELSE stline
      /\ UNCHANGED <<program, file, parent, cnt, output, child, down>>
  BY DEF ReadsLine, KeepIfMatching, parents
<1>3. /\ output = <<>> /\ down = <<>> /\ Got \in Nat
      /\ \A k \in 1 .. LinesIn(up) : up[k] = Text[Got + k]
      /\ Ended(up) => parent \notin Sending
      /\ \A line \in Matching : Copies(line, stline) = CopiesTo(line, Text, Got)
  BY <1>1, <1>2 DEF Collecting
<1>4. up \in Seq(Items) /\ stline \in Seq(Items) /\ Text \in Seq(Items) /\ cnt \in Nat /\ Text' = Text
  BY <1>1, <1>2, StreamFacts, TextFacts DEF Text
<1>5. /\ Ended(up') <=> Ended(up)
      /\ LinesIn(up) \in Nat \ {0} /\ LinesIn(up') = LinesIn(up) - 1
      /\ \A k \in 1 .. LinesIn(up') : k + 1 \in 1 .. LinesIn(up) /\ up'[k] = up[k + 1]
  BY <1>2, <1>4, TakenFromStream
<1>6. Got' = Got + 1 /\ Got' \in Nat
  <2>1. Got = cnt - LinesIn(up) /\ Got' = cnt - LinesIn(up')
    BY <1>2 DEF Got
  <2>2. Got \in Nat
    BY <1>3
  <2> QED BY <1>4, <1>5, <2>1, <2>2
<1>7. Head(up) = Text[Got + 1]
  <2>1. Head(up) = up[1] /\ 1 \in 1 .. LinesIn(up)
    BY <1>2, <1>4, <1>5
  <2> QED BY <1>3, <2>1
<1>8. \A k \in 1 .. LinesIn(up') : up'[k] = Text[Got' + k]
  <2> SUFFICES ASSUME NEW k \in 1 .. LinesIn(up') PROVE up'[k] = Text[Got' + k]
    OBVIOUS
  <2>1. k + 1 \in 1 .. LinesIn(up) /\ up'[k] = up[k + 1]
    BY <1>5
  <2>2. Got + (k + 1) = Got' + k
    BY <1>3, <1>5, <1>6
  <2> QED BY <1>3, <2>1, <2>2, Zenon
<1>9. ASSUME NEW line \in Matching
      PROVE  Copies(line, stline') = CopiesTo(line, Text, Got')
  <2>1. /\ Text[Got'] = line => CopiesTo(line, Text, Got') = CopiesTo(line, Text, Got) + 1
        /\ Text[Got'] # line => CopiesTo(line, Text, Got') = CopiesTo(line, Text, Got)
    <3>1. Got \in Nat /\ Got' = Got + 1
      BY <1>3, <1>6
    <3> QED BY <3>1, CopiesToNext
  <2>2. Head(up) \in Matching =>
          Copies(line, stline') = Copies(line, stline) + (IF Head(up) = line THEN 1 ELSE 0)
    BY <1>2, <1>4, ItemFacts, CopiesAppend
  <2>3. Head(up) \notin Matching => stline' = stline /\ Head(up) # line
    BY <1>2
  <2>4. Copies(line, stline) = CopiesTo(line, Text, Got) /\ Copies(line, stline) \in Nat
    BY <1>3, <1>4, PlacesFinite
  <2> QED BY <1>6, <1>7, <2>1, <2>2, <2>3, <2>4
<1>10. Collecting'
  BY <1>2, <1>3, <1>4, <1>5, <1>6, <1>8, <1>9 DEF Collecting
<1> QED BY <1>2, <1>10 DEF Contents, Sorting, Delivering

LEMMA ContentsReadsEnd ==
  ASSUME Conduct, Contents, ReadsEnd
  PROVE  Contents'
<1> USE LineFacts
<1>1. Roles /\ SearchTypes /\ SentAll /\ Collecting
  BY DEF Conduct, Contents
<1>2. /\ child = "work" /\ child' = "post" /\ up # <<>> /\ Head(up) = END /\ up' = Tail(up)
      /\ UNCHANGED <<program, file, parent, cnt, output, stline, down>>
  BY DEF ReadsEnd, parents
<1>3. /\ output = <<>> /\ down = <<>> /\ Got \in Nat
      /\ \A k \in 1 .. LinesIn(up) : up[k] = Text[Got + k]
      /\ Ended(up) => parent \notin Sending
  BY <1>1, <1>2 DEF Collecting
<1>4. /\ up \in Seq(Items) /\ cnt \in Nat /\ Len(Text) \in Nat /\ cnt <= Len(Text)
      /\ Text' = Text /\ \A k \in 1 .. Len(Text) : Text[k] \in Lines
  BY <1>1, <1>2, StreamFacts, TextFacts DEF Text
<1>5. LinesIn(up) \in Nat /\ Got + LinesIn(up) = cnt
  BY <1>3, <1>4, LinesInStream DEF Got
<1>6. \A k \in 1 .. LinesIn(up) : up[k] # END
  <2>1. \A k \in 1 .. LinesIn(up) : Got + k \in 1 .. Len(Text)
    BY <1>3, <1>4, <1>5
  <2> QED BY <1>3, <1>4, <2>1
<1>7. Ended(up) /\ LinesIn(up) = 0 /\ up' = <<>>
  BY <1>2, <1>4, <1>6, EndOfStream
<1>8. \A line \in Matching : Copies(line, stline) = Copies(line, Text)
  BY <1>1, <1>2, <1>3, <1>7, AllRead
<1>9. Sorting'
  BY <1>2, <1>3, <1>4, <1>7, <1>8 DEF Sorting, InputRead, Sending
<1> QED BY <1>2, <1>9 DEF Contents, Collecting, Delivering

LEMMA ContentsCloses ==
  ASSUME Conduct, Contents, Closes
  PROVE  Contents'
<1>1. /\ child = "close" /\ child' = "read"
      /\ UNCHANGED <<program, file, parent, cnt, output, stline, up, down, Text, Got>>
  BY DEF Closes, parents, Text, Got
<1>2. Collecting'
  BY <1>1 DEF Contents, Collecting
<1> QED BY <1>1, <1>2 DEF Contents, Sorting, Delivering

LEMMA ContentsSorts ==
  ASSUME Conduct, Contents, Sorts
  PROVE  Contents'
<1> USE LineFacts
<1>1. Roles /\ SearchTypes /\ PipeEnds /\ Collecting /\ Sorting
  BY DEF Conduct, Contents
<1>2. /\ child' = "write" /\ stline' \in Alphabetical(stline)
      /\ UNCHANGED <<program, file, parent, cnt, output, up, down>>
  BY DEF Sorts, parents
<1>3. /\ InputRead /\ output = <<>> /\ down = <<>>
      /\ \A line \in Matching : Copies(line, stline) = Copies(line, Text)
  <2>1. CASE child = "post"
    BY <1>1, <2>1 DEF Sorting
  <2>2. CASE child # "post"
    <3>1. child = "read" /\ up = <<>> /\ program = "pipe" /\ up_writers = {}
      BY <2>2 DEF Sorts
    <3>2. parent \notin Sending
      BY <1>1, <3>1 DEF PipeEnds
    <3>3. LinesIn(up) = 0
      BY <3>1, EmptyStream
    <3>4. \A line \in Matching : Copies(line, stline) = Copies(line, Text)
      BY <1>1, <3>1, <3>2, <3>3, AllRead
    <3> QED BY <1>1, <3>1, <3>2, <3>4 DEF Collecting, InputRead
  <2> QED BY <2>1, <2>2
<1>4. stline \in Seq(Matching) /\ Text' = Text
  BY <1>1, <1>2 DEF SearchTypes, Text
<1>5. /\ stline' \in Seq(Matching)
      /\ \A j, k \in 1 .. Len(stline') : j <= k => stline'[j] <= stline'[k]
      /\ \A line \in Matching : Copies(line, stline') = Copies(line, stline)
  BY <1>2, <1>4, SortedLines
<1>6. ~ Ended(down) /\ LinesIn(down) = 0
  BY <1>3, EmptyStream
<1>7. InOrder(down, 0, stline', Len(stline'))
  BY <1>5 DEF InOrder
<1>8. ASSUME NEW line \in Matching
      PROVE  Copies(line, output) + Copies(line, down) + Copies(line, stline') = Copies(line, Text)
  <2>1. Copies(line, output) = 0 /\ Copies(line, down) = 0
    BY <1>3, CopiesOfEmpty
  <2>2. Copies(line, stline') \in Nat
    BY <1>5, ItemFacts, PlacesFinite
  <2> QED BY <1>3, <1>5, <2>1, <2>2
<1>9. Delivering'
  BY <1>2, <1>3, <1>4, <1>6, <1>7, <1>8 DEF Delivering, InputRead
<1> QED BY <1>2, <1>9 DEF Contents, Collecting, Sorting

LEMMA ContentsWrites ==
  ASSUME Conduct, Contents, WritesLine
  PROVE  Contents'
<1> USE LineFacts
<1>1. SearchTypes /\ Delivering
  BY DEF Conduct, Contents
<1>2. /\ child = "write" /\ stline # <<>> /\ down' = Append(down, Head(stline)) /\ stline' = Tail(stline)
      /\ UNCHANGED <<program, file, parent, cnt, output, child, up>>
  BY DEF WritesLine, parents
<1>3. /\ InputRead
      /\ \A line \in Matching :
           Copies(line, output) + Copies(line, down) + Copies(line, stline) = Copies(line, Text)
      /\ \A k \in 1 .. LinesIn(down) : down[k] \in Matching
      /\ InOrder(down, LinesIn(down), stline, Len(stline))
      /\ ~ Ended(down)
  BY <1>1, <1>2 DEF Delivering
<1>4. InputRead' /\ Text' = Text
  BY <1>2, <1>3 DEF InputRead, Text
<1>5. down \in Seq(Items) /\ output \in Seq(Items) /\ stline \in Seq(Matching) /\ stline \in Seq(Items)
  BY <1>1, StreamFacts DEF SearchTypes
<1>6. /\ Head(stline) \in Matching /\ Head(stline) \in Items
      /\ Head(stline) # END /\ Head(stline) = stline[1]
      /\ Tail(stline) \in Seq(Items) /\ Len(stline) \in Nat \ {0}
      /\ Len(stline') = Len(stline) - 1
      /\ \A k \in 1 .. Len(stline) - 1 : stline'[k] = stline[k + 1]
  BY <1>2, <1>5, ItemFacts
<1>7. /\ ~ Ended(down') /\ LinesIn(down') = LinesIn(down) + 1
      /\ \A k \in 1 .. LinesIn(down) : down'[k] = down[k]
      /\ down'[LinesIn(down) + 1] = Head(stline)
  BY <1>2, <1>3, <1>5, <1>6, PutIntoStream
<1>8. LinesIn(down) \in Nat
  BY <1>5, LinesInStream
<1>9. InOrder(down', LinesIn(down'), stline', Len(stline'))
  <2>1. InOrder(down', LinesIn(down) + 1, stline', Len(stline) - 1)
    BY <1>3, <1>6, <1>7, <1>8, OrderMoved
  <2>2. LinesIn(down') = LinesIn(down) + 1 /\ Len(stline') = Len(stline) - 1
    BY <1>6, <1>7
  <2> QED BY <2>1, <2>2
<1>10. \A k \in 1 .. LinesIn(down') : down'[k] \in Matching
  <2>1. \A k \in 1 .. LinesIn(down') : k \in 1 .. LinesIn(down) \/ k = LinesIn(down) + 1
    BY <1>7, <1>8
  <2> QED BY <1>3, <1>6, <1>7, <2>1
<1>11. ASSUME NEW line \in Matching
       PROVE  Copies(line, output) + Copies(line, down') + Copies(line, stline') = Copies(line, Text)
  <2>1. Copies(line, down') = Copies(line, down) + (IF Head(stline) = line THEN 1 ELSE 0)
    BY <1>2, <1>5, <1>6, CopiesAppend
  <2>2. Copies(line, stline) = Copies(line, stline') + (IF Head(stline) = line THEN 1 ELSE 0)
    BY <1>2, <1>5, CopiesTail
  <2>3. Copies(line, output) \in Nat /\ Copies(line, down) \in Nat /\ Copies(line, stline') \in Nat
    BY <1>2, <1>5, <1>6, PlacesFinite
  <2>4. Copies(line, output) + Copies(line, down) + Copies(line, stline) = Copies(line, Text)
    BY <1>3
  <2> QED BY <2>1, <2>2, <2>3, <2>4
<1>12. Delivering'
  BY <1>2, <1>4, <1>7, <1>9, <1>10, <1>11 DEF Delivering
<1> QED BY <1>2, <1>12 DEF Contents, Collecting, Sorting

LEMMA ContentsLeaves ==
  ASSUME Conduct, Contents, Leaves
  PROVE  Contents'
<1> USE LineFacts
<1>1. SearchTypes /\ Delivering
  BY DEF Conduct, Contents
<1>2. /\ child = "write" /\ child' = "exited" /\ stline = <<>>
      /\ down' \in {down, Append(down, END)}
      /\ UNCHANGED <<program, file, parent, cnt, output, stline, up>>
  BY DEF Leaves, parents
<1>3. /\ InputRead
      /\ \A line \in Matching :
           Copies(line, output) + Copies(line, down) + Copies(line, stline) = Copies(line, Text)
      /\ \A k \in 1 .. LinesIn(down) : down[k] \in Matching
      /\ InOrder(down, LinesIn(down), stline, Len(stline))
      /\ ~ Ended(down)
  BY <1>1, <1>2 DEF Delivering
<1>4. InputRead' /\ Text' = Text
  BY <1>2, <1>3 DEF InputRead, Text
<1>5. down \in Seq(Items) /\ END \in Items /\ LinesIn(down) \in Nat /\ Len(stline) \in Nat
  BY <1>1, StreamFacts, ItemFacts, LinesInStream
<1>6. LinesIn(down') = LinesIn(down) /\ \A k \in 1 .. LinesIn(down) : down'[k] = down[k]
  <2>1. CASE down' = down
    BY <1>5, <2>1
  <2>2. CASE down' = Append(down, END)
    BY <1>3, <1>5, <2>2, PutIntoStream
  <2> QED BY <1>2, <2>1, <2>2
<1>7. \A line \in Matching : Copies(line, down') = Copies(line, down)
  <2> SUFFICES ASSUME NEW line \in Matching PROVE Copies(line, down') = Copies(line, down)
    OBVIOUS
  <2>1. Copies(line, Append(down, END)) = Copies(line, down) + (IF END = line THEN 1 ELSE 0)
    BY <1>5, CopiesAppend
  <2>2. Copies(line, down) \in Nat /\ END # line
    BY <1>5, PlacesFinite
  <2>3. Copies(line, Append(down, END)) = Copies(line, down)
    BY <2>1, <2>2
  <2>4. CASE down' = down
    BY <2>4
  <2>5. CASE down' = Append(down, END)
    BY <2>3, <2>5
  <2> QED BY <1>2, <2>4, <2>5
<1>8. InOrder(down', LinesIn(down'), stline, Len(stline))
  BY <1>3, <1>5, <1>6, OrderKept
<1>9. Delivering'
  BY <1>2, <1>3, <1>4, <1>6, <1>7, <1>8 DEF Delivering
<1> QED BY <1>2, <1>9 DEF Contents, Collecting, Sorting

-----------------------------------------------------------------------------
(* The invariant holds.                                                    *)

\* Nothing is sent down before everything sent up was read.
LEMMA NoAnswerEarly == Contents /\ Roles /\ parent # "killed" => AnswersAfterInput
BY DEF Contents, Roles, Collecting, Sorting, Delivering, InputRead, Sending, AnswersAfterInput

Fresh ==
  /\ SearchTypes
  /\ up = <<>> /\ down = <<>> /\ output = <<>> /\ stline = <<>>
  /\ cnt = 0
  /\ child \in {"close", "work"}

LEMMA FreshContents == Fresh => Contents /\ AnswersAfterInput
<1> SUFFICES ASSUME Fresh PROVE Contents /\ AnswersAfterInput
  OBVIOUS
<1>1. Got = 0 /\ LinesIn(up) = 0 /\ ~ Ended(up)
  BY EmptyStream DEF Got, Fresh
<1>2. ASSUME NEW line PROVE Copies(line, stline) = CopiesTo(line, Text, Got)
  <2>1. CopiesTo(line, Text, 0) = 0
    BY CopiesToNone
  <2> QED BY <1>1, <2>1, CopiesOfEmpty DEF Fresh
<1>3. Collecting
  BY <1>1, <1>2 DEF Fresh, Collecting
<1> QED BY <1>3 DEF Fresh, Contents, Sorting, Delivering, AnswersAfterInput

LEMMA StreamInvInit == StreamInit => StreamInv
BY ConductInit, FreshContents DEF StreamInv, Conduct, Fresh

LEMMA StreamInvWorks == StreamInv /\ (ParentWorks \/ ChildWorks) => StreamInv'
<1> SUFFICES ASSUME StreamInv, ParentWorks \/ ChildWorks PROVE StreamInv'
  OBVIOUS
<1>1. Conduct /\ Contents
  BY DEF StreamInv
<1>2. Conduct'
  BY <1>1, ConductParent, ConductChild
<1>3. Contents'
  <2>1. CASE SendsLine \/ SendsEnd
    BY <1>1, <1>2, <2>1, ContentsSends
  <2>2. CASE ParentGoesOn
    BY <1>1, <2>2, ContentsGoesOn
  <2>3. CASE ReceivesLine \/ ReceivesEnd
    BY <1>1, <1>2, <2>3, ContentsReceives
  <2>4. CASE ChildWorks
    BY <1>1, <2>4, ContentsReadsLine, ContentsReadsEnd, ContentsCloses, ContentsSorts, ContentsWrites,
       ContentsLeaves DEF ChildWorks
  <2> QED BY <2>1, <2>2, <2>3, <2>4 DEF ParentWorks
<1>4. parent' # "killed"
  <2>1. CASE ParentWorks
    BY <2>1 DEF ParentWorks, SendsLine, SendsEnd, ParentGoesOn, ReceivesLine, ReceivesEnd
  <2>2. CASE ChildWorks
    <3>1. child' # "killed"
      BY <2>2 DEF ChildWorks, ReadsLine, ReadsEnd, Closes, Sorts, WritesLine, Leaves
    <3> QED BY <1>2, <3>1 DEF Conduct, Roles
  <2> QED BY <2>1, <2>2
<1>5. AnswersAfterInput'
  <2>1. Roles'
    BY <1>2 DEF Conduct
  <2>2. (Contents /\ Roles /\ parent # "killed" => AnswersAfterInput)'
    BY NoAnswerEarly, PTL
  <2> QED BY <1>3, <1>4, <2>1, <2>2
<1> QED BY <1>2, <1>3, <1>5 DEF StreamInv

LEMMA StreamInvKill == StreamInv /\ Socket!Kill => StreamInv'
<1> SUFFICES ASSUME StreamInv, Socket!Kill PROVE StreamInv'
  OBVIOUS
<1>1. /\ program = "socketpair" /\ parent' = "killed" /\ child' = "killed"
      /\ UNCHANGED <<program, file, cnt, output, stline, up, down>>
  BY DEF Socket!Kill
<1>2. Conduct'
  BY <1>1 DEF StreamInv, Conduct, Roles, SearchTypes, PipeEnds, SentAll, Text
<1>3. Contents'
  BY <1>1 DEF Contents, Collecting, Sorting, Delivering
<1>4. AnswersAfterInput'
  BY <1>1 DEF StreamInv, AnswersAfterInput
<1> QED BY <1>2, <1>3, <1>4 DEF StreamInv

LEMMA StreamInvStart == StreamInv /\ Socket!Start => StreamInv'
<1> SUFFICES ASSUME StreamInv, Socket!Start PROVE StreamInv'
  OBVIOUS
<1>1. /\ program = "socketpair" /\ program' = program /\ parent' = "work" /\ child' = "work"
      /\ file' \in Files \union {MISSING} /\ cnt' = 0 /\ output' = <<>> /\ stline' = <<>>
      /\ up' = <<>> /\ down' = <<>>
  BY DEF Socket!Start
<1>2. SearchTypes'
  <2>1. Text' \in Seq(Lines)
    BY <1>1, StreamAssumption DEF Text
  <2>2. 0 \in 0 .. Len(Text')
    BY <2>1
  <2> QED BY <1>1, <2>2 DEF SearchTypes
<1>3. Conduct'
  BY <1>1, <1>2 DEF Conduct, Roles, PipeEnds, SentAll, Sending
<1>4. Contents' /\ AnswersAfterInput'
  <2>1. Fresh'
    BY <1>1, <1>2 DEF Fresh
  <2>2. (Fresh => Contents /\ AnswersAfterInput)'
    BY FreshContents, PTL
  <2> QED BY <2>1, <2>2
<1> QED BY <1>3, <1>4 DEF StreamInv

LEMMA StreamInvStep == StreamInv /\ [StreamNext]_streamvars => StreamInv'
<1>1. StreamInv /\ StreamNext => StreamInv'
  BY KindsOfSteps, StreamInvWorks, StreamInvKill, StreamInvStart DEF StreamInv
<1>2. StreamInv /\ UNCHANGED streamvars => StreamInv'
  <2> SUFFICES ASSUME StreamInv, UNCHANGED streamvars PROVE StreamInv'
    OBVIOUS
  <2>1. UNCHANGED <<program, file, parent, cnt, output, child, stline, up, down, up_writers, down_writers,
                    Text, Got>>
    BY DEF streamvars, parents, childs, writers, Text, Got
  <2> QED BY <2>1 DEF StreamInv, Conduct, Contents, AnswersAfterInput, Roles, SearchTypes, PipeEnds, SentAll,
                      Collecting, Sorting, Delivering, InputRead
<1> QED BY <1>1, <1>2

LEMMA StreamInvAlways == StreamSpec => []StreamInv
BY StreamInvInit, StreamInvStep, PTL DEF StreamSpec

\* The child of a search over a pipe or a socket pair sends nothing before it
\* has taken all that the parent sends, however much fits into the streams,
\* which is why the two cannot wait for each other to read.
THEOREM AnswersComeAfterInput == StreamSpec => []AnswersAfterInput
<1>1. StreamInv => AnswersAfterInput
  BY DEF StreamInv
<1> QED BY <1>1, StreamInvAlways, PTL

-----------------------------------------------------------------------------
(* The programs implement the search.                                      *)

LEMMA SearchMissing ==
  \A line : Search!Missing(line) <=> Copies(line, output) < Copies(line, Text)
<1>1. \A line, lines : Search!Copies(line, lines) = Copies(line, lines)
  BY Zenon DEF Search!Copies, Copies, Search!Cardinality, Cardinality
<1> QED BY <1>1 DEF Search!Missing, Text

LEMMA SearchInit == StreamInit => Search!Init
<1> SUFFICES ASSUME StreamInit PROVE Search!Init
  OBVIOUS
<1>1. file \in Files \union {MISSING} /\ output = <<>> /\ parent # "done"
  BY DEF StreamInit, Pipe!Init, Pipe!FreshRun, Socket!Init, Socket!FreshRun, Sleep!Init, Sleep!FreshRun
<1>2. (IF file = MISSING THEN <<>> ELSE file) \in Files \union {<<>>}
  BY <1>1
<1> QED BY <1>1, <1>2 DEF Search!Init

LEMMA SearchStart == Socket!Start => Search!Start
<1> SUFFICES ASSUME Socket!Start PROVE Search!Start
  OBVIOUS
<1>1. file' \in Files \union {MISSING} /\ output' = <<>> /\ parent' # "done"
  BY DEF Socket!Start
<1>2. (IF file' = MISSING THEN <<>> ELSE file') \in Files \union {<<>>}
  BY <1>1
<1> QED BY <1>1, <1>2 DEF Search!Start

\* Each line the parent receives is the least of the missing ones.
LEMMA SearchDeliver == StreamInv /\ ReceivesLine => Search!Deliver
<1> SUFFICES ASSUME StreamInv, ReceivesLine PROVE Search!Deliver
  OBVIOUS
<1> USE LineFacts
<1>1. /\ parent = "receive" /\ parent' = "receive" /\ down # <<>> /\ Head(down) # END
      /\ output' = Append(output, Head(down)) /\ file' = file
  BY DEF ReceivesLine
<1>2. Conduct /\ Contents /\ SearchTypes /\ Delivering
  BY DEF StreamInv, Conduct, Contents
<1>3. /\ \A line \in Matching :
           Copies(line, output) + Copies(line, down) + Copies(line, stline) = Copies(line, Text)
      /\ InOrder(down, LinesIn(down), stline, Len(stline))
  BY <1>1, <1>2, WhoWrites DEF Delivering
<1>4. /\ down \in Seq(Items) /\ output \in Seq(Items) /\ stline \in Seq(Items) /\ Tail(down) \in Seq(Items)
      /\ Head(down) \in Matching /\ Head(down) = down[1]
  <2>1. down \in Seq(Items) /\ output \in Seq(Items) /\ stline \in Seq(Items)
    BY <1>2, StreamFacts
  <2>2. Tail(down) \in Seq(Items) /\ Head(down) = down[1] /\ 1 \in 1 .. Len(down)
    BY <1>1, <2>1
  <2> QED BY <1>1, <1>2, <2>1, <2>2, StreamFacts
<1>5. 1 \in 1 .. LinesIn(down) /\ \A k \in 1 .. LinesIn(down) : 1 <= k
  <2>1. LinesIn(down) \in Nat \ {0}
    BY <1>1, <1>4, TakenFromStream
  <2> QED BY <2>1
<1>6. ASSUME NEW line \in Matching
      PROVE  /\ Copies(line, output) \in Nat /\ Copies(line, down) \in Nat /\ Copies(line, stline) \in Nat
             /\ Search!Missing(line) <=> Copies(line, down) # 0 \/ Copies(line, stline) # 0
  <2>1. Copies(line, output) \in Nat /\ Copies(line, down) \in Nat /\ Copies(line, stline) \in Nat
    BY <1>4, PlacesFinite
  <2>2. Copies(line, output) + Copies(line, down) + Copies(line, stline) = Copies(line, Text)
    BY <1>3
  <2>3. Search!Missing(line) <=> Copies(line, output) < Copies(line, Text)
    BY SearchMissing
  <2> QED BY <2>1, <2>2, <2>3
<1>7. Search!Missing(Head(down))
  <2>1. Copies(Head(down), down) = Copies(Head(down), Tail(down)) + 1
    BY <1>1, <1>4, CopiesTail
  <2>2. Copies(Head(down), Tail(down)) \in Nat
    BY <1>4, PlacesFinite
  <2>3. Copies(Head(down), down) # 0
    BY <2>1, <2>2
  <2>4. Search!Missing(Head(down)) <=> Copies(Head(down), down) # 0 \/ Copies(Head(down), stline) # 0
    BY <1>4, <1>6
  <2> QED BY <2>3, <2>4
<1>8. ASSUME NEW other \in Matching, Search!Missing(other)
      PROVE  Head(down) <= other
  <2>1. CASE Copies(other, down) # 0
    <3>1. PICK k \in 1 .. Len(down) : down[k] = other
      BY <1>4, <2>1, CopiesOfSome
    <3>2. k \in 1 .. LinesIn(down)
      BY <1>4, <3>1, LinesInStream
    <3> QED BY <1>3, <1>4, <1>5, <3>1, <3>2, Zenon DEF InOrder
  <2>2. CASE Copies(other, stline) # 0
    <3>1. PICK k \in 1 .. Len(stline) : stline[k] = other
      BY <1>4, <2>2, CopiesOfSome
    <3> QED BY <1>3, <1>4, <1>5, <3>1, Zenon DEF InOrder
  <2> QED BY <1>6, <1>8, <2>1, <2>2
<1>9. \E line \in Matching :
        /\ Search!Missing(line)
        /\ \A other \in Matching : Search!Missing(other) => line <= other
        /\ output' = Append(output, line)
  BY <1>1, <1>4, <1>7, <1>8, Zenon
<1> QED BY <1>1, <1>9 DEF Search!Deliver

\* No line is missing when the program ends.
LEMMA SearchFinish ==
  ASSUME StreamInv, child \in {"write", "exited"}, stline = <<>>,
         \A line \in Matching : Copies(line, down) = 0,
         parent' = "done", UNCHANGED <<file, output>>
  PROVE  Search!Finish
<1>1. SearchTypes /\ Delivering
  BY DEF StreamInv, Conduct, Contents
<1>2. ASSUME NEW line \in Matching PROVE ~ Search!Missing(line)
  <2>1. Copies(line, output) + Copies(line, down) + Copies(line, stline) = Copies(line, Text)
    BY <1>1 DEF Delivering
  <2>2. Copies(line, output) \in Nat
    BY <1>1, StreamFacts, PlacesFinite
  <2>3. Copies(line, stline) = 0
    BY CopiesOfEmpty
  <2>4. Copies(line, output) = Copies(line, Text)
    BY <2>1, <2>2, <2>3
  <2>5. Search!Missing(line) <=> Copies(line, output) < Copies(line, Text)
    BY SearchMissing
  <2> QED BY <2>2, <2>4, <2>5
<1> QED BY <1>2 DEF Search!Finish

LEMMA SearchFinishes == StreamInv /\ ReceivesEnd => Search!Finish
<1> SUFFICES ASSUME StreamInv, ReceivesEnd PROVE Search!Finish
  OBVIOUS
<1> USE LineFacts
<1>1. /\ parent = "receive" /\ parent' = "done" /\ down # <<>> /\ Head(down) = END
      /\ UNCHANGED <<file, output>>
  BY DEF ReceivesEnd
<1>2. Conduct /\ Contents /\ SearchTypes /\ Delivering
  BY DEF StreamInv, Conduct, Contents
<1>3. child \in {"write", "exited"}
  BY <1>1, <1>2, WhoWrites
<1>4. down \in Seq(Items) /\ \A k \in 1 .. LinesIn(down) : down[k] # END
  BY <1>2, <1>3, StreamFacts DEF Delivering
<1>5. Ended(down) /\ Tail(down) = <<>>
  BY <1>1, <1>4, EndOfStream
<1>6. stline = <<>>
  BY <1>2, <1>3, <1>5 DEF Delivering
<1>7. ASSUME NEW line \in Matching PROVE Copies(line, down) = 0
  <2>1. Copies(line, down) = Copies(line, Tail(down)) + (IF Head(down) = line THEN 1 ELSE 0)
    BY <1>1, <1>4, CopiesTail
  <2>2. Copies(line, Tail(down)) = 0
    BY <1>5, CopiesOfEmpty
  <2> QED BY <1>1, <2>1, <2>2
<1> QED BY <1>1, <1>3, <1>6, <1>7, SearchFinish

LEMMA SearchGoesOn == StreamInv /\ ParentGoesOn => Search!Finish \/ UNCHANGED Search!vars
<1> SUFFICES ASSUME StreamInv, ParentGoesOn PROVE Search!Finish \/ UNCHANGED Search!vars
  OBVIOUS
<1>1. UNCHANGED <<file, output>>
  BY DEF ParentGoesOn
<1>2. CASE parent' = "done"
  <2>1. program = "pipe" /\ parent = "wait" /\ child = "exited"
    BY <1>2 DEF ParentGoesOn
  <2>2. down = <<>> /\ stline = <<>>
    BY <2>1 DEF StreamInv, Conduct, Contents, PipeEnds, Delivering
  <2>3. ASSUME NEW line \in Matching PROVE Copies(line, down) = 0
    BY <2>2, CopiesOfEmpty
  <2> QED BY <1>1, <1>2, <2>1, <2>2, <2>3, SearchFinish
<1>3. CASE parent' # "done"
  <2>1. parent # "done"
    BY DEF ParentGoesOn
  <2> QED BY <1>1, <1>3, <2>1 DEF Search!vars
<1> QED BY <1>2, <1>3

LEMMA SearchStutters ==
  ASSUME SendsLine \/ SendsEnd \/ ChildWorks \/ Socket!Kill \/ UNCHANGED streamvars
  PROVE  UNCHANGED Search!vars
<1>1. UNCHANGED <<file, output>>
  BY DEF SendsLine, SendsEnd, ChildWorks, ReadsLine, ReadsEnd, Closes, Sorts, WritesLine, Leaves, Socket!Kill,
         streamvars, parents
<1>2. parent' = parent \/ (parent # "done" /\ parent' # "done")
  BY DEF SendsLine, SendsEnd, ChildWorks, ReadsLine, ReadsEnd, Closes, Sorts, WritesLine, Leaves, Socket!Kill,
         streamvars, parents
<1> QED BY <1>1, <1>2 DEF Search!vars

LEMMA SearchStep ==
  StreamInv /\ [StreamNext]_streamvars => [Search!Start \/ Search!Deliver \/ Search!Finish]_(Search!vars)
<1> SUFFICES ASSUME StreamInv, [StreamNext]_streamvars
             PROVE  Search!Start \/ Search!Deliver \/ Search!Finish \/ UNCHANGED Search!vars
  OBVIOUS
<1>1. ParentWorks \/ ChildWorks \/ Socket!Kill \/ Socket!Start \/ UNCHANGED streamvars
  BY KindsOfSteps DEF StreamInv
<1>2. CASE ParentWorks
  BY <1>2, SearchDeliver, SearchFinishes, SearchGoesOn, SearchStutters DEF ParentWorks
<1> QED BY <1>1, <1>2, SearchStart, SearchStutters

\* A search over a pipe or a socket pair, with the semaphore, with one that an
\* interrupted run has left at any value, or with a sleep in its place, delivers
\* the matching lines of its file, each as often as the file has it, in the order
\* of the alphabet, and is not over before all are there.
THEOREM SearchesImplementLineSearch == StreamSpec => ImplementsLineSearch
BY SearchInit, SearchStep, StreamInvAlways, PTL DEF StreamSpec, ImplementsLineSearch, Search!Spec

-----------------------------------------------------------------------------
(* The echo server: queues of connections.                                 *)

LEMMA EmptyQueue ==
  ASSUME NEW c
  PROVE  ~ Contains(<<>>, c) /\ IsInjective(<<>>) /\ Len(<<>>) = 0
BY DEF Contains, IsInjective

\* One that is not in the queue comes to its end.
LEMMA AppendQueue ==
  ASSUME NEW T, NEW q \in Seq(T), NEW c \in T
  PROVE  /\ Append(q, c) \in Seq(T)
         /\ Len(Append(q, c)) = Len(q) + 1
         /\ \A d : Contains(Append(q, c), d) <=> Contains(q, d) \/ d = c
         /\ IsInjective(q) /\ ~ Contains(q, c) => IsInjective(Append(q, c))
<1> DEFINE p == Append(q, c)
<1>1. /\ p \in Seq(T) /\ Len(p) = Len(q) + 1 /\ Len(q) \in Nat
      /\ \A n \in 1 .. Len(q) : p[n] = q[n]
      /\ p[Len(q) + 1] = c
      /\ DOMAIN p = 1 .. Len(q) + 1 /\ DOMAIN q = 1 .. Len(q)
  OBVIOUS
<1> HIDE DEF p
<1>2. \A n \in 1 .. Len(p) : n \in 1 .. Len(q) \/ n = Len(q) + 1
  BY <1>1
<1>3. ASSUME NEW d PROVE Contains(p, d) <=> Contains(q, d) \/ d = c
  <2>1. ASSUME Contains(p, d) PROVE Contains(q, d) \/ d = c
    BY <1>1, <1>2, <2>1 DEF Contains
  <2>2. ASSUME Contains(q, d) PROVE Contains(p, d)
    <3>1. PICK n \in 1 .. Len(q) : q[n] = d
      BY <2>2 DEF Contains
    <3>2. n \in 1 .. Len(p) /\ p[n] = d
      BY <1>1, <3>1
    <3> QED BY <3>2 DEF Contains
  <2>3. Contains(p, c)
    <3>1. Len(q) + 1 \in 1 .. Len(p)
      BY <1>1
    <3> QED BY <1>1, <3>1 DEF Contains
  <2> QED BY <2>1, <2>2, <2>3
<1>4. ASSUME IsInjective(q), ~ Contains(q, c) PROVE IsInjective(p)
  <2> SUFFICES ASSUME NEW a \in DOMAIN p, NEW b \in DOMAIN p, p[a] = p[b] PROVE a = b
    BY DEF IsInjective
  <2>1. CASE a \in 1 .. Len(q) /\ b \in 1 .. Len(q)
    BY <1>1, <1>4, <2>1 DEF IsInjective
  <2>2. CASE a \notin 1 .. Len(q) \/ b \notin 1 .. Len(q)
    BY <1>1, <1>2, <1>4, <2>2 DEF Contains
  <2> QED BY <2>1, <2>2
<1> QED BY <1>1, <1>3, <1>4 DEF p

\* The first of the queue leaves it.
LEMMA TailQueue ==
  ASSUME NEW T, NEW q \in Seq(T), q # <<>>
  PROVE  /\ Head(q) \in T /\ Tail(q) \in Seq(T)
         /\ Len(Tail(q)) = Len(q) - 1
         /\ \A d : Contains(q, d) <=> Contains(Tail(q), d) \/ d = Head(q)
         /\ IsInjective(q) => IsInjective(Tail(q)) /\ ~ Contains(Tail(q), Head(q))
<1> DEFINE p == Tail(q)
<1>1. /\ p \in Seq(T) /\ Len(p) = Len(q) - 1 /\ Len(q) \in Nat /\ Len(q) > 0
      /\ \A n \in 1 .. Len(p) : p[n] = q[n + 1]
      /\ Head(q) = q[1] /\ Head(q) \in T
      /\ DOMAIN p = 1 .. Len(p) /\ DOMAIN q = 1 .. Len(q)
  OBVIOUS
<1> HIDE DEF p
<1>2. /\ \A n \in 1 .. Len(q) : n = 1 \/ (n - 1 \in 1 .. Len(p) /\ q[n] = p[n - 1])
      /\ \A n \in 1 .. Len(p) : n + 1 \in 1 .. Len(q) /\ n + 1 # 1
      /\ 1 \in 1 .. Len(q)
  BY <1>1
<1>3. ASSUME NEW d PROVE Contains(q, d) <=> Contains(p, d) \/ d = q[1]
  <2>1. ASSUME Contains(q, d) PROVE Contains(p, d) \/ d = q[1]
    BY <1>2, <2>1 DEF Contains
  <2>2. ASSUME Contains(p, d) PROVE Contains(q, d)
    BY <1>1, <1>2, <2>2 DEF Contains
  <2>3. Contains(q, q[1])
    BY <1>2 DEF Contains
  <2> QED BY <2>1, <2>2, <2>3
<1>4. ASSUME IsInjective(q) PROVE IsInjective(p) /\ ~ Contains(p, q[1])
  <2>1. ASSUME NEW a \in DOMAIN p, NEW b \in DOMAIN p, p[a] = p[b] PROVE a = b
    <3>1. q[a + 1] = q[b + 1] /\ a + 1 \in DOMAIN q /\ b + 1 \in DOMAIN q
      BY <1>1, <1>2, <2>1
    <3>2. a + 1 = b + 1
      BY <1>4, <3>1 DEF IsInjective
    <3> QED BY <1>1, <3>2
  <2>2. ASSUME NEW a \in 1 .. Len(p), p[a] = q[1] PROVE FALSE
    <3>1. a + 1 = 1
      BY <1>1, <1>2, <1>4, <2>2 DEF IsInjective
    <3> QED BY <3>1
  <2> QED BY <2>1, <2>2 DEF IsInjective, Contains
<1> QED BY <1>1, <1>3, <1>4 DEF p

-----------------------------------------------------------------------------
(* Types, and the lines that are typed.                                    *)

Payloads == Messages \union {NOTHING}

ServerTypes ==
  /\ server \in [Servers -> {"down", "check", "remove", "bind", "listen"} \union Accepting]
  /\ path \in Servers \union {NONE}
  /\ backlog \in [Servers -> Seq(Clients)]
  /\ serving \in [Servers -> Clients \union {NONE}]
  /\ buf \in [Servers -> Payloads]

ClientTypes ==
  /\ client \in [Clients -> {"start", "type", "read", "answered", "failed", "killed"}]
  /\ sockfd \in [Clients -> Servers \union {NONE}]
  /\ sent \in [Clients -> Payloads]
  /\ answer \in [Clients -> Payloads]
  /\ unread \in SUBSET Clients

\* A server serves somebody exactly between accept() and close(), and has read a
\* line when it writes; what a client has not typed cannot be read.
Stages ==
  /\ \A s \in Servers :
       /\ serving[s] # NONE <=> server[s] \in {"read", "write", "close"}
       /\ server[s] = "write" => buf[s] \in Messages
  /\ \A c \in Clients :
       /\ client[c] \in {"start", "type"} => sent[c] = NOTHING
       /\ c \in unread => sent[c] \in Messages

Typed == ServerTypes /\ ClientTypes /\ Stages

LEMMA TypedInit == Init => Typed
BY EchoAssumption DEF Init, Typed, ServerTypes, ClientTypes, Stages, Payloads, Accepting

LEMMA TypedServer ==
  ASSUME Typed, NEW s \in Servers, Start(s) \/ ServerStep(s) \/ KillServer(s)
  PROVE  Typed'
<1> USE EchoAssumption DEF Typed, ServerTypes, ClientTypes, Stages, Accepting
<1>1. CASE Start(s)
  BY <1>1 DEF Start, clients
<1>2. CASE Check(s)
  BY <1>2 DEF Check, clients
<1>3. CASE RemovePath(s)
  BY <1>3 DEF RemovePath, clients
<1>4. CASE Bind(s)
  BY <1>4 DEF Bind, clients
<1>5. CASE Listen(s)
  BY <1>5 DEF Listen, clients
<1>6. CASE Accept(s)
  <2>1. Head(backlog[s]) \in Clients /\ Tail(backlog[s]) \in Seq(Clients)
    BY <1>6, TailQueue DEF Accept
  <2> QED BY <1>6, <2>1 DEF Accept, clients
<1>7. CASE Read(s)
  BY <1>7 DEF Read, clients, Payloads
<1>8. CASE ReadEnd(s)
  BY <1>8 DEF ReadEnd, clients
<1>9. CASE Write(s)
  <2>1. serving[s] \in Clients /\ Converted(s) \in Messages
    BY <1>9 DEF Write, Converted
  <2> QED BY <1>9, <2>1 DEF Write, clients, Payloads
<1>10. CASE WriteToGone(s) \/ KillServer(s)
  <2>1. Dies(s)
    BY <1>10 DEF WriteToGone, KillServer
  <2> QED BY <2>1 DEF Dies, clients
<1>11. CASE Close(s)
  BY <1>11 DEF Close, clients
<1> QED BY <1>1, <1>2, <1>3, <1>4, <1>5, <1>6, <1>7, <1>8, <1>9, <1>10, <1>11 DEF ServerStep

LEMMA TypedClient ==
  ASSUME Typed, NEW c \in Clients,
         \/ Connect(c) \/ ConnectFails(c) \/ Send(c) \/ SendFails(c)
         \/ ClientWork(c) \/ KillClient(c)
  PROVE  Typed'
<1> USE EchoAssumption DEF Typed, ServerTypes, ClientTypes, Stages, Accepting, Payloads
<1>1. CASE Connect(c)
  <2>1. path \in Servers /\ Append(backlog[path], c) \in Seq(Clients)
    BY <1>1, AppendQueue DEF Connect, Reachable
  <2> QED BY <1>1, <2>1 DEF Connect
<1>2. CASE ConnectFails(c)
  BY <1>2 DEF ConnectFails, servers
<1>3. CASE Send(c)
  <2>1. PICK m \in Payloads : /\ sent' = [sent EXCEPT ![c] = m]
                           /\ unread' = IF m = NOTHING THEN unread ELSE unread \union {c}
    BY <1>3 DEF Send
  <2> QED BY <1>3, <2>1 DEF Send, servers
<1>4. CASE SendFails(c)
  BY <1>4 DEF SendFails, servers
<1>5. CASE Receive(c)
  BY <1>5 DEF Receive, servers
<1>6. CASE Disconnected(c)
  BY <1>6 DEF Disconnected, servers
<1>7. CASE KillClient(c)
  BY <1>7 DEF KillClient, Alive, servers
<1> QED BY <1>1, <1>2, <1>3, <1>4, <1>5, <1>6, <1>7 DEF ClientWork

LEMMA TypedStep == Typed /\ [Next]_vars => Typed'
<1> SUFFICES ASSUME Typed, [Next]_vars PROVE Typed'
  OBVIOUS
<1>1. CASE UNCHANGED vars
  BY <1>1 DEF vars, servers, clients, Typed, ServerTypes, ClientTypes, Stages
<1> QED BY <1>1, TypedServer, TypedClient DEF Next

LEMMA TypedAlways == Spec => []Typed
BY TypedInit, TypedStep, PTL DEF Spec

-----------------------------------------------------------------------------
(* Queues: a connection is held by the server the client connected to, and *)
(* a client connects once.                                                 *)

Holds(s, c) == serving[s] = c \/ Contains(backlog[s], c)

Queues ==
  /\ \A s \in Servers :
       /\ IsInjective(backlog[s])
       /\ ~ Contains(backlog[s], serving[s])
       /\ \A c \in Clients : Holds(s, c) => sockfd[c] = s
  /\ \A c \in Clients : client[c] = "start" => sockfd[c] = NONE

LEMMA NobodyInQueue ==
  ASSUME NEW q \in Seq(Clients)
  PROVE  ~ Contains(q, NONE)
BY EchoAssumption DEF Contains

LEMMA QueuesInit == Init => Queues
BY EchoAssumption, EmptyQueue DEF Init, Queues, Holds

LEMMA QueuesServer ==
  ASSUME Typed, Queues, NEW s \in Servers, Start(s) \/ ServerStep(s) \/ KillServer(s)
  PROVE  Queues'
<1>1. \A r \in Servers : backlog[r] \in Seq(Clients) /\ ~ Contains(backlog[r], NONE)
  BY NobodyInQueue DEF Typed, ServerTypes
<1>2. UNCHANGED <<client, sockfd>> /\ \A c \in Clients : c # NONE /\ sockfd[c] \in Servers \union {NONE}
  BY EchoAssumption
     DEF Typed, ClientTypes, clients, Start, ServerStep, KillServer, Check, RemovePath, Bind,
         Listen, Accept, Read, ReadEnd, Write, WriteToGone, Dies, Close
<1>3. CASE UNCHANGED <<backlog, serving>>
  BY <1>2, <1>3 DEF Queues, Holds
<1>4. CASE Accept(s)
  <2> DEFINE c == Head(backlog[s])
  <2>1. /\ serving' = [serving EXCEPT ![s] = c]
        /\ backlog' = [backlog EXCEPT ![s] = Tail(@)]
        /\ backlog[s] # <<>>
    BY <1>4 DEF Accept
  <2>2. /\ c \in Clients /\ Tail(backlog[s]) \in Seq(Clients)
        /\ \A d : Contains(backlog[s], d) <=> Contains(Tail(backlog[s]), d) \/ d = c
        /\ IsInjective(Tail(backlog[s])) /\ ~ Contains(Tail(backlog[s]), c)
    BY <1>1, <2>1, TailQueue DEF Queues
  <2> HIDE DEF c
  <2>3. /\ \A r \in Servers : serving'[r] = IF r = s THEN c ELSE serving[r]
        /\ \A r \in Servers : backlog'[r] = IF r = s THEN Tail(backlog[s]) ELSE backlog[r]
    BY <2>1 DEF Typed, ServerTypes
  <2>4. \A r \in Servers, d \in Clients : Holds(r, d)' => Holds(r, d)
    BY <2>2, <2>3 DEF Holds
  <2>5. \A r \in Servers : /\ IsInjective(backlog'[r])
                           /\ ~ Contains(backlog'[r], serving'[r])
    BY <2>2, <2>3 DEF Queues
  <2> QED BY <1>2, <2>4, <2>5 DEF Queues
<1>5. CASE Dies(s)
  <2>1. /\ \A r \in Servers : serving'[r] = IF r = s THEN NONE ELSE serving[r]
        /\ \A r \in Servers : backlog'[r] = IF r = s THEN <<>> ELSE backlog[r]
    BY <1>5 DEF Dies, Typed, ServerTypes
  <2>2. \A r \in Servers, d \in Clients : Holds(r, d)' => Holds(r, d)
    BY <1>2, <2>1, EmptyQueue DEF Holds
  <2>3. \A r \in Servers : /\ IsInjective(backlog'[r])
                           /\ ~ Contains(backlog'[r], serving'[r])
    BY <2>1, EmptyQueue DEF Queues
  <2> QED BY <1>2, <2>2, <2>3 DEF Queues
<1>6. CASE serving' = [serving EXCEPT ![s] = NONE] /\ UNCHANGED backlog
  BY <1>1, <1>2, <1>6 DEF Queues, Holds, Typed, ServerTypes
<1> QED BY <1>3, <1>4, <1>5, <1>6
        DEF Start, ServerStep, KillServer, Check, RemovePath, Bind, Listen, Read, ReadEnd,
            Write, WriteToGone, Close

LEMMA QueuesClient ==
  ASSUME Typed, Queues, NEW c \in Clients,
         \/ Connect(c) \/ ConnectFails(c) \/ Send(c) \/ SendFails(c)
         \/ ClientWork(c) \/ KillClient(c)
  PROVE  Queues'
<1>1. CASE Connect(c)
  <2> DEFINE s == path
             q == Append(backlog[s], c)
  <2>1. s \in Servers /\ s # NONE /\ backlog[s] \in Seq(Clients)
    BY <1>1 DEF Connect, Reachable, Typed, ServerTypes
  <2>2. /\ backlog' = [backlog EXCEPT ![s] = q]
        /\ sockfd' = [sockfd EXCEPT ![c] = s]
        /\ client' = [client EXCEPT ![c] = "type"]
        /\ UNCHANGED serving
    BY <1>1 DEF Connect
  <2>3. \A r \in Servers : ~ Holds(r, c) /\ r # NONE
    BY <1>1, EchoAssumption DEF Connect, Queues
  <2>4. /\ \A d : Contains(q, d) <=> Contains(backlog[s], d) \/ d = c
        /\ IsInjective(backlog[s]) /\ ~ Contains(backlog[s], c) => IsInjective(q)
    BY <2>1, AppendQueue
  <2> HIDE DEF s, q
  <2>5. /\ \A r \in Servers : backlog'[r] = IF r = s THEN q ELSE backlog[r]
        /\ \A d \in Clients : sockfd'[d] = IF d = c THEN s ELSE sockfd[d]
        /\ \A d \in Clients : client'[d] = IF d = c THEN "type" ELSE client[d]
    BY <2>2 DEF Typed, ServerTypes, ClientTypes
  <2>6. \A r \in Servers : IsInjective(backlog'[r]) /\ ~ Contains(backlog'[r], serving'[r])
    BY <2>1, <2>2, <2>3, <2>4, <2>5 DEF Queues, Holds
  <2>7. \A r \in Servers, d \in Clients : Holds(r, d)' => sockfd'[d] = r
    BY <2>1, <2>2, <2>3, <2>4, <2>5 DEF Queues, Holds
  <2>8. \A d \in Clients : client'[d] = "start" => sockfd'[d] = NONE
    BY <2>5 DEF Queues
  <2> QED BY <2>6, <2>7, <2>8 DEF Queues
<1>2. ASSUME UNCHANGED <<backlog, serving, sockfd>>,
             \A d \in Clients : client'[d] = "start" => client[d] = "start"
      PROVE  Queues'
  BY <1>2 DEF Queues, Holds
<1>3. CASE ConnectFails(c)
  BY <1>2, <1>3 DEF ConnectFails, servers, Typed, ClientTypes
<1>4. CASE Send(c)
  BY <1>2, <1>4 DEF Send, servers, Typed, ClientTypes
<1>5. CASE SendFails(c)
  BY <1>2, <1>5 DEF SendFails, servers, Typed, ClientTypes
<1>6. CASE ClientWork(c)
  BY <1>2, <1>6 DEF ClientWork, Receive, Disconnected, servers, Typed, ClientTypes
<1>7. CASE KillClient(c)
  BY <1>2, <1>7 DEF KillClient, servers, Typed, ClientTypes
<1> QED BY <1>1, <1>3, <1>4, <1>5, <1>6, <1>7

LEMMA QueuesStep == Typed /\ Queues /\ [Next]_vars => Queues'
<1> SUFFICES ASSUME Typed, Queues, [Next]_vars PROVE Queues'
  OBVIOUS
<1>1. CASE UNCHANGED vars
  BY <1>1 DEF vars, servers, clients, Queues, Holds
<1> QED BY <1>1, QueuesServer, QueuesClient DEF Next

LEMMA QueuesAlways == Spec => []Queues
BY TypedAlways, QueuesInit, QueuesStep, PTL DEF Spec

-----------------------------------------------------------------------------
(* The path: without rivals at most one server is up, and from bind() on   *)
(* the path is its own.                                                    *)

OwnsPath ==
  "rival" \notin events =>
    /\ \A r, s \in Servers : server[r] # "down" /\ server[s] # "down" => r = s
    /\ \A s \in Servers : /\ server[s] = "bind" => path = NONE
                          /\ server[s] \in {"listen"} \union Accepting => path = s

LEMMA OwnsPathInit == Init => OwnsPath
BY DEF Init, OwnsPath, Accepting

LEMMA OwnsPathServer ==
  ASSUME Typed, OwnsPath, NEW s \in Servers, Start(s) \/ ServerStep(s) \/ KillServer(s),
         "rival" \notin events'
  PROVE  OwnsPath'
<1>1. "rival" \notin events
  BY DEF Start, ServerStep, KillServer, Check, RemovePath, Bind, Listen, Accept, Read,
         ReadEnd, Write, WriteToGone, Close
<1>2. ASSUME NEW pc,
             server' = [server EXCEPT ![s] = pc],
             \A r \in Servers \ {s} : server[r] = "down",
             pc = "bind" => path' = NONE,
             pc \in {"listen"} \union Accepting => path' = s
      PROVE  OwnsPath'
  BY <1>2 DEF OwnsPath, Typed, ServerTypes, Accepting
<1>3. CASE Start(s)
  <2>1. \A r \in Servers : server[r] = "down"
    BY <1>1, <1>3 DEF Start
  <2> QED BY <1>2, <1>3, <2>1 DEF Start, Accepting
<1>4. CASE server[s] # "down"
  <2>1. \A r \in Servers \ {s} : server[r] = "down"
    BY <1>1, <1>4 DEF OwnsPath
  <2>2. server[s] \in {"listen"} \union Accepting => path = s
    BY <1>1 DEF OwnsPath
  <2>3. CASE Check(s)
    BY <1>2, <2>1, <2>3 DEF Check, Accepting
  <2>4. CASE RemovePath(s)
    BY <1>2, <2>1, <2>4 DEF RemovePath, Accepting
  <2>5. CASE Bind(s)
    BY <1>2, <2>1, <2>5 DEF Bind, Accepting
  <2>6. CASE Listen(s)
    BY <1>2, <2>1, <2>2, <2>6 DEF Listen, Accepting
  <2>7. CASE Accept(s) \/ Read(s) \/ ReadEnd(s) \/ Write(s) \/ Close(s)
    BY <1>2, <2>1, <2>2, <2>7 DEF Accept, Read, ReadEnd, Write, Close, Accepting
  <2>8. CASE WriteToGone(s) \/ KillServer(s)
    BY <1>2, <2>1, <2>8 DEF WriteToGone, KillServer, Dies, Accepting
  <2>9. CASE Start(s)
    BY <1>4, <2>9 DEF Start
  <2> QED BY <2>3, <2>4, <2>5, <2>6, <2>7, <2>8, <2>9 DEF ServerStep
<1>5. CASE server[s] = "down" /\ ~ Start(s)
  BY <1>5 DEF ServerStep, KillServer, Check, RemovePath, Bind, Listen, Accept, Read,
              ReadEnd, Write, WriteToGone, Close
<1> QED BY <1>3, <1>4, <1>5

LEMMA OwnsPathStep == Typed /\ OwnsPath /\ [Next]_vars => OwnsPath'
<1> SUFFICES ASSUME Typed, OwnsPath, [Next]_vars PROVE OwnsPath'
  OBVIOUS
<1>1. ASSUME NEW s \in Servers, Start(s) \/ ServerStep(s) \/ KillServer(s) PROVE OwnsPath'
  BY <1>1, OwnsPathServer DEF OwnsPath
<1>2. CASE UNCHANGED <<server, path>> /\ ("rival" \in events => "rival" \in events')
  BY <1>2 DEF OwnsPath
<1>3. ASSUME NEW c \in Clients,
             \/ Connect(c) \/ ConnectFails(c) \/ Send(c) \/ SendFails(c)
             \/ ClientWork(c) \/ KillClient(c)
      PROVE  UNCHANGED <<server, path>> /\ ("rival" \in events => "rival" \in events')
  BY <1>3 DEF Connect, ConnectFails, Send, SendFails, ClientWork, Receive, Disconnected,
              KillClient, servers
<1>4. CASE UNCHANGED vars
  BY <1>2, <1>4 DEF vars, servers
<1> QED BY <1>1, <1>2, <1>3, <1>4 DEF Next

\* However the last server ended, the next one binds to the path: there is nothing
\* at it by then, and what it serves is at the path.
THEOREM RestartsAfterCrash == Spec => []StartsAfterCrash
<1>1. OwnsPath => StartsAfterCrash
  BY DEF OwnsPath, StartsAfterCrash
<1> QED BY TypedAlways, OwnsPathInit, OwnsPathStep, <1>1, PTL DEF Spec

-----------------------------------------------------------------------------
(* The answers.                                                            *)

Killed == "kill" \in events

\* how far the line of client c has got
ClientAnswers(c) ==
  /\ answer[c] # NOTHING =>
       sent[c] # NOTHING /\ answer[c] = Upper[sent[c]] /\ c \notin unread
  /\ client[c] = "answered" => answer[c] # NOTHING
  /\ client[c] = "killed" => Killed
  /\ client[c] = "failed" /\ sockfd[c] # NONE => Killed
  /\ client[c] \in {"type", "read"} /\ sockfd[c] # NONE /\ answer[c] = NOTHING =>
       Killed \/ \E s \in Servers : Holds(s, c)

\* A server answers each connection once, with what it has read on it.
ServerAnswers(s) ==
  /\ server[s] = "read" => answer[serving[s]] = NOTHING
  /\ server[s] = "write" => /\ answer[serving[s]] = NOTHING
                            /\ buf[s] = sent[serving[s]]
                            /\ serving[s] \notin unread
  /\ server[s] = "close" => answer[serving[s]] # NOTHING
  /\ \A c \in Clients : Contains(backlog[s], c) => answer[c] = NOTHING

Answers ==
  /\ \A c \in Clients : ClientAnswers(c)
  /\ \A s \in Servers : ServerAnswers(s)

LEMMA AnswersInit == Init => Answers
BY EmptyQueue DEF Init, Answers, ClientAnswers, ServerAnswers

\* The servers that do not serve c do not hold it either.
LEMMA HeldByOne ==
  ASSUME Queues, NEW s \in Servers, serving[s] \in Clients
  PROVE  /\ \A r \in Servers \ {s} : serving[r] # serving[s]
         /\ \A r \in Servers : ~ Contains(backlog[r], serving[s])
BY DEF Queues, Holds

LEMMA AnswersServer ==
  ASSUME Typed, Queues, Answers, NEW s \in Servers,
         Start(s) \/ ServerStep(s) \/ KillServer(s)
  PROVE  Answers'
<1> USE EchoAssumption
<1>1. UNCHANGED <<client, sockfd, sent>> /\ (Killed => Killed')
  BY DEF clients, Killed, Start, ServerStep, KillServer, Check, RemovePath, Bind, Listen,
         Accept, Read, ReadEnd, Write, WriteToGone, Dies, Close
<1>2. ASSUME UNCHANGED <<backlog, serving, buf, unread, answer>>,
             \A r \in Servers : server'[r] = server[r] \/ server'[r] \notin {"read", "write", "close"}
      PROVE  Answers'
  BY <1>1, <1>2 DEF Answers, ClientAnswers, ServerAnswers, Holds
<1>3. CASE Start(s) \/ Check(s) \/ RemovePath(s) \/ Bind(s) \/ Listen(s)
  BY <1>2, <1>3 DEF Start, Check, RemovePath, Bind, Listen, Typed, ServerTypes
<1>4. CASE Accept(s)
  <2> DEFINE c == Head(backlog[s])
  <2>1. /\ serving' = [serving EXCEPT ![s] = c]
        /\ backlog' = [backlog EXCEPT ![s] = Tail(@)]
        /\ server' = [server EXCEPT ![s] = "read"]
        /\ backlog[s] # <<>> /\ backlog[s] \in Seq(Clients) /\ server[s] = "accept"
        /\ UNCHANGED <<buf, unread, answer, events>>
    BY <1>4 DEF Accept, Typed, ServerTypes
  <2>2. /\ c \in Clients
        /\ \A d : Contains(backlog[s], d) <=> Contains(Tail(backlog[s]), d) \/ d = c
    BY <2>1, TailQueue
  <2> HIDE DEF c
  <2>3. /\ \A r \in Servers : serving'[r] = IF r = s THEN c ELSE serving[r]
        /\ \A r \in Servers : backlog'[r] = IF r = s THEN Tail(backlog[s]) ELSE backlog[r]
        /\ \A r \in Servers : server'[r] = IF r = s THEN "read" ELSE server[r]
    BY <2>1 DEF Typed, ServerTypes
  <2>4. serving[s] = NONE /\ NONE \notin Clients
    BY <2>1 DEF Typed, Stages
  <2>5. \A r \in Servers, d \in Clients : Holds(r, d)' <=> Holds(r, d)
    BY <2>2, <2>3, <2>4 DEF Holds
  <2>6. \A d \in Clients : ClientAnswers(d)'
    BY <1>1, <2>1, <2>5 DEF Answers, ClientAnswers
  <2>7. \A r \in Servers : ServerAnswers(r)'
    BY <1>1, <2>1, <2>2, <2>3 DEF Answers, ServerAnswers
  <2> QED BY <2>6, <2>7 DEF Answers
<1>5. CASE Read(s)
  <2>1. /\ \A r \in Servers : buf'[r] = IF r = s THEN sent[serving[s]] ELSE buf[r]
        /\ \A r \in Servers : server'[r] = IF r = s THEN "write" ELSE server[r]
        /\ unread' = unread \ {serving[s]}
        /\ server[s] = "read"
        /\ UNCHANGED <<backlog, serving, answer, events>>
    BY <1>5 DEF Read, Typed, ServerTypes
  <2>2. \A d \in Clients : ClientAnswers(d)'
    BY <1>1, <2>1 DEF Answers, ClientAnswers, Holds
  <2>3. \A r \in Servers : ServerAnswers(r)'
    BY <1>1, <2>1 DEF Answers, ServerAnswers
  <2> QED BY <2>2, <2>3 DEF Answers
<1>6. CASE ReadEnd(s) \/ Close(s)
  <2>1. /\ \A r \in Servers : serving'[r] = IF r = s THEN NONE ELSE serving[r]
        /\ \A r \in Servers : server'[r] = IF r = s THEN "accept" ELSE server[r]
        /\ UNCHANGED <<backlog, buf, unread, answer, events>>
    BY <1>6 DEF ReadEnd, Close, Typed, ServerTypes
  <2>2. serving[s] \in Clients => ~ Alive(serving[s]) \/ answer[serving[s]] # NOTHING
    BY <1>6 DEF ReadEnd, Close, Gone, Answers, ServerAnswers
  <2>3. ASSUME NEW d \in Clients PROVE ClientAnswers(d)'
    <3>1. d # serving[s] => \A r \in Servers : Holds(r, d) => Holds(r, d)'
      BY <2>1 DEF Holds
    <3>2. d = serving[s] => client[d] \notin {"type", "read"} \/ answer[d] # NOTHING
      BY <2>2 DEF Alive
    <3> QED BY <1>1, <2>1, <3>1, <3>2 DEF Answers, ClientAnswers
  <2>4. \A r \in Servers : ServerAnswers(r)'
    BY <1>1, <2>1 DEF Answers, ServerAnswers
  <2> QED BY <2>3, <2>4 DEF Answers
<1>7. CASE Write(s)
  <2> DEFINE c == serving[s]
  <2>1. /\ server[s] = "write" /\ answer' = [answer EXCEPT ![c] = Upper[buf[s]]]
        /\ server' = [server EXCEPT ![s] = "close"]
        /\ UNCHANGED <<backlog, serving, buf, unread, events>>
    BY <1>7 DEF Write, Converted
  <2>2. c \in Clients /\ buf[s] \in Messages /\ buf[s] = sent[c] /\ c \notin unread
    BY <2>1 DEF Typed, ServerTypes, Stages, Answers, ServerAnswers
  <2>3. Upper[buf[s]] # NOTHING /\ sent[c] # NOTHING
    BY <2>2
  <2>4. /\ \A r \in Servers \ {s} : serving[r] # c
        /\ \A r \in Servers : ~ Contains(backlog[r], c)
    BY <2>2, HeldByOne
  <2> HIDE DEF c
  <2>5. /\ \A d \in Clients : answer'[d] = IF d = c THEN Upper[sent[c]] ELSE answer[d]
        /\ \A r \in Servers : server'[r] = IF r = s THEN "close" ELSE server[r]
    BY <2>1, <2>2 DEF Typed, ServerTypes, ClientTypes
  <2>6. \A d \in Clients : ClientAnswers(d)'
    BY <1>1, <2>1, <2>2, <2>3, <2>5 DEF Answers, ClientAnswers, Holds
  <2>7. ASSUME NEW r \in Servers PROVE ServerAnswers(r)'
    <3>1. CASE r = s
      BY <1>1, <2>1, <2>2, <2>3, <2>4, <2>5, <3>1 DEF Answers, ServerAnswers, c
    <3>2. CASE r # s
      <4>1. server[r] \in {"read", "write", "close"} =>
              serving[r] \in Clients /\ answer'[serving[r]] = answer[serving[r]]
        BY <2>4, <2>5, <3>2 DEF Typed, ServerTypes, Stages
      <4> QED BY <1>1, <2>1, <2>4, <2>5, <3>2, <4>1 DEF Answers, ServerAnswers
    <3> QED BY <3>1, <3>2
  <2> QED BY <2>6, <2>7 DEF Answers
<1>8. CASE WriteToGone(s) \/ KillServer(s)
  <2>1. Killed'
    <3>1. CASE KillServer(s)
      BY <3>1 DEF KillServer, Killed
    <3>2. CASE WriteToGone(s)
      <4>1. /\ serving[s] \in Clients /\ answer[serving[s]] = NOTHING /\ ~ Alive(serving[s])
            /\ UNCHANGED events
        BY <3>2 DEF WriteToGone, Typed, ServerTypes, Stages, Answers, ServerAnswers
      <4>2. sockfd[serving[s]] # NONE
        BY <4>1 DEF Queues, Holds
      <4> QED BY <4>1, <4>2 DEF Answers, ClientAnswers, Alive, Killed, Typed, ClientTypes
    <3> QED BY <1>8, <3>1, <3>2
  <2>2. /\ \A r \in Servers : backlog'[r] = IF r = s THEN <<>> ELSE backlog[r]
        /\ \A r \in Servers : serving'[r] = IF r = s THEN NONE ELSE serving[r]
        /\ \A r \in Servers : server'[r] = IF r = s THEN "down" ELSE server[r]
        /\ UNCHANGED <<buf, unread, answer>>
    BY <1>8 DEF WriteToGone, KillServer, Dies, Typed, ServerTypes
  <2>3. \A d \in Clients : ClientAnswers(d)'
    BY <1>1, <2>1, <2>2 DEF Answers, ClientAnswers
  <2>4. \A r \in Servers : ServerAnswers(r)'
    BY <1>1, <2>2, EmptyQueue DEF Answers, ServerAnswers
  <2> QED BY <2>3, <2>4 DEF Answers
<1> QED BY <1>3, <1>4, <1>5, <1>6, <1>7, <1>8 DEF ServerStep

LEMMA AnswersClient ==
  ASSUME Typed, Queues, Answers, NEW c \in Clients,
         \/ Connect(c) \/ ConnectFails(c) \/ Send(c) \/ SendFails(c)
         \/ ClientWork(c) \/ KillClient(c)
  PROVE  Answers'
<1> USE EchoAssumption
<1>1. UNCHANGED <<server, serving, buf, answer>> /\ (Killed => Killed')
  BY DEF servers, Killed, Connect, ConnectFails, Send, SendFails, ClientWork, Receive,
         Disconnected, KillClient
<1>2. client[c] \in {"start", "type"} => sent[c] = NOTHING /\ answer[c] = NOTHING
  BY DEF Typed, Stages, Answers, ClientAnswers
<1>3. ASSUME UNCHANGED <<backlog, sent, unread, sockfd>>,
             \A d \in Clients \ {c} : client'[d] = client[d],
             client'[c] # "read",
             client'[c] = "type" => sockfd[c] = NONE,
             client'[c] = "answered" => answer[c] # NOTHING,
             client'[c] = "killed" => Killed',
             client'[c] = "failed" /\ sockfd[c] # NONE => Killed'
      PROVE  Answers'
  <2>1. \A d \in Clients : ClientAnswers(d)'
    BY <1>1, <1>3 DEF Answers, ClientAnswers, Holds
  <2>2. \A s \in Servers : ServerAnswers(s)'
    BY <1>1, <1>3 DEF Answers, ServerAnswers
  <2> QED BY <2>1, <2>2 DEF Answers
<1>4. CASE Connect(c)
  <2>0. PICK s \in Servers : s = path
    BY <1>4 DEF Connect, Reachable, Typed, ServerTypes
  <2> DEFINE q == Append(backlog[s], c)
  <2>1. /\ s \in Servers /\ backlog[s] \in Seq(Clients)
        /\ client[c] = "start" /\ client' = [client EXCEPT ![c] = "type"]
        /\ sockfd' = [sockfd EXCEPT ![c] = s]
        /\ backlog' = [backlog EXCEPT ![s] = q]
        /\ UNCHANGED <<sent, unread, events>>
    BY <1>4, <2>0 DEF Connect, Typed, ServerTypes
  <2>2. \A d : Contains(q, d) <=> Contains(backlog[s], d) \/ d = c
    BY <2>1, AppendQueue
  <2> HIDE DEF q
  <2>3. /\ \A r \in Servers : backlog'[r] = IF r = s THEN q ELSE backlog[r]
        /\ \A d \in Clients : client'[d] = IF d = c THEN "type" ELSE client[d]
        /\ \A d \in Clients : sockfd'[d] = IF d = c THEN s ELSE sockfd[d]
    BY <2>1 DEF Typed, ServerTypes, ClientTypes
  <2>4. /\ \A r \in Servers, d \in Clients : Holds(r, d) => Holds(r, d)'
        /\ Holds(s, c)'
    BY <1>1, <2>1, <2>2, <2>3 DEF Holds
  <2>5. \A d \in Clients : ClientAnswers(d)'
    BY <1>1, <2>1, <2>3, <2>4 DEF Answers, ClientAnswers
  <2>6. \A r \in Servers : ServerAnswers(r)'
    BY <1>1, <1>2, <2>1, <2>2, <2>3 DEF Answers, ServerAnswers
  <2> QED BY <2>5, <2>6 DEF Answers
<1>5. CASE ConnectFails(c)
  <2>1. sockfd[c] = NONE
    BY <1>5 DEF ConnectFails, Queues
  <2>2. /\ client'[c] = "type" /\ \A d \in Clients \ {c} : client'[d] = client[d]
        /\ UNCHANGED <<backlog, sent, unread, sockfd>>
    BY <1>5 DEF ConnectFails, servers, Typed, ClientTypes
  <2> QED BY <1>3, <2>1, <2>2
<1>6. CASE Send(c)
  <2>1. PICK m : /\ sent' = [sent EXCEPT ![c] = m]
                 /\ unread' = IF m = NOTHING THEN unread ELSE unread \union {c}
    BY <1>6 DEF Send
  <2>2. /\ client[c] = "type" /\ client' = [client EXCEPT ![c] = "read"]
        /\ UNCHANGED <<backlog, sockfd, events>>
        /\ \E s \in Servers : Holds(s, c)
    BY <1>6 DEF Send, servers, Held, Holds
  <2>3. /\ \A d \in Clients : sent'[d] = IF d = c THEN m ELSE sent[d]
        /\ \A d \in Clients : client'[d] = IF d = c THEN "read" ELSE client[d]
        /\ \A d \in Clients : d # c => (d \in unread' <=> d \in unread)
    BY <2>1, <2>2 DEF Typed, ClientTypes
  <2>4. \A d \in Clients : ClientAnswers(d)'
    BY <1>1, <1>2, <2>2, <2>3 DEF Answers, ClientAnswers, Holds
  <2>5. ASSUME NEW s \in Servers PROVE ServerAnswers(s)'
    <3>1. server[s] = "write" => serving[s] \in Clients /\ serving[s] # c
      BY <1>2, <2>2 DEF Typed, ServerTypes, Stages, Answers, ServerAnswers
    <3> QED BY <1>1, <2>2, <2>3, <3>1 DEF Answers, ServerAnswers
  <2> QED BY <2>4, <2>5 DEF Answers
<1>7. CASE SendFails(c)
  <2>1. sockfd[c] # NONE => Killed'
    BY <1>1, <1>2, <1>7 DEF SendFails, Held, Holds, Answers, ClientAnswers
  <2> QED BY <1>3, <1>7, <2>1 DEF SendFails, servers, Typed, ClientTypes
<1>8. CASE Receive(c)
  <2>1. /\ client'[c] = "answered" /\ answer[c] # NOTHING
        /\ \A d \in Clients \ {c} : client'[d] = client[d]
        /\ UNCHANGED <<backlog, sent, unread, sockfd>>
    BY <1>8 DEF Receive, servers, Typed, ClientTypes
  <2> QED BY <1>3, <2>1
<1>9. CASE Disconnected(c)
  <2>1. sockfd[c] # NONE => Killed'
    BY <1>1, <1>9 DEF Disconnected, Held, Holds, Answers, ClientAnswers
  <2>2. /\ client'[c] = "failed" /\ \A d \in Clients \ {c} : client'[d] = client[d]
        /\ UNCHANGED <<backlog, sent, unread, sockfd>>
    BY <1>9 DEF Disconnected, servers, Typed, ClientTypes
  <2> QED BY <1>3, <2>1, <2>2
<1>10. CASE KillClient(c)
  <2>1. Killed'
    BY <1>10 DEF KillClient, Killed
  <2> QED BY <1>3, <1>10, <2>1 DEF KillClient, servers, Typed, ClientTypes
<1> QED BY <1>4, <1>5, <1>6, <1>7, <1>8, <1>9, <1>10 DEF ClientWork

LEMMA AnswersStep == Typed /\ Queues /\ Answers /\ [Next]_vars => Answers'
<1> SUFFICES ASSUME Typed, Queues, Answers, [Next]_vars PROVE Answers'
  OBVIOUS
<1>1. CASE UNCHANGED vars
  BY <1>1 DEF vars, servers, clients, Answers, ClientAnswers, ServerAnswers, Holds, Killed
<1> QED BY <1>1, AnswersServer, AnswersClient DEF Next

\* A client gets its own line in capitals or nothing, and loses a connection only
\* if some program was killed.
THEOREM AnswersAreOwn == Spec => []OwnAnswer
<1>1. Answers => OwnAnswer
  BY DEF Answers, ClientAnswers, OwnAnswer, Killed
<1> QED BY TypedAlways, QueuesAlways, AnswersInit, AnswersStep, <1>1, PTL DEF Spec

=============================================================================
