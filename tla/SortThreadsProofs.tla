------------------------- MODULE SortThreadsProofs --------------------------
(***************************************************************************)
(* Proofs about the two-thread sort, for every even number of elements and *)
(* whatever they are.  The threads stay in their halves of the array: no   *)
(* scanning loop tests for the end of its range, and no lock separates the *)
(* threads.  The halves are sorted when main() merges them, and what it    *)
(* makes of them is the array in order.                                    *)
(***************************************************************************)
EXTENDS SortThreads, SequenceTheorems, FiniteSetTheorems, FunctionTheorems, TLAPS

-----------------------------------------------------------------------------
(* One partition of a range q: a is the array, m and n the positions, v    *)
(* the pivot.                                                              *)

Bounds == [l : Int, r : Int]

\* While a scan goes on there is something ahead that stops it; the first scan
\* down starts beyond the range and must not end it at its last element.
Partition(p, q, a, m, n, v) ==
  /\ p = "up" =>
       /\ q.l <= m + 1 /\ n <= q.r + 1
       /\ \E k \in m + 1 .. q.r : v <= a[k] /\ (n = q.r + 1 => k < q.r)
       /\ \E k \in q.l .. n - 1 : a[k] <= v
  /\ p = "down" =>
       /\ q.l <= m /\ m <= q.r /\ n <= q.r + 1
       /\ v <= a[m] /\ (n = q.r + 1 => m < q.r)
       /\ \E k \in q.l .. n - 1 : a[k] <= v
  /\ p = "swap" =>
       /\ q.l <= m /\ m <= q.r /\ q.l <= n /\ n <= q.r
       /\ v <= a[m] /\ a[n] <= v /\ (n = q.r => m < q.r)

LEMMA PartitionBegins ==
  ASSUME NEW q \in Bounds, q.l < q.r, NEW a, \A k \in q.l .. q.r : a[k] \in Int
  PROVE  /\ Middle(q) \in q.l .. q.r
         /\ Partition("up", q, a, q.l - 1, q.r + 1, a[Middle(q)])
<1>1. q.l \in Int /\ q.r \in Int
  BY DEF Bounds
<1>2. Middle(q) \in Int /\ q.l <= Middle(q) /\ Middle(q) < q.r
  BY <1>1 DEF Middle
<1> DEFINE c == Middle(q)
<1> HIDE DEF c
<1>3. c \in q.l .. q.r /\ c \in (q.l - 1) + 1 .. q.r /\ c \in q.l .. (q.r + 1) - 1 /\ c < q.r
  BY <1>1, <1>2 DEF c
<1>4. a[c] <= a[c]
  BY <1>3
<1>5. Partition("up", q, a, q.l - 1, q.r + 1, a[c])
  BY <1>1, <1>3, <1>4 DEF Partition
<1> QED BY <1>3, <1>5 DEF c

LEMMA PartitionScansUp ==
  ASSUME NEW q \in Bounds, NEW a, \A k \in q.l .. q.r : a[k] \in Int,
         NEW m \in Int, NEW n \in Int, NEW v \in Int, Partition("up", q, a, m, n, v)
  PROVE  /\ m + 1 \in q.l .. q.r
         /\ a[m + 1] < v => Partition("up", q, a, m + 1, n, v)
         /\ ~ (a[m + 1] < v) => Partition("down", q, a, m + 1, n, v)
<1>1. q.l \in Int /\ q.r \in Int
  BY DEF Bounds
<1>2. PICK k \in m + 1 .. q.r : v <= a[k] /\ (n = q.r + 1 => k < q.r)
  BY DEF Partition
<1>3. PICK h \in q.l .. n - 1 : a[h] <= v
  BY DEF Partition
<1>4. q.l <= m + 1 /\ n <= q.r + 1
  BY DEF Partition
<1>5. m + 1 \in q.l .. q.r /\ a[m + 1] \in Int /\ k \in q.l .. q.r /\ a[k] \in Int
  BY <1>1, <1>2, <1>4
<1>6. ASSUME a[m + 1] < v PROVE Partition("up", q, a, m + 1, n, v)
  <2>1. k # m + 1
    BY <1>2, <1>5, <1>6
  <2>2. k \in (m + 1) + 1 .. q.r /\ q.l <= (m + 1) + 1
    BY <1>1, <1>2, <1>4, <2>1
  <2> QED BY <1>2, <1>3, <1>4, <2>2 DEF Partition
<1>7. ASSUME ~ (a[m + 1] < v) PROVE Partition("down", q, a, m + 1, n, v)
  <2>1. v <= a[m + 1]
    BY <1>5, <1>7
  <2>2. q.l <= m + 1 /\ m + 1 <= q.r /\ (n = q.r + 1 => m + 1 < q.r)
    BY <1>1, <1>2, <1>4, <1>5
  <2> QED BY <1>3, <1>4, <2>1, <2>2 DEF Partition
<1> QED BY <1>5, <1>6, <1>7

LEMMA PartitionScansDown ==
  ASSUME NEW q \in Bounds, NEW a, \A k \in q.l .. q.r : a[k] \in Int,
         NEW m \in Int, NEW n \in Int, NEW v \in Int, Partition("down", q, a, m, n, v)
  PROVE  /\ n - 1 \in q.l .. q.r
         /\ v < a[n - 1] => Partition("down", q, a, m, n - 1, v)
         /\ ~ (v < a[n - 1]) => Partition("swap", q, a, m, n - 1, v)
<1>1. q.l \in Int /\ q.r \in Int
  BY DEF Bounds
<1>2. PICK k \in q.l .. n - 1 : a[k] <= v
  BY DEF Partition
<1>3. q.l <= m /\ m <= q.r /\ n <= q.r + 1 /\ v <= a[m] /\ (n = q.r + 1 => m < q.r)
  BY DEF Partition
<1>4. n - 1 \in q.l .. q.r /\ a[n - 1] \in Int /\ k \in q.l .. q.r /\ a[k] \in Int
  BY <1>1, <1>2, <1>3
<1>5. ASSUME v < a[n - 1] PROVE Partition("down", q, a, m, n - 1, v)
  <2>1. k # n - 1
    BY <1>2, <1>4, <1>5
  <2>2. k \in q.l .. (n - 1) - 1 /\ n - 1 <= q.r + 1 /\ n - 1 # q.r + 1
    BY <1>1, <1>2, <1>3, <2>1
  <2> QED BY <1>2, <1>3, <2>2 DEF Partition
<1>6. ASSUME ~ (v < a[n - 1]) PROVE Partition("swap", q, a, m, n - 1, v)
  <2>1. a[n - 1] <= v
    BY <1>4, <1>6
  <2>2. q.l <= n - 1 /\ n - 1 <= q.r /\ (n - 1 = q.r => m < q.r)
    BY <1>1, <1>3, <1>4
  <2> QED BY <1>3, <2>1, <2>2 DEF Partition
<1> QED BY <1>4, <1>5, <1>6

\* What was exchanged stops the next scans.
LEMMA PartitionSwaps ==
  ASSUME NEW q \in Bounds, NEW a, NEW b, NEW m \in Int, NEW n \in Int, NEW v \in Int,
         Partition("swap", q, a, m, n, v), m < n, b[m] = a[n], b[n] = a[m]
  PROVE  Partition("up", q, b, m, n, v)
<1>1. q.l \in Int /\ q.r \in Int
  BY DEF Bounds
<1>2. /\ q.l <= m /\ m <= q.r /\ q.l <= n /\ n <= q.r
      /\ v <= b[n] /\ b[m] <= v
  BY DEF Partition
<1>3. /\ q.l <= m + 1 /\ n <= q.r + 1 /\ n # q.r + 1
      /\ n \in m + 1 .. q.r /\ m \in q.l .. n - 1
  BY <1>1, <1>2
<1> QED BY <1>2, <1>3 DEF Partition

\* Only the elements of the range matter.
LEMMA PartitionKept ==
  ASSUME NEW p, NEW q \in Bounds, NEW a, NEW b, NEW m \in Int, NEW n \in Int, NEW v,
         Partition(p, q, a, m, n, v), \A k \in q.l .. q.r : b[k] = a[k]
  PROVE  Partition(p, q, b, m, n, v)
<1>1. q.l \in Int /\ q.r \in Int
  BY DEF Bounds
<1>2. CASE p = "up"
  <2>1. /\ q.l <= m + 1 /\ n <= q.r + 1
        /\ \E k \in m + 1 .. q.r : v <= a[k] /\ (n = q.r + 1 => k < q.r)
        /\ \E k \in q.l .. n - 1 : a[k] <= v
    BY <1>2 DEF Partition
  <2>2. /\ \A k \in m + 1 .. q.r : k \in q.l .. q.r
        /\ \A k \in q.l .. n - 1 : k \in q.l .. q.r
    BY <1>1, <2>1
  <2> QED BY <1>2, <2>1, <2>2 DEF Partition
<1>3. CASE p = "down"
  <2>1. /\ q.l <= m /\ m <= q.r /\ n <= q.r + 1
        /\ v <= a[m] /\ (n = q.r + 1 => m < q.r)
        /\ \E k \in q.l .. n - 1 : a[k] <= v
    BY <1>3 DEF Partition
  <2>2. m \in q.l .. q.r /\ \A k \in q.l .. n - 1 : k \in q.l .. q.r
    BY <1>1, <2>1
  <2> QED BY <1>3, <2>1, <2>2 DEF Partition
<1>4. CASE p = "swap"
  <2>1. /\ q.l <= m /\ m <= q.r /\ q.l <= n /\ n <= q.r
        /\ v <= a[m] /\ a[n] <= v /\ (n = q.r => m < q.r)
    BY <1>4 DEF Partition
  <2>2. m \in q.l .. q.r /\ n \in q.l .. q.r
    BY <1>1, <2>1
  <2> QED BY <1>4, <2>1, <2>2 DEF Partition
<1>5. CASE p \notin {"up", "down", "swap"}
  BY <1>5 DEF Partition
<1> QED BY <1>2, <1>3, <1>4, <1>5

-----------------------------------------------------------------------------
(* The halves.                                                             *)

LEMMA HalfFacts ==
  /\ Half \in Nat /\ Half > 0 /\ N = 2 * Half
  /\ \A t \in Threads : /\ Start(t) \in Int /\ End(t) \in Int
                        /\ 0 <= Start(t) /\ Start(t) <= End(t) /\ End(t) < N
                        /\ End(t) = Start(t) + Half - 1
  /\ End(0) < Start(1)
<1>1. N \in Nat /\ N > 0 /\ N % 2 = 0
  BY SortAssumption
<1>2. Half \in Nat /\ Half > 0 /\ N = 2 * Half
  BY <1>1 DEF Half
<1> HIDE DEF Half
<1>3. Start(0) = 0 /\ Start(1) = Half
  BY <1>2 DEF Start
<1>4. End(0) = Half - 1 /\ End(1) = Half + Half - 1
  BY <1>2, <1>3 DEF End
<1> QED BY <1>2, <1>3, <1>4 DEF Threads

InHalf(t, q) == Start(t) <= q.l /\ q.l <= q.r /\ q.r <= End(t)

\* A range in a half is one of the array, and in no other half.
LEMMA RangeFacts ==
  ASSUME NEW t \in Threads, NEW q \in Bounds, InHalf(t, q)
  PROVE  /\ q.l \in Int /\ q.r \in Int
         /\ \A k \in q.l .. q.r : k \in Index
         /\ \A s \in Threads \ {t}, p \in Bounds :
              InHalf(s, p) => \A k \in q.l .. q.r : k \notin p.l .. p.r
<1>1. q.l \in Int /\ q.r \in Int /\ \A p \in Bounds : p.l \in Int /\ p.r \in Int
  BY DEF Bounds
<1>2. \A k \in q.l .. q.r : k \in Index
  BY <1>1, HalfFacts, SortAssumption DEF InHalf, Index
<1>3. ASSUME NEW s \in Threads \ {t}, NEW p \in Bounds, InHalf(s, p), NEW k \in q.l .. q.r
      PROVE  k \notin p.l .. p.r
  <2>1. (s = 0 /\ t = 1) \/ (s = 1 /\ t = 0)
    BY DEF Threads
  <2>2. CASE s = 0 /\ t = 1
    <3>1. p.r <= End(0) /\ Start(1) <= q.l /\ End(0) \in Int /\ Start(1) \in Int
      BY <1>3, <2>2, HalfFacts DEF InHalf, Threads
    <3> QED BY <1>1, <3>1, HalfFacts
  <2>3. CASE s = 1 /\ t = 0
    <3>1. q.r <= End(0) /\ Start(1) <= p.l /\ End(0) \in Int /\ Start(1) \in Int
      BY <1>3, <2>3, HalfFacts DEF InHalf, Threads
    <3> QED BY <1>1, <3>1, HalfFacts
  <2> QED BY <2>1, <2>2, <2>3
<1> QED BY <1>1, <1>2, <1>3

-----------------------------------------------------------------------------
(* The inductive invariant.                                                *)

Types ==
  /\ unsortedArray \in [Index -> Int]
  /\ pc \in [Threads -> {"none", "call", "up", "down", "swap", "exited"}]
  /\ calls \in [Threads -> Seq(Bounds)]
  /\ i \in [Threads -> Int]
  /\ j \in [Threads -> Int]
  /\ x \in [Threads -> Int]

InCall(t) == pc[t] \in {"up", "down", "swap"}

\* A thread has only ranges of its half to sort, and partitions the first.
ThreadInv(t) ==
  /\ \A n \in 1 .. Len(calls[t]) : InHalf(t, calls[t][n])
  /\ InCall(t) =>
       /\ calls[t] # <<>>
       /\ Current(t).l < Current(t).r
       /\ Partition(pc[t], Current(t), unsortedArray, i[t], j[t], x[t])

Inv == Types /\ \A t \in Threads : ThreadInv(t)

LEMMA CurrentFacts ==
  ASSUME Inv, NEW t \in Threads, calls[t] # <<>>
  PROVE  /\ Current(t) \in Bounds /\ InHalf(t, Current(t))
         /\ \A k \in Current(t).l .. Current(t).r : k \in Index /\ unsortedArray[k] \in Int
<1>1. calls[t] \in Seq(Bounds) /\ Len(calls[t]) > 0 /\ Len(calls[t]) \in Nat
  BY DEF Inv, Types
<1>2. Current(t) = calls[t][1] /\ 1 \in 1 .. Len(calls[t])
  BY <1>1 DEF Current
<1>3. Current(t) \in Bounds /\ InHalf(t, Current(t))
  BY <1>1, <1>2, ElementOfSeq DEF Inv, ThreadInv
<1>4. \A k \in Current(t).l .. Current(t).r : k \in Index
  BY <1>3, RangeFacts
<1> QED BY <1>3, <1>4 DEF Inv, Types

\* What a thread does does not disturb the other one.
LEMMA OtherThread ==
  ASSUME Inv, NEW s \in Threads,
         calls'[s] = calls[s], pc'[s] = pc[s], i'[s] = i[s], j'[s] = j[s], x'[s] = x[s],
         calls[s] # <<>> =>
           \A k \in Current(s).l .. Current(s).r : unsortedArray'[k] = unsortedArray[k]
  PROVE  ThreadInv(s)'
<1>1. ThreadInv(s) /\ i[s] \in Int /\ j[s] \in Int
  BY DEF Inv, Types
<1>2. ASSUME InCall(s)
      PROVE  Partition(pc[s], Current(s), unsortedArray', i[s], j[s], x[s])
  <2>1. calls[s] # <<>> /\ Partition(pc[s], Current(s), unsortedArray, i[s], j[s], x[s])
    BY <1>1, <1>2 DEF ThreadInv
  <2>2. Current(s) \in Bounds
    BY <2>1, CurrentFacts
  <2> QED BY <1>1, <2>1, <2>2, PartitionKept
<1>3. Current(s)' = Current(s)
  BY DEF Current
<1>4. ASSUME InCall(s)' PROVE /\ calls'[s] # <<>> /\ Current(s)'.l < Current(s)'.r
                              /\ Partition(pc[s], Current(s), unsortedArray, i[s], j[s], x[s])'
  <2>1. InCall(s)
    BY <1>4 DEF InCall
  <2>2. Partition(pc'[s], Current(s)', unsortedArray', i'[s], j'[s], x'[s])
    BY <1>2, <1>3, <2>1
  <2>3. Partition(pc[s], Current(s), unsortedArray, i[s], j[s], x[s])'
    BY <2>2 DEF Partition
  <2> QED BY <1>1, <1>3, <2>1, <2>3 DEF ThreadInv
<1>5. \A n \in 1 .. Len(calls'[s]) : InHalf(s, calls'[s][n])
  BY <1>1 DEF ThreadInv
<1> QED BY <1>4, <1>5 DEF ThreadInv, InHalf, Start, End

-----------------------------------------------------------------------------
(* The steps.                                                              *)

LEMMA InvInit == Init => Inv
<1> SUFFICES ASSUME Init PROVE Inv
  OBVIOUS
<1>1. Types
  <2>1. unsortedArray \in [Index -> Int]
    BY SortAssumption DEF Init
  <2>2. calls \in [Threads -> Seq(Bounds)]
    BY EmptySeq DEF Init
  <2> QED BY <2>1, <2>2 DEF Init, Types
<1>2. ASSUME NEW t \in Threads PROVE ThreadInv(t)
  <2>1. calls[t] = <<>> /\ pc[t] = "none" /\ Len(<<>>) = 0
    BY DEF Init
  <2> QED BY <2>1 DEF ThreadInv, InCall
<1> QED BY <1>1, <1>2 DEF Inv

\* A thread that is not partitioning needs ranges of its half only.
LEMMA OutsideCall ==
  ASSUME NEW t \in Threads, pc'[t] \notin {"up", "down", "swap"},
         \A n \in 1 .. Len(calls'[t]) : InHalf(t, calls'[t][n])
  PROVE  ThreadInv(t)'
BY DEF ThreadInv, InCall, InHalf, Start, End

\* One that goes on partitioning the same range.
LEMMA InsideCall ==
  ASSUME Inv, NEW t \in Threads, calls' = calls, calls[t] # <<>>,
         Current(t).l < Current(t).r,
         Partition(pc'[t], Current(t), unsortedArray', i'[t], j'[t], x'[t])
  PROVE  ThreadInv(t)'
<1>1. Current(t)' = Current(t)
  BY DEF Current
<1>2. Partition(pc[t], Current(t), unsortedArray, i[t], j[t], x[t])'
  BY <1>1 DEF Partition
<1>3. \A n \in 1 .. Len(calls'[t]) : InHalf(t, calls'[t][n])
  BY DEF Inv, ThreadInv
<1> QED BY <1>1, <1>2, <1>3 DEF ThreadInv, InHalf, Start, End

\* The other thread is where it was.
LEMMA OneThreadMoves ==
  ASSUME Inv, NEW t \in Threads, Types', ThreadInv(t)',
         UNCHANGED unsortedArray,
         \A s \in Threads \ {t} : /\ calls'[s] = calls[s] /\ pc'[s] = pc[s]
                                  /\ i'[s] = i[s] /\ j'[s] = j[s] /\ x'[s] = x[s]
  PROVE  Inv'
<1>1. ASSUME NEW s \in Threads \ {t} PROVE ThreadInv(s)'
  BY OtherThread
<1> QED BY <1>1 DEF Inv

LEMMA InvKept == Inv /\ UNCHANGED <<unsortedArray, locals>> => Inv'
<1> SUFFICES ASSUME Inv, UNCHANGED <<unsortedArray, locals>> PROVE Inv'
  OBVIOUS
<1>1. Types' /\ \A s \in Threads : /\ calls'[s] = calls[s] /\ pc'[s] = pc[s]
                                   /\ i'[s] = i[s] /\ j'[s] = j[s] /\ x'[s] = x[s]
  BY DEF Inv, Types, locals
<1> QED BY <1>1, OtherThread DEF Inv

\* The calls that return, and those that divide their range in two.
LEMMA InvCalls ==
  ASSUME Inv, NEW t \in Threads, Return(t) \/ Recurse(t) \/ Exit(t)
  PROVE  Inv'
<1>1. Types /\ calls[t] \in Seq(Bounds) /\ \A n \in 1 .. Len(calls[t]) : InHalf(t, calls[t][n])
  BY DEF Inv, Types, ThreadInv
<1>2. CASE Return(t)
  <2> DEFINE c == Tail(calls[t])
  <2>1. /\ c \in Seq(Bounds) /\ Len(c) = Len(calls[t]) - 1 /\ Len(calls[t]) \in Nat
        /\ \A n \in 1 .. Len(c) : c[n] = calls[t][n + 1]
    BY <1>1, <1>2, HeadTailProperties DEF Return
  <2> HIDE DEF c
  <2>2. /\ \A s \in Threads : calls'[s] = IF s = t THEN c ELSE calls[s]
        /\ calls' \in [Threads -> Seq(Bounds)]
    BY <1>1, <1>2, <2>1 DEF Return, Types, c
  <2>3. \A n \in 1 .. Len(c) : InHalf(t, c[n])
    BY <1>1, <2>1
  <2>4. Types' /\ pc'[t] = "call" /\ UNCHANGED <<unsortedArray, pc, i, j, x>>
    BY <1>1, <1>2, <2>2 DEF Return, Types
  <2>5. ThreadInv(t)'
    BY <2>2, <2>3, <2>4, OutsideCall
  <2> QED BY <2>2, <2>4, <2>5, OneThreadMoves
<1>3. CASE Recurse(t)
  <2> DEFINE q == Current(t)
             n == j[t]
             c == Parts(q, n) \o Tail(calls[t])
  <2>1. /\ calls[t] # <<>> /\ q.l < q.r /\ q \in Bounds /\ InHalf(t, q)
        /\ Partition("swap", q, unsortedArray, i[t], n, x[t])
        /\ i[t] >= n /\ i[t] \in Int /\ n \in Int
    BY <1>1, <1>3, CurrentFacts DEF Recurse, Inv, ThreadInv, InCall, Types
  <2>2. q.l <= n /\ n < q.r /\ q.l \in Int /\ q.r \in Int
    BY <2>1 DEF Partition, Bounds
  <2>3. /\ Tail(calls[t]) \in Seq(Bounds) /\ Len(Tail(calls[t])) = Len(calls[t]) - 1
        /\ Len(calls[t]) \in Nat
        /\ \A k \in 1 .. Len(Tail(calls[t])) : Tail(calls[t])[k] = calls[t][k + 1]
    BY <1>1, <2>1, HeadTailProperties
  <2>4. /\ Parts(q, n) \in Seq(Bounds) /\ Len(Parts(q, n)) = 2
        /\ Parts(q, n)[1] = [l |-> q.l, r |-> n]
        /\ Parts(q, n)[2] = [l |-> n + 1, r |-> q.r]
    BY <2>1, <2>2 DEF Parts, Bounds
  <2>5. InHalf(t, Parts(q, n)[1]) /\ InHalf(t, Parts(q, n)[2])
    BY <2>1, <2>2, <2>4, HalfFacts DEF InHalf
  <2> DEFINE a == Parts(q, n)
             b == Tail(calls[t])
  <2> HIDE DEF a, b
  <2>6. /\ a \o b \in Seq(Bounds) /\ Len(a \o b) = Len(a) + Len(b)
        /\ \A k \in 1 .. Len(a) + Len(b) : (a \o b)[k] = IF k <= Len(a) THEN a[k] ELSE b[k - Len(a)]
    BY <2>3, <2>4, ConcatProperties DEF a, b
  <2>7. ASSUME NEW k \in 1 .. Len(a \o b) PROVE InHalf(t, (a \o b)[k])
    <3>1. Len(a) = 2 /\ Len(b) \in Nat /\ Len(b) = Len(calls[t]) - 1 /\ k \in Int
      BY <2>3, <2>4, <2>6 DEF a, b
    <3>2. CASE k <= 2
      <4>1. k = 1 \/ k = 2
        BY <3>1, <3>2
      <4> QED BY <2>5, <2>6, <3>1, <4>1 DEF a
    <3>3. CASE k > 2
      <4>1. /\ (a \o b)[k] = b[k - 2] /\ k - 2 \in 1 .. Len(b)
            /\ (k - 2) + 1 \in 1 .. Len(calls[t])
        BY <2>3, <2>6, <3>1, <3>3
      <4> QED BY <1>1, <2>3, <4>1 DEF b
    <3> QED BY <3>1, <3>2, <3>3
  <2>8. c \in Seq(Bounds) /\ \A k \in 1 .. Len(c) : InHalf(t, c[k])
    BY <2>6, <2>7 DEF a, b
  <2> HIDE DEF c
  <2>9. calls' = [calls EXCEPT ![t] = c] /\ pc' = [pc EXCEPT ![t] = "call"]
    BY <1>3 DEF Recurse, c
  <2>10. /\ \A s \in Threads : calls'[s] = IF s = t THEN c ELSE calls[s]
         /\ \A s \in Threads : pc'[s] = IF s = t THEN "call" ELSE pc[s]
         /\ calls' \in [Threads -> Seq(Bounds)]
    BY <1>1, <2>8, <2>9 DEF Types
  <2>11. Types' /\ UNCHANGED <<unsortedArray, i, j, x>>
    BY <1>1, <1>3, <2>9, <2>10 DEF Recurse, Types
  <2>12. ThreadInv(t)'
    BY <2>8, <2>10, OutsideCall
  <2> QED BY <2>10, <2>11, <2>12, OneThreadMoves
<1>4. CASE Exit(t)
  <2>1. /\ \A s \in Threads : pc'[s] = IF s = t THEN "exited" ELSE pc[s]
        /\ UNCHANGED <<unsortedArray, calls, i, j, x>> /\ Types'
    BY <1>1, <1>4 DEF Exit, Types
  <2>2. ThreadInv(t)'
    BY <1>1, <2>1, OutsideCall
  <2> QED BY <2>1, <2>2, OneThreadMoves
<1> QED BY <1>2, <1>3, <1>4

\* The steps of a partition.
LEMMA InvPartition ==
  ASSUME Inv, NEW t \in Threads, Call(t) \/ ScanUp(t) \/ ScanDown(t) \/ Swap(t)
  PROVE  Inv'
<1> DEFINE q == Current(t)
<1>1. Types /\ calls[t] # <<>> /\ q.l < q.r /\ calls' = calls
  BY DEF Call, ScanUp, ScanDown, Swap, Inv, ThreadInv, InCall
<1>2. /\ q \in Bounds /\ InHalf(t, q) /\ q.l \in Int /\ q.r \in Int
      /\ \A k \in q.l .. q.r : k \in Index /\ unsortedArray[k] \in Int
  BY <1>1, CurrentFacts, RangeFacts
<1>3. i[t] \in Int /\ j[t] \in Int /\ x[t] \in Int
  BY <1>1 DEF Types
<1>4. InCall(t) => Partition(pc[t], q, unsortedArray, i[t], j[t], x[t])
  BY DEF Inv, ThreadInv
<1> HIDE DEF q
<1>5. CASE Call(t)
  <2>1. /\ Middle(q) \in q.l .. q.r
        /\ Partition("up", q, unsortedArray, q.l - 1, q.r + 1, unsortedArray[Middle(q)])
    BY <1>1, <1>2, PartitionBegins
  <2>2. /\ i' = [i EXCEPT ![t] = q.l - 1] /\ j' = [j EXCEPT ![t] = q.r + 1]
        /\ x' = [x EXCEPT ![t] = unsortedArray[Middle(q)]]
        /\ pc' = [pc EXCEPT ![t] = "up"] /\ UNCHANGED unsortedArray
    BY <1>5 DEF Call, q
  <2>3. unsortedArray[Middle(q)] \in Int /\ q.l - 1 \in Int /\ q.r + 1 \in Int
    BY <1>2, <2>1
  <2>4. Types'
    BY <1>1, <2>2, <2>3 DEF Types
  <2>5. /\ i'[t] = q.l - 1 /\ j'[t] = q.r + 1 /\ x'[t] = unsortedArray[Middle(q)] /\ pc'[t] = "up"
        /\ \A s \in Threads \ {t} : pc'[s] = pc[s] /\ i'[s] = i[s] /\ j'[s] = j[s] /\ x'[s] = x[s]
    BY <1>1, <2>2 DEF Types
  <2>6. Partition(pc'[t], q, unsortedArray', i'[t], j'[t], x'[t])
    BY <2>1, <2>2, <2>5
  <2>7. ThreadInv(t)'
    BY <1>1, <2>6, InsideCall DEF q
  <2> QED BY <1>1, <2>2, <2>4, <2>5, <2>7, OneThreadMoves
<1>6. CASE ScanUp(t)
  <2> DEFINE m == i[t] + 1
             p == IF unsortedArray[m] < x[t] THEN "up" ELSE "down"
  <2>1. Partition(p, q, unsortedArray, m, j[t], x[t])
    <3>1. Partition("up", q, unsortedArray, i[t], j[t], x[t])
      BY <1>4, <1>6 DEF ScanUp, InCall
    <3> QED BY <1>2, <1>3, <3>1, PartitionScansUp
  <2>2. /\ i' = [i EXCEPT ![t] = m] /\ pc' = [pc EXCEPT ![t] = p]
        /\ UNCHANGED <<unsortedArray, j, x>>
    BY <1>6 DEF ScanUp, Below
  <2>3. m \in Int /\ p \in {"up", "down"}
    BY <1>3
  <2> HIDE DEF m, p
  <2>4. Types'
    BY <1>1, <2>2, <2>3 DEF Types
  <2>5. /\ i'[t] = m /\ pc'[t] = p
        /\ \A s \in Threads \ {t} : pc'[s] = pc[s] /\ i'[s] = i[s]
    BY <1>1, <2>2 DEF Types
  <2>6. Partition(pc'[t], q, unsortedArray', i'[t], j'[t], x'[t])
    BY <2>1, <2>2, <2>5
  <2>7. ThreadInv(t)'
    BY <1>1, <2>6, InsideCall DEF q
  <2> QED BY <1>1, <2>2, <2>4, <2>5, <2>7, OneThreadMoves
<1>7. CASE ScanDown(t)
  <2> DEFINE m == j[t] - 1
             p == IF x[t] < unsortedArray[m] THEN "down" ELSE "swap"
  <2>1. Partition(p, q, unsortedArray, i[t], m, x[t])
    <3>1. Partition("down", q, unsortedArray, i[t], j[t], x[t])
      BY <1>4, <1>7 DEF ScanDown, InCall
    <3> QED BY <1>2, <1>3, <3>1, PartitionScansDown
  <2>2. /\ j' = [j EXCEPT ![t] = m] /\ pc' = [pc EXCEPT ![t] = p]
        /\ UNCHANGED <<unsortedArray, i, x>>
    BY <1>7 DEF ScanDown, Below
  <2>3. m \in Int /\ p \in {"down", "swap"}
    BY <1>3
  <2> HIDE DEF m, p
  <2>4. Types'
    BY <1>1, <2>2, <2>3 DEF Types
  <2>5. /\ j'[t] = m /\ pc'[t] = p
        /\ \A s \in Threads \ {t} : pc'[s] = pc[s] /\ j'[s] = j[s]
    BY <1>1, <2>2 DEF Types
  <2>6. Partition(pc'[t], q, unsortedArray', i'[t], j'[t], x'[t])
    BY <2>1, <2>2, <2>5
  <2>7. ThreadInv(t)'
    BY <1>1, <2>6, InsideCall DEF q
  <2> QED BY <1>1, <2>2, <2>4, <2>5, <2>7, OneThreadMoves
<1>8. CASE Swap(t)
  <2> DEFINE m == i[t]
             n == j[t]
  <2>1. m < n /\ Partition("swap", q, unsortedArray, m, n, x[t])
    BY <1>4, <1>8 DEF Swap, InCall
  <2>2. m \in q.l .. q.r /\ n \in q.l .. q.r /\ m # n
    BY <1>2, <1>3, <2>1 DEF Partition
  <2>3. /\ unsortedArray' = [unsortedArray EXCEPT ![m] = unsortedArray[n], ![n] = unsortedArray[m]]
        /\ pc' = [pc EXCEPT ![t] = "up"] /\ UNCHANGED <<i, j, x>>
    BY <1>8 DEF Swap, Exchanged
  <2>4. m \in Index /\ n \in Index /\ unsortedArray[m] \in Int /\ unsortedArray[n] \in Int
    BY <1>2, <2>2
  <2>5. /\ unsortedArray' \in [Index -> Int]
        /\ unsortedArray'[m] = unsortedArray[n] /\ unsortedArray'[n] = unsortedArray[m]
        /\ \A k \in Index : k # m /\ k # n => unsortedArray'[k] = unsortedArray[k]
    BY <1>1, <2>2, <2>3, <2>4 DEF Types
  <2>6. Types'
    BY <1>1, <2>3, <2>5 DEF Types
  <2>7. Partition("up", q, unsortedArray', m, n, x[t])
    BY <1>2, <1>3, <2>1, <2>5, PartitionSwaps
  <2>8. pc'[t] = "up" /\ \A s \in Threads \ {t} : pc'[s] = pc[s]
    BY <1>1, <2>3 DEF Types
  <2>9. ThreadInv(t)'
    <3>1. Partition(pc'[t], q, unsortedArray', i'[t], j'[t], x'[t])
      BY <2>3, <2>7, <2>8
    <3> QED BY <1>1, <3>1, InsideCall DEF q
  <2>10. ASSUME NEW s \in Threads \ {t} PROVE ThreadInv(s)'
    <3>1. ASSUME calls[s] # <<>>, NEW k \in Current(s).l .. Current(s).r
          PROVE  unsortedArray'[k] = unsortedArray[k]
      <4>1. Current(s) \in Bounds /\ InHalf(s, Current(s)) /\ k \in Index
        BY <3>1, CurrentFacts
      <4>2. k \notin q.l .. q.r
        BY <1>2, <3>1, <4>1, RangeFacts
      <4> QED BY <2>2, <2>5, <4>1, <4>2
    <3>2. calls'[s] = calls[s] /\ i'[s] = i[s] /\ j'[s] = j[s] /\ x'[s] = x[s]
      BY <1>1, <2>3
    <3> QED BY <2>8, <3>1, <3>2, OtherThread
  <2> QED BY <2>6, <2>9, <2>10 DEF Inv
<1> QED BY <1>5, <1>6, <1>7, <1>8

LEMMA InvMain == Inv /\ MainStep => Inv'
<1> SUFFICES ASSUME Inv, MainStep PROVE Inv'
  OBVIOUS
<1>1. CASE Create
  <2>1. PICK t \in Threads :
          /\ pc[t] = "none"
          /\ pc' = [pc EXCEPT ![t] = "call"]
          /\ calls' = [calls EXCEPT ![t] = <<[l |-> Start(t), r |-> End(t)]>>]
    BY <1>1 DEF Create
  <2> DEFINE q == [l |-> Start(t), r |-> End(t)]
  <2>2. q \in Bounds /\ InHalf(t, q) /\ <<q>> \in Seq(Bounds)
    BY HalfFacts DEF Bounds, InHalf
  <2>3. Types /\ UNCHANGED <<unsortedArray, i, j, x>>
    BY <1>1 DEF Create, Inv
  <2>4. /\ \A s \in Threads : calls'[s] = IF s = t THEN <<q>> ELSE calls[s]
        /\ \A s \in Threads : pc'[s] = IF s = t THEN "call" ELSE pc[s]
        /\ calls' \in [Threads -> Seq(Bounds)]
    BY <2>1, <2>2, <2>3 DEF Types
  <2>5. Types'
    BY <2>1, <2>3, <2>4 DEF Types
  <2>6. \A n \in 1 .. Len(<<q>>) : InHalf(t, <<q>>[n])
    BY <2>2
  <2> HIDE DEF q
  <2>7. ThreadInv(t)'
    BY <2>4, <2>6, OutsideCall
  <2> QED BY <2>3, <2>4, <2>5, <2>7, OneThreadMoves
<1>2. CASE Join \/ Merge \/ Finish
  <2>1. UNCHANGED <<unsortedArray, locals>>
    BY <1>2 DEF Join, Merge, Finish
  <2> QED BY <2>1, InvKept
<1> QED BY <1>1, <1>2 DEF MainStep

LEMMA InvStep == Inv /\ [Next]_vars => Inv'
<1>1. Inv /\ UNCHANGED vars => Inv'
  BY InvKept DEF vars
<1> QED BY <1>1, InvCalls, InvPartition, InvMain DEF Next, sortArray

\* No scan leaves the half of its thread, although none looks where it ends.
THEOREM ThreadsStayApart == Spec => []StaysInHalf
<1>1. Inv => StaysInHalf
  <2> SUFFICES ASSUME Inv, NEW t \in Threads
               PROVE  /\ pc[t] = "up" => i[t] + 1 \in Start(t) .. Start(t) + Half - 1
                      /\ pc[t] = "down" => j[t] - 1 \in Start(t) .. Start(t) + Half - 1
    BY DEF StaysInHalf
  <2> DEFINE q == Current(t)
  <2>1. ASSUME InCall(t)
        PROVE  /\ q \in Bounds /\ InHalf(t, q) /\ \A k \in q.l .. q.r : unsortedArray[k] \in Int
               /\ Partition(pc[t], q, unsortedArray, i[t], j[t], x[t])
    BY <2>1, CurrentFacts DEF Inv, ThreadInv
  <2>2. i[t] \in Int /\ j[t] \in Int /\ x[t] \in Int
    BY DEF Inv, Types
  <2> HIDE DEF q
  <2>3. ASSUME InCall(t), NEW k \in q.l .. q.r PROVE k \in Start(t) .. Start(t) + Half - 1
    BY <2>1, <2>3, HalfFacts DEF InHalf, Bounds
  <2>4. CASE pc[t] = "up"
    BY <2>1, <2>2, <2>3, <2>4, PartitionScansUp DEF InCall
  <2>5. CASE pc[t] = "down"
    BY <2>1, <2>2, <2>3, <2>5, PartitionScansDown DEF InCall
  <2> QED BY <2>4, <2>5
<1> QED BY InvInit, InvStep, <1>1, PTL DEF Spec

-----------------------------------------------------------------------------
(* The order: what a partition has passed is on its side of the pivot.     *)

Span(q) == q.l .. q.r

Passed(p, q, a, m, n, v) ==
  /\ \A k \in q.l .. (IF p = "up" THEN m ELSE m - 1) : a[k] <= v
  /\ \A k \in (IF p = "swap" THEN n + 1 ELSE n) .. q.r : v <= a[k]

LEMMA PassedScansUp ==
  ASSUME NEW q \in Bounds, NEW a, \A k \in Span(q) : a[k] \in Int,
         NEW m \in Int, NEW n \in Int, NEW v \in Int,
         Partition("up", q, a, m, n, v), Passed("up", q, a, m, n, v)
  PROVE  /\ a[m + 1] < v => Passed("up", q, a, m + 1, n, v)
         /\ ~ (a[m + 1] < v) => Passed("down", q, a, m + 1, n, v)
<1>1. q.l \in Int /\ q.r \in Int /\ m + 1 \in q.l .. q.r /\ a[m + 1] \in Int
  BY PartitionScansUp DEF Bounds, Span
<1>2. (\A k \in q.l .. m : a[k] <= v) /\ (\A k \in n .. q.r : v <= a[k])
  BY DEF Passed
<1>3. ASSUME a[m + 1] < v, NEW k \in q.l .. m + 1 PROVE a[k] <= v
  <2>1. k = m + 1 \/ k \in q.l .. m
    BY <1>1
  <2> QED BY <1>1, <1>2, <1>3, <2>1
<1>4. (m + 1) - 1 = m
  OBVIOUS
<1> QED BY <1>2, <1>3, <1>4 DEF Passed

LEMMA PassedScansDown ==
  ASSUME NEW q \in Bounds, NEW a, \A k \in Span(q) : a[k] \in Int,
         NEW m \in Int, NEW n \in Int, NEW v \in Int,
         Partition("down", q, a, m, n, v), Passed("down", q, a, m, n, v)
  PROVE  /\ v < a[n - 1] => Passed("down", q, a, m, n - 1, v)
         /\ ~ (v < a[n - 1]) => Passed("swap", q, a, m, n - 1, v)
<1>1. q.l \in Int /\ q.r \in Int /\ n - 1 \in q.l .. q.r /\ a[n - 1] \in Int
  BY PartitionScansDown DEF Bounds, Span
<1>2. (\A k \in q.l .. m - 1 : a[k] <= v) /\ (\A k \in n .. q.r : v <= a[k])
  BY DEF Passed
<1>3. ASSUME v < a[n - 1], NEW k \in n - 1 .. q.r PROVE v <= a[k]
  <2>1. k = n - 1 \/ k \in n .. q.r
    BY <1>1
  <2> QED BY <1>1, <1>2, <1>3, <2>1
<1>4. (n - 1) + 1 = n
  OBVIOUS
<1> QED BY <1>2, <1>3, <1>4 DEF Passed

LEMMA PassedSwaps ==
  ASSUME NEW q \in Bounds, NEW a, NEW b, NEW m \in Int, NEW n \in Int, NEW v \in Int,
         Partition("swap", q, a, m, n, v), Passed("swap", q, a, m, n, v),
         m < n, b[m] = a[n], b[n] = a[m],
         \A k \in Span(q) : k # m /\ k # n => b[k] = a[k]
  PROVE  Passed("up", q, b, m, n, v)
<1>1. /\ q.l \in Int /\ q.r \in Int
      /\ q.l <= m /\ n <= q.r /\ b[m] <= v /\ v <= b[n]
  BY DEF Bounds, Partition
<1>2. (\A k \in q.l .. m - 1 : a[k] <= v) /\ (\A k \in n + 1 .. q.r : v <= a[k])
  BY DEF Passed
<1>3. ASSUME NEW k \in q.l .. m PROVE b[k] <= v
  <2>1. k = m \/ (k \in q.l .. m - 1 /\ k \in Span(q) /\ k # m /\ k # n)
    BY <1>1 DEF Span
  <2> QED BY <1>1, <1>2, <2>1
<1>4. ASSUME NEW k \in n .. q.r PROVE v <= b[k]
  <2>1. k = n \/ (k \in n + 1 .. q.r /\ k \in Span(q) /\ k # m /\ k # n)
    BY <1>1 DEF Span
  <2> QED BY <1>1, <1>2, <2>1
<1> QED BY <1>3, <1>4 DEF Passed

LEMMA PassedKept ==
  ASSUME NEW p \in {"up", "down", "swap"}, NEW q \in Bounds, NEW a, NEW b,
         NEW m \in Int, NEW n \in Int, NEW v,
         Partition(p, q, a, m, n, v), Passed(p, q, a, m, n, v),
         \A k \in Span(q) : b[k] = a[k]
  PROVE  Passed(p, q, b, m, n, v)
<1>1. q.l \in Int /\ q.r \in Int
  BY DEF Bounds
<1>2. q.l - 1 <= m /\ m <= q.r /\ q.l <= n /\ n <= q.r + 1
  <2>1. CASE p = "up"
    BY <1>1, <2>1 DEF Partition
  <2>2. CASE p = "down"
    BY <1>1, <2>2 DEF Partition
  <2>3. CASE p = "swap"
    BY <1>1, <2>3 DEF Partition
  <2> QED BY <2>1, <2>2, <2>3
<1>3. /\ \A k \in q.l .. (IF p = "up" THEN m ELSE m - 1) : k \in Span(q)
      /\ \A k \in (IF p = "swap" THEN n + 1 ELSE n) .. q.r : k \in Span(q)
  BY <1>1, <1>2 DEF Span
<1> QED BY <1>3 DEF Passed

\* When the scans have met, the first part is nowhere above the second.
LEMMA PassedDivides ==
  ASSUME NEW q \in Bounds, NEW a, \A k \in Span(q) : a[k] \in Int,
         NEW m \in Int, NEW n \in Int, NEW v \in Int, m >= n,
         Partition("swap", q, a, m, n, v), Passed("swap", q, a, m, n, v),
         NEW g \in q.l .. n, NEW h \in n + 1 .. q.r
  PROVE  a[g] <= a[h]
<1>1. /\ q.l \in Int /\ q.r \in Int /\ q.l <= n /\ n <= q.r /\ a[n] <= v
  BY DEF Bounds, Partition
<1>2. g \in Span(q) /\ h \in Span(q)
  BY <1>1 DEF Span
<1>3. v <= a[h]
  BY DEF Passed
<1>4. g = n \/ g \in q.l .. m - 1
  BY <1>1
<1>5. a[g] <= v
  BY <1>1, <1>4 DEF Passed
<1> QED BY <1>2, <1>3, <1>5

-----------------------------------------------------------------------------
(* What a thread has done: two elements of its half are in order unless    *)
(* both are in one of the ranges it has still to sort.                     *)

Apart(c) == \A h, k \in 1 .. Len(c) : h < k => c[h].r < c[k].l

Pending(c, m, n) == \E k \in 1 .. Len(c) : m \in Span(c[k]) /\ n \in Span(c[k])

Settled(a, c, from, to) ==
  \A m, n \in from .. to : m < n => a[m] <= a[n] \/ Pending(c, m, n)

LEMMA SpanWithin ==
  ASSUME NEW q \in Bounds, NEW from \in Int, NEW to \in Int, from <= q.l, q.r <= to
  PROVE  Span(q) \subseteq from .. to
BY DEF Span, Bounds

LEMMA SpanOrder ==
  ASSUME NEW q \in Bounds, NEW m \in Int, NEW n \in Int, m < n, NEW g \in Span(q)
  PROVE  /\ m \in Span(q) /\ n \notin Span(q) => g < n
         /\ m \notin Span(q) /\ n \in Span(q) => m < g
BY DEF Span, Bounds

LEMMA SpansApart ==
  ASSUME NEW p \in Bounds, NEW q \in Bounds, p.r < q.l, NEW g \in Span(p)
  PROVE  g \notin Span(q)
BY DEF Span, Bounds

\* Moving elements about in the first range leaves what is settled settled.
LEMMA SettledInside ==
  ASSUME NEW c \in Seq(Bounds), Len(c) > 0, Apart(c), NEW from \in Int, NEW to \in Int,
         NEW a, NEW b, Settled(a, c, from, to),
         from <= c[1].l, c[1].r <= to,
         \A k \in Span(c[1]) : \E g \in Span(c[1]) : b[k] = a[g],
         \A k \in from .. to : k \notin Span(c[1]) => b[k] = a[k]
  PROVE  Settled(b, c, from, to)
<1> SUFFICES ASSUME NEW m \in from .. to, NEW n \in from .. to, m < n, ~ Pending(c, m, n)
             PROVE  b[m] <= b[n]
  BY DEF Settled
<1>1. /\ 1 \in 1 .. Len(c) /\ c[1] \in Bounds /\ c[1].l \in Int /\ c[1].r \in Int
      /\ m \in Int /\ n \in Int
  <2>1. 1 \in 1 .. Len(c) /\ c[1] \in Bounds
    BY ElementOfSeq
  <2> QED BY <2>1 DEF Bounds
<1>2. ~ (m \in Span(c[1]) /\ n \in Span(c[1]))
  BY <1>1 DEF Pending
<1>3. ASSUME NEW g \in Span(c[1]), NEW h \in from .. to, h \notin Span(c[1])
      PROVE  ~ Pending(c, g, h) /\ ~ Pending(c, h, g)
  <2> SUFFICES ASSUME NEW k \in 1 .. Len(c), g \in Span(c[k]), h \in Span(c[k]) PROVE FALSE
    BY DEF Pending
  <2>1. 1 < k
    BY <1>1, <1>3
  <2>2. c[1].r < c[k].l /\ c[k] \in Bounds
    BY <1>1, <2>1, ElementOfSeq DEF Apart
  <2> QED BY <1>1, <2>2, SpansApart
<1>4. CASE m \in Span(c[1])
  <2>1. n \notin Span(c[1])
    BY <1>2, <1>4
  <2>2. PICK g \in Span(c[1]) : b[m] = a[g]
    BY <1>4
  <2>3. g \in from .. to /\ g < n
    BY <1>1, <1>4, <2>1, SpanWithin, SpanOrder
  <2>4. a[g] <= a[n]
    BY <1>3, <2>1, <2>3 DEF Settled
  <2> QED BY <2>1, <2>2, <2>4
<1>5. CASE m \notin Span(c[1]) /\ n \in Span(c[1])
  <2>1. PICK g \in Span(c[1]) : b[n] = a[g]
    BY <1>5
  <2>2. g \in from .. to /\ m < g
    BY <1>1, <1>5, SpanWithin, SpanOrder
  <2>3. a[m] <= a[g]
    BY <1>3, <1>5, <2>2 DEF Settled
  <2> QED BY <1>5, <2>1, <2>3
<1>6. CASE m \notin Span(c[1]) /\ n \notin Span(c[1])
  BY <1>6 DEF Settled
<1> QED BY <1>4, <1>5, <1>6

-----------------------------------------------------------------------------
(* The invariant of the order.                                             *)

OrderInv(t) ==
  /\ Apart(calls[t])
  /\ pc[t] # "none" => Settled(unsortedArray, calls[t], Start(t), End(t))
  /\ InCall(t) => Passed(pc[t], Current(t), unsortedArray, i[t], j[t], x[t])
  /\ pc[t] = "exited" => calls[t] = <<>>

Merged == left + right - Half

Taken == 0 .. left - 1 \union Half .. right - 1

Left == left .. Half - 1 \union right .. N - 1

CopiesIn(array, S, v) == Cardinality({n \in S : array[n] = v})

\* What mergeArrays() has put into sortedArray is in order, not above what is
\* left, and what it has taken from the halves.
MergeInv ==
  /\ main \in {"create", "join", "merge", "done"}
  /\ left \in 0 .. Half /\ right \in Half .. N
  /\ sortedArray \in [Index -> Int]
  /\ main \in {"create", "join"} => left = 0 /\ right = Half
  /\ main \in {"merge", "done"} => Exited
  /\ main = "done" => left = Half /\ right = N
  /\ Sorted(sortedArray, 0, Merged - 1)
  /\ \A m \in 0 .. Merged - 1, k \in Left : sortedArray[m] <= unsortedArray[k]
  /\ \A v \in Numbers :
       CopiesIn(sortedArray, 0 .. Merged - 1, v) = CopiesIn(unsortedArray, Taken, v)

\* The threads only move elements about.
SameElements == \A v \in Numbers : Copies(unsortedArray, v) = Copies(original, v)

SortInv ==
  /\ Inv
  /\ \A t \in Threads : OrderInv(t)
  /\ MergeInv
  /\ SameElements

Orders == \A t \in Threads : OrderInv(t)

\* The parts of OrderInv(t) in the next state.
LEMMA OrderNext ==
  ASSUME NEW t \in Threads, Apart(calls'[t]),
         pc'[t] # "none" => Settled(unsortedArray', calls'[t], Start(t), End(t)),
         pc'[t] \in {"up", "down", "swap"} =>
           Passed(pc'[t], Head(calls'[t]), unsortedArray', i'[t], j'[t], x'[t]),
         pc'[t] = "exited" => calls'[t] = <<>>
  PROVE  OrderInv(t)'
BY DEF OrderInv, InCall, Current, Start, End, Half, Settled, Pending, Passed, Apart, Span

\* A thread that does not move, and in whose half nothing moves.
LEMMA OrderKept ==
  ASSUME Inv, NEW t \in Threads, OrderInv(t),
         calls'[t] = calls[t], pc'[t] = pc[t], i'[t] = i[t], j'[t] = j[t], x'[t] = x[t],
         \A k \in Start(t) .. End(t) : unsortedArray'[k] = unsortedArray[k]
  PROVE  OrderInv(t)'
<1>1. i[t] \in Int /\ j[t] \in Int /\ x[t] \in Int
  BY DEF Inv, Types
<1>2. Settled(unsortedArray, calls[t], Start(t), End(t))
        => Settled(unsortedArray', calls[t], Start(t), End(t))
  BY DEF Settled
<1>3. ASSUME InCall(t)
      PROVE  Passed(pc[t], Current(t), unsortedArray', i[t], j[t], x[t])
  <2>1. /\ calls[t] # <<>> /\ pc[t] \in {"up", "down", "swap"}
        /\ Partition(pc[t], Current(t), unsortedArray, i[t], j[t], x[t])
    BY <1>3 DEF Inv, ThreadInv, InCall
  <2>2. Current(t) \in Bounds /\ InHalf(t, Current(t))
    BY <2>1, CurrentFacts
  <2>3. \A k \in Span(Current(t)) : unsortedArray'[k] = unsortedArray[k]
    BY <2>2, HalfFacts DEF InHalf, Span, Bounds
  <2>4. Passed(pc[t], Current(t), unsortedArray, i[t], j[t], x[t])
    BY <1>3 DEF OrderInv
  <2> QED BY <1>1, <2>1, <2>2, <2>3, <2>4, PassedKept
<1> QED BY <1>2, <1>3, OrderNext DEF OrderInv, InCall, Current

LEMMA OrdersKept ==
  ASSUME Inv, Orders, NEW t \in Threads, UNCHANGED unsortedArray, OrderInv(t)',
         \A s \in Threads \ {t} : /\ calls'[s] = calls[s] /\ pc'[s] = pc[s]
                                  /\ i'[s] = i[s] /\ j'[s] = j[s] /\ x'[s] = x[s]
  PROVE  Orders'
<1>1. ASSUME NEW s \in Threads \ {t} PROVE OrderInv(s)'
  BY OrderKept DEF Orders
<1> QED BY <1>1 DEF Orders

\* A range of one element is sorted.
LEMMA OrderReturn ==
  ASSUME Inv, Orders, NEW t \in Threads, Return(t)
  PROVE  Orders'
<1> DEFINE c == calls[t]
           d == Tail(c)
<1>1. Types /\ c \in Seq(Bounds) /\ c # <<>> /\ OrderInv(t)
  BY DEF Inv, Types, Return, Orders
<1>2. /\ d \in Seq(Bounds) /\ Len(d) = Len(c) - 1 /\ Len(c) \in Nat
      /\ \A n \in 1 .. Len(d) : d[n] = c[n + 1]
  BY <1>1, HeadTailProperties
<1>3. /\ pc'[t] = "call" /\ UNCHANGED <<unsortedArray, pc, i, j, x>>
      /\ \A s \in Threads : calls'[s] = IF s = t THEN d ELSE calls[s]
  BY <1>1 DEF Return, Types
<1>4. c[1].l \in Int /\ c[1].r \in Int /\ c[1].l >= c[1].r
  BY <1>1, CurrentFacts DEF Return, Current, Bounds
<1> HIDE DEF d, c
<1>5. Apart(c) /\ Settled(unsortedArray, c, Start(t), End(t))
  BY <1>1, <1>3 DEF OrderInv, c
<1>6. Apart(d)
  <2> SUFFICES ASSUME NEW h \in 1 .. Len(d), NEW k \in 1 .. Len(d), h < k
               PROVE  d[h].r < d[k].l
    BY DEF Apart
  <2>1. h + 1 \in 1 .. Len(c) /\ k + 1 \in 1 .. Len(c) /\ h + 1 < k + 1
    BY <1>2
  <2> QED BY <1>2, <1>5, <2>1 DEF Apart
<1>7. Settled(unsortedArray, d, Start(t), End(t))
  <2> SUFFICES ASSUME NEW m \in Start(t) .. End(t), NEW n \in Start(t) .. End(t), m < n,
                      NEW k \in 1 .. Len(c), m \in Span(c[k]), n \in Span(c[k])
               PROVE  Pending(d, m, n)
    BY <1>5 DEF Settled, Pending
  <2>1. k # 1
    BY <1>4, HalfFacts DEF Span
  <2>2. k - 1 \in 1 .. Len(d) /\ d[k - 1] = c[k]
    BY <1>2, <2>1
  <2> QED BY <2>2 DEF Pending
<1>8. OrderInv(t)'
  BY <1>3, <1>6, <1>7, OrderNext
<1> QED BY <1>3, <1>8, OrdersKept

LEMMA OrderExit ==
  ASSUME Inv, Orders, NEW t \in Threads, Exit(t)
  PROVE  Orders'
<1>1. /\ \A s \in Threads : pc'[s] = IF s = t THEN "exited" ELSE pc[s]
      /\ UNCHANGED <<unsortedArray, calls, i, j, x>> /\ calls[t] = <<>> /\ pc[t] = "call"
  BY DEF Exit, Inv, Types
<1>2. OrderInv(t)
  BY DEF Orders
<1>3. OrderInv(t)'
  BY <1>1, <1>2, OrderNext DEF OrderInv
<1> QED BY <1>1, <1>3, OrdersKept

\* Only the elements of one part have still to be put in order.
LEMMA OrderRecurse ==
  ASSUME Inv, Orders, NEW t \in Threads, Recurse(t)
  PROVE  Orders'
<1> DEFINE q == Current(t)
           n == j[t]
           d == Tail(calls[t])
           p == Parts(q, n)
           c == p \o d
<1>1. /\ Types /\ calls[t] \in Seq(Bounds) /\ calls[t] # <<>> /\ OrderInv(t)
      /\ q = calls[t][1] /\ q \in Bounds /\ InHalf(t, q) /\ q.l < q.r
      /\ Partition("swap", q, unsortedArray, i[t], n, x[t])
      /\ Passed("swap", q, unsortedArray, i[t], n, x[t])
      /\ i[t] >= n /\ i[t] \in Int /\ n \in Int /\ x[t] \in Int
  BY CurrentFacts DEF Recurse, Inv, ThreadInv, InCall, Types, Orders, OrderInv, Current
<1>2. q.l <= n /\ n < q.r /\ q.l \in Int /\ q.r \in Int
  BY <1>1 DEF Partition, Bounds
<1>3. /\ d \in Seq(Bounds) /\ Len(d) = Len(calls[t]) - 1 /\ Len(calls[t]) \in Nat
      /\ \A k \in 1 .. Len(d) : d[k] = calls[t][k + 1]
  BY <1>1, HeadTailProperties
<1>4. /\ p \in Seq(Bounds) /\ Len(p) = 2
      /\ p[1] = [l |-> q.l, r |-> n] /\ p[2] = [l |-> n + 1, r |-> q.r]
  BY <1>1, <1>2 DEF Parts, Bounds
<1>5. /\ UNCHANGED <<unsortedArray, i, j, x>>
      /\ \A s \in Threads : calls'[s] = IF s = t THEN c ELSE calls[s]
      /\ \A s \in Threads : pc'[s] = IF s = t THEN "call" ELSE pc[s]
  BY <1>1 DEF Recurse, Types
<1>6. pc[t] = "swap"
  BY DEF Recurse
<1>7. \A g \in q.l .. n, h \in n + 1 .. q.r : unsortedArray[g] <= unsortedArray[h]
  <2>1. \A k \in Span(q) : unsortedArray[k] \in Int
    BY <1>1, CurrentFacts DEF Span
  <2> HIDE DEF q, n
  <2> QED BY <1>1, <2>1, PassedDivides
<1> HIDE DEF d, p
<1>8. /\ Len(c) = Len(calls[t]) + 1
      /\ c[1] = p[1] /\ c[2] = p[2]
      /\ \A k \in 3 .. Len(c) : k - 1 \in 2 .. Len(calls[t]) /\ c[k] = calls[t][k - 1]
  <2>1. /\ Len(c) = Len(p) + Len(d)
        /\ \A k \in 1 .. Len(p) + Len(d) : c[k] = IF k <= Len(p) THEN p[k] ELSE d[k - Len(p)]
    BY <1>3, <1>4, ConcatProperties
  <2> HIDE DEF c
  <2>2. \A k \in 3 .. Len(c) : k - 2 \in 1 .. Len(d) /\ (k - 2) + 1 = k - 1 /\ ~ (k <= 2)
    BY <1>3, <1>4, <2>1
  <2>3. \A k \in 3 .. Len(c) : c[k] = d[k - 2]
    BY <1>3, <1>4, <2>1, <2>2
  <2> QED BY <1>3, <1>4, <2>1, <2>2, <2>3
<1> HIDE DEF c, q, n
<1>9. Apart(calls[t]) /\ Settled(unsortedArray, calls[t], Start(t), End(t))
  BY <1>1, <1>6 DEF OrderInv
<1>10. Apart(c)
  <2> SUFFICES ASSUME NEW h \in 1 .. Len(c), NEW k \in 1 .. Len(c), h < k
               PROVE  c[h].r < c[k].l
    BY DEF Apart
  <2>1. CASE k = 2
    <3>1. h = 1
      BY <2>1
    <3>2. c[1].r = n /\ c[2].l = n + 1
      BY <1>4, <1>8
    <3> QED BY <1>1, <2>1, <3>1, <3>2
  <2>2. CASE k # 2 /\ h > 2
    <3>1. h \in 3 .. Len(c) /\ k \in 3 .. Len(c) /\ h - 1 < k - 1
      BY <1>3, <1>8, <2>2
    <3>2. h - 1 \in 1 .. Len(calls[t]) /\ k - 1 \in 1 .. Len(calls[t])
      BY <1>8, <3>1
    <3> QED BY <1>8, <1>9, <3>1, <3>2 DEF Apart
  <2>3. CASE k # 2 /\ h <= 2
    <3>1. k \in 3 .. Len(c) /\ (h = 1 \/ h = 2)
      BY <1>3, <1>8, <2>3
    <3>2. k - 1 \in 1 .. Len(calls[t]) /\ 1 \in 1 .. Len(calls[t]) /\ 1 < k - 1
      BY <1>3, <1>8, <3>1
    <3>3. q.r < c[k].l
      BY <1>1, <1>8, <1>9, <3>1, <3>2 DEF Apart
    <3>4. c[k].l \in Int
      <4>1. calls[t][k - 1] \in Bounds
        BY <1>1, <3>2, ElementOfSeq
      <4> QED BY <1>8, <3>1, <4>1 DEF Bounds
    <3>5. c[h].r = n \/ c[h].r = q.r
      BY <1>4, <1>8, <3>1
    <3>6. n < c[k].l
      BY <1>1, <1>2, <3>3, <3>4
    <3> QED BY <3>3, <3>5, <3>6
  <2> QED BY <2>1, <2>2, <2>3
<1>11. Settled(unsortedArray, c, Start(t), End(t))
  <2> SUFFICES ASSUME NEW g \in Start(t) .. End(t), NEW h \in Start(t) .. End(t), g < h,
                      ~ Pending(c, g, h)
               PROVE  unsortedArray[g] <= unsortedArray[h]
    BY DEF Settled
  <2>1. CASE ~ Pending(calls[t], g, h)
    BY <1>9, <2>1 DEF Settled
  <2>2. CASE Pending(calls[t], g, h)
    <3>1. PICK k \in 1 .. Len(calls[t]) : g \in Span(calls[t][k]) /\ h \in Span(calls[t][k])
      BY <2>2 DEF Pending
    <3>2. k = 1
      <4> SUFFICES ASSUME k # 1 PROVE FALSE
        OBVIOUS
      <4>1. k + 1 \in 3 .. Len(c) /\ k + 1 \in 1 .. Len(c) /\ (k + 1) - 1 = k
        BY <1>3, <1>8
      <4>2. c[k + 1] = calls[t][k]
        BY <1>8, <4>1
      <4> QED BY <3>1, <4>1, <4>2 DEF Pending
    <3>3. g \in q.l .. q.r /\ h \in q.l .. q.r /\ g \in Int /\ h \in Int
      BY <1>1, <3>1, <3>2 DEF Span
    <3>4. 1 \in 1 .. Len(c) /\ 2 \in 1 .. Len(c)
      BY <1>3, <1>8
    <3>5. ~ (g \in q.l .. n /\ h \in q.l .. n)
      BY <1>4, <1>8, <3>4 DEF Pending, Span
    <3>6. ~ (g \in n + 1 .. q.r /\ h \in n + 1 .. q.r)
      BY <1>4, <1>8, <3>4 DEF Pending, Span
    <3>7. g \in q.l .. n /\ h \in n + 1 .. q.r
      BY <1>1, <1>2, <3>3, <3>5, <3>6
    <3> QED BY <1>7, <3>7
  <2> QED BY <2>1, <2>2
<1>12. OrderInv(t)'
  BY <1>5, <1>10, <1>11, OrderNext
<1> QED BY <1>5, <1>12, OrdersKept

\* A scan moves nothing.
LEMMA OrderScans ==
  ASSUME Inv, Orders, NEW t \in Threads, Call(t) \/ ScanUp(t) \/ ScanDown(t)
  PROVE  Orders'
<1> DEFINE q == Current(t)
<1>1. /\ Types /\ calls[t] # <<>> /\ UNCHANGED <<unsortedArray, calls>> /\ OrderInv(t)
      /\ pc[t] \in {"call", "up", "down"}
  BY DEF Call, ScanUp, ScanDown, Inv, ThreadInv, InCall, Orders
<1>2. /\ q \in Bounds /\ q.l \in Int /\ q.r \in Int
      /\ \A k \in Span(q) : unsortedArray[k] \in Int
  BY <1>1, CurrentFacts DEF Bounds, Span
<1>3. i[t] \in Int /\ j[t] \in Int /\ x[t] \in Int
  BY <1>1 DEF Types
<1>4. InCall(t) => /\ Partition(pc[t], q, unsortedArray, i[t], j[t], x[t])
                   /\ Passed(pc[t], q, unsortedArray, i[t], j[t], x[t])
  BY <1>1 DEF Inv, ThreadInv, OrderInv
<1>5. Apart(calls[t]) /\ Settled(unsortedArray, calls[t], Start(t), End(t))
  BY <1>1 DEF OrderInv
<1>6. ASSUME pc'[t] \in {"up", "down", "swap"},
             Passed(pc'[t], q, unsortedArray, i'[t], j'[t], x'[t])
      PROVE  OrderInv(t)'
  BY <1>1, <1>5, <1>6, OrderNext DEF Current
<1> HIDE DEF q
<1>7. CASE Call(t)
  <2>1. /\ i'[t] = q.l - 1 /\ j'[t] = q.r + 1 /\ pc'[t] = "up"
        /\ \A s \in Threads \ {t} : pc'[s] = pc[s] /\ i'[s] = i[s] /\ j'[s] = j[s] /\ x'[s] = x[s]
    BY <1>1, <1>7 DEF Call, Types, q
  <2>2. Passed("up", q, unsortedArray, q.l - 1, q.r + 1, x'[t])
    BY <1>2 DEF Passed
  <2> QED BY <1>1, <1>6, <2>1, <2>2, OrdersKept
<1>8. CASE ScanUp(t)
  <2> DEFINE m == i[t] + 1
             p == IF unsortedArray[m] < x[t] THEN "up" ELSE "down"
  <2>1. /\ i'[t] = m /\ j' = j /\ x' = x /\ pc'[t] = p
        /\ \A s \in Threads \ {t} : pc'[s] = pc[s] /\ i'[s] = i[s]
    BY <1>1, <1>8 DEF ScanUp, Below, Types
  <2>2. Passed(p, q, unsortedArray, m, j[t], x[t])
    <3>1. /\ Partition("up", q, unsortedArray, i[t], j[t], x[t])
          /\ Passed("up", q, unsortedArray, i[t], j[t], x[t])
      BY <1>4, <1>8 DEF ScanUp, InCall
    <3> QED BY <1>2, <1>3, <3>1, PassedScansUp
  <2> QED BY <1>1, <1>6, <2>1, <2>2, OrdersKept
<1>9. CASE ScanDown(t)
  <2> DEFINE m == j[t] - 1
             p == IF x[t] < unsortedArray[m] THEN "down" ELSE "swap"
  <2>1. /\ j'[t] = m /\ i' = i /\ x' = x /\ pc'[t] = p
        /\ \A s \in Threads \ {t} : pc'[s] = pc[s] /\ j'[s] = j[s]
    BY <1>1, <1>9 DEF ScanDown, Below, Types
  <2>2. Passed(p, q, unsortedArray, i[t], m, x[t])
    <3>1. /\ Partition("down", q, unsortedArray, i[t], j[t], x[t])
          /\ Passed("down", q, unsortedArray, i[t], j[t], x[t])
      BY <1>4, <1>9 DEF ScanDown, InCall
    <3> QED BY <1>2, <1>3, <3>1, PassedScansDown
  <2> QED BY <1>1, <1>6, <2>1, <2>2, OrdersKept
<1> QED BY <1>7, <1>8, <1>9

\* An exchange is one of two elements of the range that is partitioned.
LEMMA SwapFacts ==
  ASSUME Inv, NEW t \in Threads, Swap(t)
  PROVE  /\ calls[t] # <<>> /\ Current(t) \in Bounds /\ InHalf(t, Current(t))
         /\ Partition("swap", Current(t), unsortedArray, i[t], j[t], x[t])
         /\ i[t] \in Span(Current(t)) /\ j[t] \in Span(Current(t)) /\ i[t] < j[t]
         /\ i[t] \in Index /\ j[t] \in Index
         /\ unsortedArray'[i[t]] = unsortedArray[j[t]]
         /\ unsortedArray'[j[t]] = unsortedArray[i[t]]
         /\ \A k \in Index : k # i[t] /\ k # j[t] => unsortedArray'[k] = unsortedArray[k]
<1> DEFINE q == Current(t)
<1>1. /\ Types /\ calls[t] # <<>> /\ i[t] < j[t]
      /\ Partition("swap", q, unsortedArray, i[t], j[t], x[t])
  BY DEF Inv, ThreadInv, InCall, Swap
<1>2. q \in Bounds /\ InHalf(t, q) /\ \A k \in Span(q) : k \in Index
  BY <1>1, CurrentFacts DEF Span
<1>3. i[t] \in Int /\ j[t] \in Int
  BY <1>1 DEF Types
<1>4. i[t] \in Span(q) /\ j[t] \in Span(q) /\ i[t] # j[t]
  BY <1>1, <1>2, <1>3 DEF Partition, Span, Bounds
<1> HIDE DEF q
<1>5. i[t] \in Index /\ j[t] \in Index
  BY <1>2, <1>4
<1>6. unsortedArray' = [unsortedArray EXCEPT ![i[t]] = unsortedArray[j[t]],
                                             ![j[t]] = unsortedArray[i[t]]]
  BY DEF Swap, Exchanged
<1>7. /\ unsortedArray'[i[t]] = unsortedArray[j[t]]
      /\ unsortedArray'[j[t]] = unsortedArray[i[t]]
      /\ \A k \in Index : k # i[t] /\ k # j[t] => unsortedArray'[k] = unsortedArray[k]
  BY <1>1, <1>4, <1>5, <1>6 DEF Types
<1> QED BY <1>1, <1>2, <1>4, <1>5, <1>7 DEF q

LEMMA OrderSwap ==
  ASSUME Inv, Orders, NEW t \in Threads, Swap(t)
  PROVE  Orders'
<1> DEFINE q == Current(t)
           m == i[t]
           n == j[t]
           c == calls[t]
<1>1. /\ c # <<>> /\ q \in Bounds /\ InHalf(t, q)
      /\ Partition("swap", q, unsortedArray, m, n, x[t])
      /\ m \in Span(q) /\ n \in Span(q) /\ m < n
      /\ unsortedArray'[m] = unsortedArray[n] /\ unsortedArray'[n] = unsortedArray[m]
      /\ \A k \in Index : k # m /\ k # n => unsortedArray'[k] = unsortedArray[k]
  BY SwapFacts
<1>2. /\ c \in Seq(Bounds) /\ Len(c) > 0 /\ q = c[1] /\ m \in Int /\ n \in Int /\ x[t] \in Int
      /\ pc \in [Threads -> {"none", "call", "up", "down", "swap", "exited"}]
  BY <1>1 DEF Inv, Types, Current
<1>3. /\ pc[t] = "swap" /\ pc' = [pc EXCEPT ![t] = "up"] /\ UNCHANGED <<calls, i, j, x>>
  BY DEF Swap
<1>4. /\ Apart(c) /\ Settled(unsortedArray, c, Start(t), End(t))
      /\ Passed("swap", q, unsortedArray, m, n, x[t])
  BY <1>3 DEF Orders, OrderInv, InCall
<1> HIDE DEF q, m, n, c
<1>5. /\ Start(t) \in Int /\ End(t) \in Int /\ Start(t) <= q.l /\ q.r <= End(t)
      /\ q.l \in Int /\ q.r \in Int /\ Span(q) \subseteq Index
      /\ \A k \in Start(t) .. End(t) : k \in Index
  <2>1. \A k \in Start(t) .. End(t) : k \in Index
    BY HalfFacts, SortAssumption DEF Index
  <2> QED BY <1>1, <2>1, HalfFacts DEF InHalf, Bounds, Span
<1>6. Passed("up", q, unsortedArray', m, n, x[t])
  BY <1>1, <1>2, <1>4, <1>5, PassedSwaps
<1>7. Settled(unsortedArray', c, Start(t), End(t))
  <2>1. \A k \in Span(q) : \E g \in Span(q) : unsortedArray'[k] = unsortedArray[g]
    BY <1>1, <1>5
  <2>2. \A k \in Start(t) .. End(t) : k \notin Span(q) => unsortedArray'[k] = unsortedArray[k]
    BY <1>1, <1>5
  <2> QED BY <1>2, <1>4, <1>5, <2>1, <2>2, SettledInside
<1>8. OrderInv(t)'
  <2>1. pc'[t] = "up"
    BY <1>2, <1>3
  <2>2. Head(calls'[t]) = q
    BY <1>3 DEF q, Current
  <2>3. calls'[t] = c
    BY <1>3 DEF c
  <2> QED BY <1>3, <1>4, <1>6, <1>7, <2>1, <2>2, <2>3, OrderNext DEF m, n
<1>9. ASSUME NEW s \in Threads \ {t} PROVE OrderInv(s)'
  <2>1. calls'[s] = calls[s] /\ pc'[s] = pc[s] /\ i'[s] = i[s] /\ j'[s] = j[s] /\ x'[s] = x[s]
    BY <1>2, <1>3
  <2>2. ASSUME NEW k \in Start(s) .. End(s) PROVE unsortedArray'[k] = unsortedArray[k]
    <3> DEFINE h == [l |-> Start(s), r |-> End(s)]
    <3>1. h \in Bounds /\ InHalf(s, h) /\ k \in h.l .. h.r
      BY HalfFacts DEF Bounds, InHalf
    <3> HIDE DEF h
    <3>2. k \in Index /\ k \notin q.l .. q.r
      BY <1>1, <3>1, RangeFacts
    <3> QED BY <1>1, <3>2 DEF Span
  <2> QED BY <2>1, <2>2, OrderKept DEF Orders
<1> QED BY <1>8, <1>9 DEF Orders

LEMMA OrderMain ==
  ASSUME Inv, Orders, MainStep
  PROVE  Orders'
<1>1. CASE Create
  <2>1. PICK t \in Threads :
          /\ pc[t] = "none"
          /\ pc' = [pc EXCEPT ![t] = "call"]
          /\ calls' = [calls EXCEPT ![t] = <<[l |-> Start(t), r |-> End(t)]>>]
    BY <1>1 DEF Create
  <2> DEFINE c == <<[l |-> Start(t), r |-> End(t)]>>
  <2>2. /\ UNCHANGED <<unsortedArray, i, j, x>>
        /\ \A s \in Threads : calls'[s] = IF s = t THEN c ELSE calls[s]
        /\ \A s \in Threads : pc'[s] = IF s = t THEN "call" ELSE pc[s]
    BY <1>1, <2>1 DEF Create, Inv, Types
  <2>3. Len(c) = 1 /\ 1 \in 1 .. Len(c) /\ c[1].l = Start(t) /\ c[1].r = End(t)
    OBVIOUS
  <2> HIDE DEF c
  <2>4. Apart(c) /\ Settled(unsortedArray, c, Start(t), End(t))
    BY <2>3 DEF Apart, Settled, Pending, Span
  <2>5. OrderInv(t)'
    BY <2>2, <2>4, OrderNext
  <2> QED BY <2>2, <2>5, OrdersKept
<1>2. CASE Join \/ Merge \/ Finish
  <2>1. UNCHANGED <<unsortedArray, locals>>
    BY <1>2 DEF Join, Merge, Finish
  <2> QED BY <2>1, OrderKept DEF Orders, locals
<1> QED BY <1>1, <1>2 DEF MainStep

LEMMA OrderStep ==
  ASSUME Inv, Orders, [Next]_vars
  PROVE  Orders'
<1>1. CASE UNCHANGED vars
  BY <1>1, OrderKept DEF Orders, vars, locals
<1> QED BY <1>1, OrderMain, OrderReturn, OrderExit, OrderRecurse, OrderScans, OrderSwap
        DEF Next, sortArray

-----------------------------------------------------------------------------
(* The elements.                                                           *)

LEMMA IndexFinite == \A S \in SUBSET Index : IsFiniteSet(S)
<1>1. IsFiniteSet(Index)
  BY SortAssumption, FS_Interval DEF Index
<1> QED BY <1>1, FS_Subset

\* An exchange changes no count.
LEMMA CopiesExchanged ==
  ASSUME NEW a, NEW b, NEW m \in Index, NEW n \in Index, NEW v,
         b[m] = a[n], b[n] = a[m], \A k \in Index : k # m /\ k # n => b[k] = a[k]
  PROVE  Copies(b, v) = Copies(a, v)
<1> DEFINE A == {k \in Index : a[k] = v}
           B == {k \in Index : b[k] = v}
           to(k) == IF k = m THEN n ELSE IF k = n THEN m ELSE k
           f == [k \in A |-> to(k)]
<1>1. /\ \A k \in A : to(k) \in B
      /\ \A k \in B : to(k) \in A
      /\ \A k : to(to(k)) = k
  OBVIOUS
<1> HIDE DEF A, B, to
<1>2. f \in Bijection(A, B)
  <2>1. f \in [A -> B]
    BY <1>1
  <2>2. \A h, k \in A : f[h] = f[k] => h = k
    <3> SUFFICES ASSUME NEW h \in A, NEW k \in A, f[h] = f[k] PROVE h = k
      OBVIOUS
    <3>1. to(h) = to(k)
      OBVIOUS
    <3>2. to(to(h)) = h /\ to(to(k)) = k
      BY <1>1
    <3> QED BY <3>1, <3>2
  <2>3. \A k \in B : \E h \in A : f[h] = k
    <3> SUFFICES ASSUME NEW k \in B PROVE \E h \in A : f[h] = k
      OBVIOUS
    <3>1. to(k) \in A /\ f[to(k)] = to(to(k)) /\ to(to(k)) = k
      BY <1>1
    <3> QED BY <3>1
  <2> QED BY <2>1, <2>2, <2>3, Fun_IsBij
<1>3. ExistsBijection(A, B)
  BY <1>2 DEF ExistsBijection
<1>4. IsFiniteSet(A)
  BY IndexFinite DEF A
<1>5. Cardinality(B) = Cardinality(A)
  BY <1>3, <1>4, FS_Bijection
<1> QED BY <1>5 DEF Copies, A, B

LEMMA SameElementsStep ==
  ASSUME Inv, SameElements, [Next]_vars
  PROVE  SameElements'
<1>1. original' = original
  BY DEF Next, MainStep, Create, Join, Merge, Finish, sortArray, Return, Call, ScanUp,
         ScanDown, Swap, Recurse, Exit, vars
<1>2. CASE UNCHANGED unsortedArray
  BY <1>1, <1>2 DEF SameElements, Copies, Index
<1>3. CASE \E t \in Threads : Swap(t)
  <2>1. PICK t \in Threads : Swap(t)
    BY <1>3
  <2>2. /\ i[t] \in Index /\ j[t] \in Index
        /\ unsortedArray'[i[t]] = unsortedArray[j[t]]
        /\ unsortedArray'[j[t]] = unsortedArray[i[t]]
        /\ \A k \in Index : k # i[t] /\ k # j[t] => unsortedArray'[k] = unsortedArray[k]
    BY <2>1, SwapFacts
  <2> DEFINE a == unsortedArray
             b == unsortedArray'
             m == i[t]
             n == j[t]
  <2> HIDE DEF a, b, m, n
  <2>3. ASSUME NEW v PROVE Copies(b, v) = Copies(a, v)
    <3>1. /\ m \in Index /\ n \in Index /\ b[m] = a[n] /\ b[n] = a[m]
          /\ \A k \in Index : k # m /\ k # n => b[k] = a[k]
      BY <2>2 DEF a, b, m, n
    <3> QED BY <3>1, CopiesExchanged
  <2> QED BY <1>1, <2>3 DEF SameElements, Copies, Index, a, b
<1>4. UNCHANGED unsortedArray \/ \E t \in Threads : Swap(t)
  BY DEF Next, MainStep, Create, Join, Merge, Finish, sortArray, Return, Call, ScanUp,
         ScanDown, Recurse, Exit, vars
<1> QED BY <1>2, <1>3, <1>4

LEMMA CopiesAdded ==
  ASSUME NEW S, IsFiniteSet(S), NEW e, e \notin S, NEW a, NEW b, NEW v,
         \A k \in S : b[k] = a[k]
  PROVE  CopiesIn(b, S \union {e}, v) = CopiesIn(a, S, v) + (IF b[e] = v THEN 1 ELSE 0)
<1> DEFINE A == {k \in S : a[k] = v}
           B == {k \in S \union {e} : b[k] = v}
<1>1. IsFiniteSet(A) /\ e \notin A
  BY FS_Subset
<1>2. B = IF b[e] = v THEN A \union {e} ELSE A
  OBVIOUS
<1>3. Cardinality(A \union {e}) = Cardinality(A) + 1 /\ Cardinality(A) \in Nat
  BY <1>1, FS_AddElement, FS_CardinalityType
<1> HIDE DEF A, B
<1>4. Cardinality(B) = Cardinality(A) + (IF b[e] = v THEN 1 ELSE 0)
  BY <1>2, <1>3
<1> QED BY <1>4 DEF CopiesIn, A, B

-----------------------------------------------------------------------------
(* The merge.                                                              *)

LEMMA HalvesSorted ==
  ASSUME Inv, Orders, Exited, NEW t \in Threads,
         NEW m \in Start(t) .. End(t), NEW n \in Start(t) .. End(t), m <= n
  PROVE  unsortedArray[m] <= unsortedArray[n]
<1>1. calls[t] = <<>> /\ Settled(unsortedArray, calls[t], Start(t), End(t))
  BY DEF Exited, Orders, OrderInv
<1>2. ~ Pending(calls[t], m, n)
  BY <1>1 DEF Pending
<1>3. unsortedArray[m] \in Int /\ m \in Int /\ n \in Int
  BY HalfFacts, SortAssumption DEF Inv, Types, Index
<1>4. CASE m = n
  BY <1>3, <1>4
<1>5. CASE m < n
  BY <1>1, <1>2, <1>5 DEF Settled
<1> QED BY <1>3, <1>4, <1>5

\* While main() does not merge, nothing is merged.
LEMMA MergeBegins ==
  ASSUME left = 0, right = Half, NEW u
  PROVE  /\ Sorted(sortedArray, 0, Merged - 1)
         /\ \A m \in 0 .. Merged - 1, k \in Left : sortedArray[m] <= u[k]
         /\ \A v : CopiesIn(sortedArray, 0 .. Merged - 1, v) = CopiesIn(u, Taken, v)
<1>1. Half \in Nat
  BY HalfFacts
<1>2. Merged - 1 = -1 /\ 0 .. Merged - 1 = {}
  BY <1>1 DEF Merged
<1>3. Taken = {}
  <2> HIDE DEF Half
  <2> QED BY <1>1 DEF Taken
<1>4. \A v : CopiesIn(sortedArray, {}, v) = CopiesIn(u, {}, v)
  <2>1. \A v, a : {n \in {} : a[n] = v} = {}
    OBVIOUS
  <2> QED BY <2>1 DEF CopiesIn
<1> QED BY <1>2, <1>3, <1>4 DEF Sorted

\* The element that is taken is one of the smallest of those that are left.
LEMMA MergeTakesLeast ==
  ASSUME Inv, Orders, MergeInv, Exited, left < Half \/ right < N,
         NEW e, e = IF FromLeft THEN left ELSE right
  PROVE  /\ e \in Left /\ e \in Index /\ e \notin Taken
         /\ \A k \in Left : unsortedArray[e] <= unsortedArray[k]
<1>1. /\ Half \in Nat /\ N = 2 * Half /\ left \in 0 .. Half /\ right \in Half .. N
      /\ Start(0) = 0 /\ End(0) = Half - 1 /\ Start(1) = Half /\ End(1) = N - 1
  <2>1. Half \in Nat /\ N = 2 * Half
    BY HalfFacts
  <2> HIDE DEF Half
  <2> QED BY <2>1 DEF Start, End, MergeInv
<1>2. /\ \A m, n \in 0 .. Half - 1 : m <= n => unsortedArray[m] <= unsortedArray[n]
      /\ \A m, n \in Half .. N - 1 : m <= n => unsortedArray[m] <= unsortedArray[n]
  BY <1>1, HalvesSorted DEF Threads
<1>3. \A k \in 0 .. N - 1 : unsortedArray[k] \in Int
  BY DEF Inv, Types, Index
<1>4. CASE FromLeft
  <2>1. e = left /\ left < Half /\ (right < N => unsortedArray[left] < unsortedArray[right])
    BY <1>4 DEF FromLeft
  <2>2. ASSUME NEW k \in Left PROVE unsortedArray[e] <= unsortedArray[k]
    <3>1. CASE k \in left .. Half - 1
      BY <1>1, <1>2, <2>1, <3>1
    <3>2. CASE k \in right .. N - 1
      <4>1. right \in Half .. N - 1 /\ k \in Half .. N - 1 /\ right <= k /\ right < N
        BY <1>1, <3>2
      <4>2. unsortedArray[left] < unsortedArray[right] /\ unsortedArray[right] <= unsortedArray[k]
        BY <1>2, <2>1, <4>1
      <4>3. left \in 0 .. N - 1 /\ right \in 0 .. N - 1 /\ k \in 0 .. N - 1
        BY <1>1, <2>1, <4>1
      <4> QED BY <1>3, <2>1, <4>2, <4>3
    <3> QED BY <3>1, <3>2 DEF Left
  <2>3. e \in left .. Half - 1 /\ e \in 0 .. N - 1 /\ e \notin 0 .. left - 1 /\ e \notin Half .. right - 1
    BY <1>1, <2>1
  <2> QED BY <2>2, <2>3 DEF Left, Taken, Index
<1>5. CASE ~ FromLeft
  <2>1. /\ e = right /\ right < N
        /\ left < Half => ~ (unsortedArray[left] < unsortedArray[right])
    BY <1>1, <1>5 DEF FromLeft
  <2>2. ASSUME NEW k \in Left PROVE unsortedArray[e] <= unsortedArray[k]
    <3>1. CASE k \in right .. N - 1
      BY <1>1, <1>2, <2>1, <3>1
    <3>2. CASE k \in left .. Half - 1
      <4>1. left \in 0 .. Half - 1 /\ k \in 0 .. Half - 1 /\ left <= k /\ left < Half
        BY <1>1, <3>2
      <4>2. ~ (unsortedArray[left] < unsortedArray[right]) /\ unsortedArray[left] <= unsortedArray[k]
        BY <1>2, <2>1, <4>1
      <4>3. left \in 0 .. N - 1 /\ right \in 0 .. N - 1 /\ k \in 0 .. N - 1
        BY <1>1, <2>1, <4>1
      <4> QED BY <1>3, <2>1, <4>2, <4>3
    <3> QED BY <3>1, <3>2 DEF Left
  <2>3. e \in right .. N - 1 /\ e \in 0 .. N - 1 /\ e \notin 0 .. left - 1 /\ e \notin Half .. right - 1
    BY <1>1, <2>1
  <2> QED BY <2>2, <2>3 DEF Left, Taken, Index
<1> QED BY <1>4, <1>5

LEMMA MergeStep ==
  ASSUME Inv, Orders, MergeInv, Merge
  PROVE  MergeInv'
<1> DEFINE e == IF FromLeft THEN left ELSE right
           K == Merged
<1> HIDE DEF Half
<1>1. /\ Half \in Nat /\ N = 2 * Half /\ left \in 0 .. Half /\ right \in Half .. N
      /\ sortedArray \in [Index -> Int] /\ Exited /\ main = "merge"
      /\ left < Half \/ right < N
  BY HalfFacts DEF MergeInv, Merge
<1>2. PICK g : g = e
  OBVIOUS
<1>3. /\ g \in Left /\ g \in Index /\ g \notin Taken
      /\ \A k \in Left : unsortedArray[g] <= unsortedArray[k]
  BY <1>1, <1>2, MergeTakesLeast
<1>4. /\ UNCHANGED <<unsortedArray, original, locals, main>>
      /\ sortedArray' = [sortedArray EXCEPT ![K] = unsortedArray[g]]
      /\ left' = IF FromLeft THEN left + 1 ELSE left
      /\ right' = IF FromLeft THEN right ELSE right + 1
  BY <1>2 DEF Merge, Merged
<1>5. K \in Nat /\ K \in Index /\ K = left + right - Half
  BY <1>1 DEF Merged, Index
<1>6. /\ sortedArray' \in [Index -> Int] /\ sortedArray'[K] = unsortedArray[g]
      /\ \A k \in 0 .. K - 1 : k \in Index /\ sortedArray'[k] = sortedArray[k]
  <2>1. unsortedArray[g] \in Int
    BY <1>3 DEF Inv, Types
  <2> HIDE DEF K
  <2>2. \A k \in 0 .. K - 1 : k \in Index /\ k # K
    BY <1>1, <1>5 DEF Index
  <2> QED BY <1>1, <1>4, <1>5, <2>1, <2>2
<1>7. /\ left' \in 0 .. Half /\ right' \in Half .. N /\ Merged' = K + 1
      /\ Taken' = Taken \union {g} /\ Left' \subseteq Left
  <2>1. Half' = Half
    BY DEF Half
  <2>2. CASE FromLeft
    <3>1. g = left /\ left < Half /\ left' = left + 1 /\ right' = right
      BY <1>2, <1>4, <2>2 DEF FromLeft
    <3> QED BY <1>1, <2>1, <3>1 DEF Merged, Taken, Left
  <2>3. CASE ~ FromLeft
    <3>1. g = right /\ right < N /\ left' = left /\ right' = right + 1
      BY <1>1, <1>2, <1>4, <2>3 DEF FromLeft
    <3> QED BY <1>1, <2>1, <3>1 DEF Merged, Taken, Left
  <2> QED BY <2>2, <2>3
<1> HIDE DEF K, e
<1>8. ASSUME NEW m \in 0 .. K, NEW n \in 0 .. K, m <= n
      PROVE  sortedArray'[m] <= sortedArray'[n]
  <2>1. CASE n \in 0 .. K - 1
    <3>1. m \in 0 .. K - 1
      BY <1>5, <1>8, <2>1
    <3>2. sortedArray[m] <= sortedArray[n]
      BY <1>8, <2>1, <3>1 DEF MergeInv, Sorted, K
    <3> QED BY <1>6, <2>1, <3>1, <3>2
  <2>2. CASE n = K /\ m \in 0 .. K - 1
    <3>1. sortedArray[m] <= unsortedArray[g]
      BY <1>3, <2>2 DEF MergeInv, K
    <3> QED BY <1>6, <2>2, <3>1
  <2>3. CASE n = K /\ m = K
    BY <1>5, <1>6, <2>3
  <2> QED BY <1>5, <1>8, <2>1, <2>2, <2>3
<1>9. ASSUME NEW m \in 0 .. K, NEW k \in Left'
      PROVE  sortedArray'[m] <= unsortedArray'[k]
  <2>1. k \in Left
    BY <1>7
  <2>2. CASE m \in 0 .. K - 1
    <3>1. sortedArray[m] <= unsortedArray[k]
      BY <2>1, <2>2 DEF MergeInv, K
    <3> QED BY <1>4, <1>6, <2>2, <3>1
  <2>3. CASE m = K
    BY <1>3, <1>4, <1>6, <2>1, <2>3
  <2> QED BY <1>5, <2>2, <2>3
<1>10. ASSUME NEW v \in Numbers
       PROVE  CopiesIn(sortedArray', 0 .. K, v) = CopiesIn(unsortedArray', Taken', v)
  <2>1. CopiesIn(sortedArray, 0 .. K - 1, v) = CopiesIn(unsortedArray, Taken, v)
    BY DEF MergeInv, K
  <2>2. /\ IsFiniteSet(0 .. K - 1) /\ K \notin 0 .. K - 1
        /\ 0 .. K = (0 .. K - 1) \union {K}
    <3>1. K - 1 \in Int /\ K \in Nat
      BY <1>5
    <3>2. IsFiniteSet(0 .. K - 1)
      BY <3>1, FS_Interval
    <3> QED BY <3>1, <3>2
  <2>3. IsFiniteSet(Taken)
    <3>1. Taken \subseteq Index
      BY <1>1 DEF Taken, Index
    <3> QED BY <3>1, IndexFinite
  <2>4. CopiesIn(sortedArray', 0 .. K, v)
          = CopiesIn(sortedArray, 0 .. K - 1, v) + (IF sortedArray'[K] = v THEN 1 ELSE 0)
    <3> DEFINE a == sortedArray
               b == sortedArray'
               S == 0 .. K - 1
    <3>1. IsFiniteSet(S) /\ K \notin S /\ \A k \in S : b[k] = a[k]
      BY <1>6, <2>2
    <3> HIDE DEF a, b, S
    <3>2. CopiesIn(b, S \union {K}, v) = CopiesIn(a, S, v) + (IF b[K] = v THEN 1 ELSE 0)
      BY <3>1, CopiesAdded
    <3> QED BY <2>2, <3>2 DEF a, b, S
  <2>5. CopiesIn(unsortedArray, Taken \union {g}, v)
          = CopiesIn(unsortedArray, Taken, v) + (IF unsortedArray[g] = v THEN 1 ELSE 0)
    BY <1>3, <2>3, CopiesAdded
  <2> QED BY <1>4, <1>6, <1>7, <2>1, <2>4, <2>5
<1>11. Merged' - 1 = K
  BY <1>5, <1>7
<1> QED
  <2>1. Half' = Half /\ Exited' /\ main' = "merge" /\ Index' = Index
    BY <1>1, <1>4 DEF Half, Exited, locals, Index
  <2>2. /\ \A m \in 0 .. Merged' - 1, k \in Left' : sortedArray'[m] <= unsortedArray'[k]
        /\ \A v \in Numbers : CopiesIn(sortedArray', 0 .. Merged' - 1, v)
                                = CopiesIn(unsortedArray', Taken', v)
    BY <1>9, <1>10, <1>11
  <2>3. \A m, n \in 0 .. Merged' - 1 : m <= n => sortedArray'[m] <= sortedArray'[n]
    BY <1>8, <1>11
  <2> QED BY <1>6, <1>7, <2>1, <2>2, <2>3 DEF MergeInv, Sorted, CopiesIn

\* The threads are at work only while nothing is merged, and no thread that has
\* exited goes on.
LEMMA MergeInvThreads ==
  ASSUME MergeInv, NEW t \in Threads, sortArray(t)
  PROVE  MergeInv'
<1>1. UNCHANGED mains /\ pc[t] # "exited"
  BY DEF sortArray, Return, Call, ScanUp, ScanDown, Swap, Recurse, Exit
<1>2. main \in {"create", "join"} /\ left = 0 /\ right = Half
  BY <1>1 DEF MergeInv, Exited
<1>3. /\ Sorted(sortedArray, 0, Merged - 1)
      /\ \A m \in 0 .. Merged - 1, k \in Left : sortedArray[m] <= unsortedArray'[k]
      /\ \A v : CopiesIn(sortedArray, 0 .. Merged - 1, v) = CopiesIn(unsortedArray', Taken, v)
  BY <1>2, MergeBegins
<1>4. /\ Merged' = Merged /\ Left' = Left /\ Taken' = Taken /\ Half' = Half /\ Index' = Index
      /\ UNCHANGED <<main, left, right, sortedArray>>
  BY <1>1 DEF mains, Merged, Left, Taken, Half, Index
<1>5. /\ Sorted(sortedArray, 0, Merged - 1)'
      /\ \A m \in 0 .. Merged' - 1, k \in Left' : sortedArray'[m] <= unsortedArray'[k]
      /\ \A v : CopiesIn(sortedArray, 0 .. Merged - 1, v)' = CopiesIn(unsortedArray, Taken, v)'
  BY <1>3, <1>4 DEF Sorted, CopiesIn
<1> HIDE DEF Merged, Left, Taken, Half, Index
<1> QED BY <1>2, <1>4, <1>5 DEF MergeInv

LEMMA MergeInvMain ==
  ASSUME Inv, Orders, MergeInv, MainStep
  PROVE  MergeInv'
<1>1. CASE Create \/ Join \/ Finish
  <2>1. /\ UNCHANGED <<unsortedArray, left, right, sortedArray>>
        /\ main' \in {"create", "join", "merge", "done"}
        /\ main' \in {"create", "join"} => main \in {"create", "join"}
        /\ main' \in {"merge", "done"} => Exited'
        /\ main' = "done" => left = Half /\ right = N
    <3>1. CASE Create
      BY <3>1 DEF Create
    <3>2. CASE Join
      BY <3>2 DEF Join, Exited, locals
    <3>3. CASE Finish
      BY <3>3 DEF Finish, MergeInv, Exited, locals
    <3> QED BY <1>1, <3>1, <3>2, <3>3
  <2>2. Merged' = Merged /\ Left' = Left /\ Taken' = Taken /\ Half' = Half /\ Index' = Index
    BY <2>1 DEF Merged, Left, Taken, Half, Index
  <2>3. /\ Sorted(sortedArray, 0, Merged - 1)'
        /\ \A m \in 0 .. Merged' - 1, k \in Left' : sortedArray'[m] <= unsortedArray'[k]
        /\ \A v \in Numbers :
             CopiesIn(sortedArray, 0 .. Merged - 1, v)' = CopiesIn(unsortedArray, Taken, v)'
    BY <2>1, <2>2 DEF MergeInv, Sorted, CopiesIn
  <2> HIDE DEF Merged, Left, Taken, Half, Index
  <2> QED BY <2>1, <2>2, <2>3 DEF MergeInv
<1>2. CASE Merge
  BY <1>2, MergeStep
<1> QED BY <1>1, <1>2 DEF MainStep

LEMMA MergeInvStep ==
  ASSUME Inv, Orders, MergeInv, [Next]_vars
  PROVE  MergeInv'
<1>1. CASE UNCHANGED vars
  <2>1. UNCHANGED <<unsortedArray, sortedArray, main, left, right, pc>>
    BY <1>1 DEF vars, mains, locals
  <2>2. Merged' = Merged /\ Left' = Left /\ Taken' = Taken /\ Half' = Half /\ Index' = Index
        /\ Exited' = Exited
    BY <2>1 DEF Merged, Left, Taken, Half, Index, Exited
  <2> HIDE DEF Merged, Left, Taken, Half, Index, Exited
  <2> QED BY <2>1, <2>2 DEF MergeInv, Sorted, CopiesIn
<1> QED BY <1>1, MergeInvMain, MergeInvThreads DEF Next

LEMMA SortInvInit == Init => SortInv
<1> SUFFICES ASSUME Init PROVE SortInv
  OBVIOUS
<1>1. Inv
  BY InvInit
<1>2. ASSUME NEW t \in Threads PROVE OrderInv(t)
  <2>1. calls[t] = <<>> /\ Len(<<>>) = 0 /\ pc[t] = "none"
    BY DEF Init
  <2> QED BY <2>1 DEF OrderInv, Apart, InCall
<1>3. MergeInv
  <2>1. Half \in Nat /\ N = 2 * Half
    BY HalfFacts
  <2>2. left = 0 /\ right = Half /\ main = "create" /\ sortedArray \in [Index -> Int]
    BY DEF Init
  <2>3. /\ Sorted(sortedArray, 0, Merged - 1)
        /\ \A m \in 0 .. Merged - 1, k \in Left : sortedArray[m] <= unsortedArray[k]
        /\ \A v : CopiesIn(sortedArray, 0 .. Merged - 1, v) = CopiesIn(unsortedArray, Taken, v)
    BY <2>2, MergeBegins
  <2> HIDE DEF Merged, Left, Taken, Half, Index
  <2> QED BY <2>1, <2>2, <2>3 DEF MergeInv
<1>4. SameElements
  BY DEF Init, SameElements
<1> QED BY <1>1, <1>2, <1>3, <1>4 DEF SortInv

LEMMA SortInvStep == SortInv /\ [Next]_vars => SortInv'
BY InvStep, OrderStep, MergeInvStep, SameElementsStep DEF SortInv, Orders

\* The merge finds both halves sorted, and the result is the array in order: for
\* every even number of elements, whatever they are, and for every interleaving
\* of the two threads.
THEOREM ResultIsSorted == Spec => []ResultSorted
<1>1. SortInv => ResultSorted
  <2> SUFFICES ASSUME SortInv PROVE ResultSorted
    OBVIOUS
  <2>1. ASSUME main = "merge", NEW t \in Threads
        PROVE  Sorted(unsortedArray, Start(t), Start(t) + Half - 1)
    <3>1. Exited /\ End(t) = Start(t) + Half - 1
      BY <2>1 DEF SortInv, MergeInv, End
    <3>2. \A m, n \in Start(t) .. End(t) : m <= n => unsortedArray[m] <= unsortedArray[n]
      BY <3>1, HalvesSorted DEF SortInv, Orders
    <3> QED BY <3>1, <3>2 DEF Sorted
  <2>2. ASSUME main = "done"
        PROVE  /\ Sorted(sortedArray, 0, N - 1)
               /\ \A v \in Numbers : Copies(sortedArray, v) = Copies(original, v)
    <3>1. Half \in Nat /\ N = 2 * Half
      BY HalfFacts
    <3> HIDE DEF Half
    <3>2. left = Half /\ right = N
      BY <2>2 DEF SortInv, MergeInv
    <3>3. Merged - 1 = N - 1 /\ 0 .. N - 1 = Index /\ Taken = Index
      BY <3>1, <3>2 DEF Merged, Taken, Index
    <3>4. Sorted(sortedArray, 0, N - 1)
      BY <3>3 DEF SortInv, MergeInv
    <3>5. \A v \in Numbers : CopiesIn(sortedArray, Index, v) = CopiesIn(unsortedArray, Index, v)
      BY <3>3 DEF SortInv, MergeInv
    <3>6. \A v \in Numbers : Copies(unsortedArray, v) = Copies(original, v)
      BY DEF SortInv, SameElements
    <3> QED BY <3>4, <3>5, <3>6 DEF CopiesIn, Copies
  <2> QED BY <2>1, <2>2 DEF ResultSorted
<1> QED BY SortInvInit, SortInvStep, <1>1, PTL DEF Spec

=============================================================================
