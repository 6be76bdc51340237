------------------------- MODULE SharedMemoryProofs -------------------------
(***************************************************************************)
(* Proofs about the map-reduce search, for every number of threads and     *)
(* rows and every file, in a run that found the semaphores at 0, whatever  *)
(* happened in the runs before: the two processes take turns at the        *)
(* segment, the threads lose no match and count none twice, and a run that *)
(* gets to its end has printed the right output.                           *)
(*                                                                         *)
(* The rows that the threads are done with are different ones, because the *)
(* shares of the threads are (ShareFacts); the mutex lets one thread at a  *)
(* time put its line behind the others, so the results are the matches of  *)
(* those rows (Collected); when all threads have joined these are all the  *)
(* rows of the file, and sorting keeps each line as often as it was.       *)
(***************************************************************************)
EXTENDS SharedMemory, SequenceTheorems, FiniteSetTheorems, FunctionTheorems,
        WellFoundedInduction, TLAPS

AtWork == {"divide", "create", "join", "reduce", "post"}

\* The turn is passed on: a post is taken before the next one is made, and there
\* is one at most, of one semaphore.
Turns ==
  \/ /\ parent = "load"  /\ child = "wait"                 /\ sem_a = 0 /\ sem_b = 0
  \/ /\ parent = "wait"  /\ child = "wait"                 /\ sem_a = 1 /\ sem_b = 0
  \/ /\ parent = "wait"  /\ child \in AtWork \union {"failed"} /\ sem_a = 0 /\ sem_b = 0
  \/ /\ parent = "wait"  /\ child = "exited"               /\ sem_a = 0 /\ sem_b = 1
  \/ /\ parent = "print" /\ child = "exited"               /\ sem_a = 0 /\ sem_b = 0
  \/ /\ parent = "done"  /\ child = "exited"
  \/ /\ parent = "killed" /\ child = "killed"

\* The inductive invariant.  A run that is not clean can be in any state.
Inv == clean => Turns

LEMMA InvInit == Init => Inv
BY DEF Init, Inv, Turns, Unposted

LEMMA InvParent == Inv /\ ParentStep => Inv'
<1> SUFFICES ASSUME Inv, ParentStep, clean' PROVE Turns'
  BY DEF Inv
<1>1. CASE LoadLine
  BY <1>1 DEF LoadLine, Inv, Turns, childs
<1>2. CASE PostLoaded
  BY <1>2 DEF PostLoaded, Inv, Turns, AtWork, childs
<1>3. CASE WaitForResults
  BY <1>3 DEF WaitForResults, Inv, Turns, AtWork, childs
<1>4. CASE PrintRow
  BY <1>4 DEF PrintRow, Inv, Turns, childs
<1>5. CASE RemoveShared
  BY <1>5 DEF RemoveShared, Turns
<1> QED BY <1>1, <1>2, <1>3, <1>4, <1>5 DEF ParentStep

LEMMA InvChild == Inv /\ (ChildStep \/ CreateFails) => Inv'
<1> SUFFICES ASSUME Inv, ChildStep \/ CreateFails, clean' PROVE Turns'
  BY DEF Inv
<1>1. CASE WaitForLines
  BY <1>1 DEF WaitForLines, Inv, Turns, AtWork, parents
<1>2. CASE Divide
  BY <1>2 DEF Divide, Inv, Turns, AtWork, parents
<1>3. CASE CreateThread
  BY <1>3 DEF CreateThread, Inv, Turns, AtWork, parents
<1>4. CASE Join
  BY <1>4 DEF Join, Inv, Turns, AtWork, parents
<1>5. CASE Reduce
  BY <1>5 DEF Reduce, Inv, Turns, AtWork, parents
<1>6. CASE PostReduced
  BY <1>6 DEF PostReduced, PostB, Inv, Turns, AtWork, parents
<1>7. CASE CreateFails
  BY <1>7 DEF CreateFails, Inv, Turns, AtWork, parents
<1> QED BY <1>1, <1>2, <1>3, <1>4, <1>5, <1>6, <1>7 DEF ChildStep

\* The threads do not touch the semaphores, nor what the two processes do.
LEMMA InvMap ==
  ASSUME Inv, NEW t \in Threads, map(t)
  PROVE  Inv'
<1>1. UNCHANGED <<sem_a, sem_b, parent, child, clean>>
  BY DEF map, Scan, Lock, Store, CountAndUnlock, Return, mapUnchanged, parents
<1> QED BY <1>1 DEF Inv, Turns

LEMMA InvStep == Inv /\ [Next]_vars => Inv'
<1> SUFFICES ASSUME Inv, [Next]_vars PROVE Inv'
  OBVIOUS
<1>1. CASE ParentStep
  BY <1>1, InvParent
<1>2. CASE ChildStep \/ CreateFails
  BY <1>2, InvChild
<1>3. ASSUME NEW t \in Threads, map(t) PROVE Inv'
  BY <1>3, InvMap
<1>4. CASE Kill
  BY <1>4 DEF Kill, Inv, Turns
<1>5. CASE Start
  BY <1>5 DEF Start, Inv, Turns, Unposted
<1>6. CASE UNCHANGED vars
  BY <1>6 DEF vars, parents, childs, Inv, Turns
<1> QED BY <1>1, <1>2, <1>3, <1>4, <1>5, <1>6 DEF Next

\* While the child is at work the parent waits: two semaphores and no lock keep
\* the processes apart, also when earlier runs were killed, as long as those left
\* no post behind.
THEOREM ProcessesTakeTurns == Spec => []TakesTurns
<1>1. Inv => TakesTurns
  BY DEF Inv, Turns, TakesTurns
<1> QED BY InvInit, InvStep, <1>1, PTL DEF Spec

-----------------------------------------------------------------------------
(* Counting.                                                               *)

LEMMA CopiesFacts ==
  ASSUME NEW n \in Nat, NEW rows, NEW v
  PROVE  /\ Copies(v, rows, n) \in Nat
         /\ Copies(v, rows, n + 1) = Copies(v, rows, n) + (IF rows[n] = v THEN 1 ELSE 0)
<1> DEFINE A == {k \in 0 .. n - 1 : rows[k] = v}
           B == {k \in 0 .. (n + 1) - 1 : rows[k] = v}
<1>1. IsFiniteSet(0 .. n - 1)
  BY FS_Interval
<1>2. IsFiniteSet(A) /\ n \notin A
  BY <1>1, FS_Subset
<1>3. B = IF rows[n] = v THEN A \union {n} ELSE A
  OBVIOUS
<1> HIDE DEF A, B
<1>4. Cardinality(A) \in Nat /\ Cardinality(A \union {n}) = Cardinality(A) + 1
  BY <1>2, FS_AddElement, FS_CardinalityType
<1>5. Cardinality(B) = Cardinality(A) + (IF rows[n] = v THEN 1 ELSE 0)
  BY <1>3, <1>4
<1> QED BY <1>4, <1>5 DEF Copies, A, B

-----------------------------------------------------------------------------
(* What Sorted() makes of the rows: they are in order, each as often as    *)
(* before.                                                                 *)

\* The CHOOSE of Sorted() always finds a row: a finite set of rows has a least
\* and a largest one.
LEMMA LeastRow ==
  ASSUME NEW S, S # {}, NEW rows, \A j \in S : rows[j] \in Nat
  PROVE  \E j \in S : \A i \in S : rows[j] <= rows[i]
<1> DEFINE R == OpToRel(<, Nat)
           T == {rows[j] : j \in S}
<1>1. T \subseteq Nat /\ T # {}
  OBVIOUS
<1>2. PICK m \in T : \A k \in T : ~ (<<k, m>> \in R)
  BY <1>1, NatLessThanWellFounded, WFMin
<1>3. \A k \in T : ~ (k < m)
  BY <1>1, <1>2 DEF OpToRel
<1> QED BY <1>1, <1>3

LEMMA LargestRow ==
  ASSUME NEW S, S # {}, IsFiniteSet(S), NEW rows, \A j \in S : rows[j] \in Nat
  PROVE  \E j \in S : \A i \in S : rows[i] <= rows[j]
<1> DEFINE Above(j) == {i \in S : rows[i] > rows[j]}
           g == [j \in S |-> Cardinality(Above(j))]
<1>1. \A j \in S : IsFiniteSet(Above(j)) /\ Cardinality(Above(j)) \in Nat
  BY FS_Subset, FS_CardinalityType
<1>2. \A j \in S : g[j] \in Nat
  BY <1>1
<1> HIDE DEF g
<1>3. PICK j \in S : \A i \in S : g[j] <= g[i]
  BY <1>2, LeastRow
<1>4. ASSUME NEW i \in S, rows[i] > rows[j] PROVE FALSE
  <2>1. Above(i) \in SUBSET Above(j) /\ i \in Above(j) /\ i \notin Above(i)
    BY <1>4
  <2> HIDE DEF Above
  <2>2. Cardinality(Above(i)) <= Cardinality(Above(j)) /\ Cardinality(Above(i)) # Cardinality(Above(j))
    BY <1>1, <2>1, FS_Subset
  <2>3. g[j] <= g[i] /\ g[i] = Cardinality(Above(i)) /\ g[j] = Cardinality(Above(j))
    BY <1>3 DEF g
  <2> QED BY <1>1, <2>2, <2>3
<1> QED BY <1>4

Under(rows, n, v)  == {j \in 0 .. n - 1 : rows[j] < v}
UpTo(rows, n, v)   == {j \in 0 .. n - 1 : rows[j] <= v}

LEMMA RankFacts ==
  ASSUME NEW n \in Nat, NEW rows, \A j \in 0 .. n - 1 : rows[j] \in Nat, NEW v \in Nat
  PROVE  /\ IsFiniteSet(Under(rows, n, v)) /\ Cardinality(Under(rows, n, v)) \in Nat
         /\ IsFiniteSet(UpTo(rows, n, v)) /\ Cardinality(UpTo(rows, n, v)) \in 0 .. n
         /\ Cardinality(UpTo(rows, n, v)) = Cardinality(Under(rows, n, v)) + Copies(v, rows, n)
         /\ \A w \in Nat : v < w =>
              Cardinality(UpTo(rows, n, v)) <= Cardinality(Under(rows, n, w))
<1>1. IsFiniteSet(0 .. n - 1) /\ Cardinality(0 .. n - 1) = n
  BY FS_Interval
<1>2. \A S \in SUBSET (0 .. n - 1) : IsFiniteSet(S) /\ Cardinality(S) \in 0 .. n
  <2> SUFFICES ASSUME NEW S \in SUBSET (0 .. n - 1)
               PROVE  IsFiniteSet(S) /\ Cardinality(S) \in 0 .. n
    OBVIOUS
  <2>1. IsFiniteSet(S) /\ Cardinality(S) <= n
    BY <1>1, FS_Subset
  <2>2. Cardinality(S) \in Nat
    BY <2>1, FS_CardinalityType
  <2> QED BY <2>1, <2>2
<1>3. /\ Under(rows, n, v) \in SUBSET (0 .. n - 1)
      /\ \A w \in Nat : UpTo(rows, n, w) \in SUBSET (0 .. n - 1)
                        /\ Under(rows, n, w) \in SUBSET (0 .. n - 1)
  BY DEF Under, UpTo
<1> DEFINE C == {k \in 0 .. n - 1 : rows[k] = v}
<1>4. /\ UpTo(rows, n, v) = Under(rows, n, v) \union C
      /\ Under(rows, n, v) \cap C = {}
  BY DEF Under, UpTo
<1>5. C \in SUBSET (0 .. n - 1) /\ Copies(v, rows, n) = Cardinality(C)
  BY DEF Copies
<1>6. \A w \in Nat : v < w => UpTo(rows, n, v) \in SUBSET Under(rows, n, w)
  BY DEF Under, UpTo
<1> HIDE DEF C
<1>7. Cardinality(UpTo(rows, n, v)) = Cardinality(Under(rows, n, v)) + Cardinality(C)
  <2>1. /\ Cardinality({}) = 0 /\ IsFiniteSet(C) /\ IsFiniteSet(Under(rows, n, v))
        /\ Cardinality(C) \in Nat /\ Cardinality(Under(rows, n, v)) \in Nat
    BY <1>2, <1>3, <1>5, FS_EmptySet
  <2>2. Cardinality(Under(rows, n, v) \union C)
          = Cardinality(Under(rows, n, v)) + Cardinality(C) - 0
    BY <1>4, <2>1, FS_Union
  <2> QED BY <1>4, <2>1, <2>2
<1>8. \A w \in Nat : v < w => Cardinality(UpTo(rows, n, v)) <= Cardinality(Under(rows, n, w))
  BY <1>2, <1>3, <1>6, FS_Subset
<1> QED BY <1>2, <1>3, <1>5, <1>7, <1>8

Fits(rows, n, k, v) ==
  Cardinality(Under(rows, n, v)) <= k /\ k < Cardinality(UpTo(rows, n, v))

LEMMA SortedFinds ==
  ASSUME NEW n \in Nat, NEW rows, \A j \in 0 .. n - 1 : rows[j] \in Nat, NEW k \in 0 .. n - 1
  PROVE  \E v \in {rows[j] : j \in 0 .. n - 1} : Fits(rows, n, k, v)
<1> DEFINE S == {j \in 0 .. n - 1 : k < Cardinality(UpTo(rows, n, rows[j]))}
<1>1. IsFiniteSet(0 .. n - 1) /\ Cardinality(0 .. n - 1) = n /\ 0 .. n - 1 # {}
  <2>1. IsFiniteSet(0 .. n - 1) /\ Cardinality(0 .. n - 1) = n
    BY FS_Interval
  <2> QED BY <2>1
<1>2. S # {}
  <2>1. PICK j \in 0 .. n - 1 : \A i \in 0 .. n - 1 : rows[i] <= rows[j]
    BY <1>1, LargestRow
  <2>2. UpTo(rows, n, rows[j]) = 0 .. n - 1
    BY <2>1 DEF UpTo
  <2> QED BY <1>1, <2>2
<1>3. \A j \in S : rows[j] \in Nat
  OBVIOUS
<1> HIDE DEF S
<1>4. PICK j \in S : \A i \in S : rows[j] <= rows[i]
  BY <1>2, <1>3, LeastRow
<1>5. j \in 0 .. n - 1 /\ rows[j] \in Nat /\ k < Cardinality(UpTo(rows, n, rows[j]))
  BY <1>3 DEF S
<1>6. Cardinality(Under(rows, n, rows[j])) <= k
  <2> DEFINE U == Under(rows, n, rows[j])
  <2>0. /\ IsFiniteSet(U) /\ Cardinality(U) \in Nat
        /\ U \subseteq 0 .. n - 1 /\ \A i \in U : rows[i] < rows[j]
    <3>1. PICK v \in Nat : v = rows[j]
      BY <1>5
    <3>2. IsFiniteSet(Under(rows, n, v)) /\ Cardinality(Under(rows, n, v)) \in Nat
      BY RankFacts
    <3> QED BY <3>1, <3>2 DEF Under
  <2> SUFFICES ASSUME Cardinality(U) > k PROVE FALSE
    BY <2>0
  <2>1. U # {}
    BY <2>0, FS_EmptySet
  <2>2. PICK i \in U : \A h \in U : rows[h] <= rows[i]
    <3> HIDE DEF U
    <3>1. \A h \in U : rows[h] \in Nat
      BY <2>0
    <3> QED BY <2>0, <2>1, <3>1, LargestRow
  <2>3. UpTo(rows, n, rows[i]) = U
    BY <1>5, <2>0, <2>2 DEF UpTo, Under
  <2>4. i \in S
    BY <2>0, <2>3 DEF S
  <2> QED BY <1>3, <1>4, <1>5, <2>0, <2>4
<1> QED BY <1>5, <1>6 DEF Fits

LEMMA SortedFacts ==
  ASSUME NEW n \in 0 .. LINE_SIZE, NEW rows, \A j \in 0 .. n - 1 : rows[j] \in Nat,
         NEW s, s = Sorted(rows, n)
  PROVE  /\ s = [k \in Rows |-> s[k]]
         /\ \A k \in 0 .. n - 1 : \E j \in 0 .. n - 1 : s[k] = rows[j]
         /\ \A j, k \in 0 .. n - 1 : j <= k => s[j] <= s[k]
         /\ \A v \in Nat : Copies(v, s, n) = Copies(v, rows, n)
<1>1. LINE_SIZE \in Nat /\ n \in Nat /\ n <= LINE_SIZE
  BY SearchAssumption
<1>2. s = [k \in Rows |-> s[k]]
  BY DEF Sorted
<1>3. ASSUME NEW k \in 0 .. n - 1
      PROVE  s[k] \in {rows[j] : j \in 0 .. n - 1} /\ Fits(rows, n, k, s[k])
  <2>1. k \in Rows /\ ~ (k >= n)
    BY <1>1 DEF Rows
  <2>2. s[k] = CHOOSE v \in {rows[j] : j \in 0 .. n - 1} : Fits(rows, n, k, v)
    BY <2>1 DEF Sorted, Fits, Under, UpTo
  <2>3. \E v \in {rows[j] : j \in 0 .. n - 1} : Fits(rows, n, k, v)
    BY <1>1, SortedFinds
  <2> QED BY <2>2, <2>3
<1>4. \A k \in 0 .. n - 1 : s[k] \in Nat
  BY <1>3
<1> DEFINE U(v) == Cardinality(Under(rows, n, v))
           A(v) == Cardinality(UpTo(rows, n, v))
<1>5. /\ \A v \in Nat : U(v) \in Nat /\ A(v) \in 0 .. n /\ A(v) = U(v) + Copies(v, rows, n)
                        /\ Copies(v, rows, n) \in Nat
      /\ \A v, w \in Nat : v < w => A(v) <= U(w)
      /\ \A k \in 0 .. n - 1 : U(s[k]) <= k /\ k < A(s[k])
  BY <1>1, <1>3, RankFacts, CopiesFacts DEF Fits
<1> HIDE DEF U, A
<1>6. ASSUME NEW j \in 0 .. n - 1, NEW k \in 0 .. n - 1, j <= k PROVE s[j] <= s[k]
  <2> SUFFICES ASSUME s[k] < s[j] PROVE FALSE
    BY <1>4
  <2>1. A(s[k]) <= U(s[j]) /\ U(s[j]) <= j /\ k < A(s[k])
    BY <1>4, <1>5
  <2>2. A(s[k]) \in Int /\ U(s[j]) \in Int
    BY <1>4, <1>5
  <2> QED BY <1>6, <2>1, <2>2
<1>7. ASSUME NEW v \in Nat PROVE Copies(v, s, n) = Copies(v, rows, n)
  <2>1. U(v) \in Nat /\ A(v) \in 0 .. n /\ A(v) = U(v) + Copies(v, rows, n) /\ Copies(v, rows, n) \in Nat
    BY <1>5
  <2>2. ASSUME NEW k \in 0 .. n - 1 PROVE s[k] = v <=> k \in U(v) .. A(v) - 1
    <3>1. s[k] \in Nat /\ U(s[k]) <= k /\ k < A(s[k]) /\ U(s[k]) \in Nat /\ A(s[k]) \in Nat
      BY <1>1, <1>4, <1>5
    <3>2. (v < s[k] => A(v) <= U(s[k])) /\ (s[k] < v => A(s[k]) <= U(v))
      BY <1>5, <3>1
    <3> QED BY <2>1, <3>1, <3>2
  <2>3. {k \in 0 .. n - 1 : s[k] = v} = U(v) .. A(v) - 1
    <3>1. U(v) .. A(v) - 1 \subseteq 0 .. n - 1
      BY <1>1, <2>1
    <3> QED BY <2>2, <3>1
  <2>4. Cardinality(U(v) .. A(v) - 1) = A(v) - U(v)
    <3>1. U(v) \in Int /\ A(v) - 1 \in Int /\ U(v) <= A(v) /\ A(v) \in Int
      BY <1>1, <2>1
    <3>2. Cardinality(U(v) .. A(v) - 1) = IF U(v) > A(v) - 1 THEN 0 ELSE (A(v) - 1) - U(v) + 1
      BY <3>1, FS_Interval
    <3> QED BY <3>1, <3>2
  <2>5. Copies(v, s, n) = A(v) - U(v)
    BY <2>3, <2>4 DEF Copies
  <2>6. U(v) \in Int /\ A(v) \in Int /\ Copies(v, rows, n) \in Int
    BY <1>1, <2>1
  <2> QED BY <2>1, <2>5, <2>6
<1> QED BY <1>2, <1>3, <1>6, <1>7

\* The positions of a file are counted from 1, the rows from 0.
PositionsOf(v, f, n) == {k \in 1 .. n : f[k] = v}
RowsOf(v, f, n)      == {k \in 0 .. n - 1 : f[k + 1] = v}

LEMMA RowsAndPositions ==
  ASSUME NEW n \in Nat, NEW f, NEW v
  PROVE  Cardinality(PositionsOf(v, f, n)) = Cardinality(RowsOf(v, f, n))
<1> DEFINE A == {k \in 0 .. n - 1 : f[k + 1] = v}
           B == {k \in 1 .. n : f[k] = v}
           g == [k \in A |-> k + 1]
<1>1. IsFiniteSet(A)
  <2>1. IsFiniteSet(0 .. n - 1)
    BY FS_Interval
  <2> QED BY <2>1, FS_Subset
<1>2. g \in Bijection(A, B)
  <2>1. g \in [A -> B] /\ \A h, k \in A : g[h] = g[k] => h = k
    OBVIOUS
  <2>2. ASSUME NEW k \in B PROVE \E h \in A : g[h] = k
    <3>1. k - 1 \in A /\ g[k - 1] = k
      OBVIOUS
    <3> QED BY <3>1
  <2> QED BY <2>1, <2>2, Fun_IsBij
<1>3. ExistsBijection(A, B)
  BY <1>2 DEF ExistsBijection
<1> HIDE DEF A, B, g
<1>4. Cardinality(B) = Cardinality(A)
  BY <1>1, <1>3, FS_Bijection
<1> QED BY <1>4 DEF A, B, PositionsOf, RowsOf

-----------------------------------------------------------------------------
(* The rows of the threads.                                                *)

Scanning == {"divide", "create", "join"}

LEMMA ShareFacts ==
  ASSUME l \in Nat, len = l \div NUM_THREADS
  PROVE  /\ len \in Nat
         /\ \A t \in Threads : /\ t * len \in Nat /\ Share(t) \in Nat
                               /\ t * len + Share(t) <= l
         /\ \A s, t \in Threads : s < t => s * len + Share(s) <= t * len
         /\ \A k \in 0 .. l - 1 : \E t \in Threads : t * len <= k /\ k < t * len + Share(t)
<1> DEFINE n == NUM_THREADS
           rest == l - (n - 1) * len
<1>1. n \in Nat \ {0}
  BY SearchAssumption
<1> HIDE DEF n
<1>2. len \in Nat /\ n * len <= l
  BY <1>1, SMTT(30) DEF n
<1>3. (n - 1) * len \in Nat /\ (n - 1) * len + len = n * len
  BY <1>1, <1>2, SMTT(30)
<1>4. rest \in Nat /\ (n - 1) * len + rest = l
  BY <1>2, <1>3
<1> HIDE DEF rest
<1>5. ASSUME NEW t \in Threads
      PROVE  /\ t \in Nat /\ t < n /\ t * len \in Nat
             /\ Share(t) = IF t # n - 1 THEN len ELSE rest
  <2>1. t \in Nat /\ t < n
    BY <1>1 DEF Threads, n
  <2>2. t * len \in Nat
    BY <1>2, <2>1, SMTT(30)
  <2> QED BY <2>1, <2>2 DEF Share, n, rest
<1>6. ASSUME NEW s \in Nat, NEW t \in Nat, s < t PROVE s * len + len <= t * len
  BY <1>2, <1>6, SMTT(30)
<1>7. ASSUME NEW t \in Threads
      PROVE  t * len \in Nat /\ Share(t) \in Nat /\ t * len + Share(t) <= l
  <2>1. CASE t = n - 1
    BY <1>4, <1>5, <2>1
  <2>2. CASE t # n - 1
    <3>1. t < n - 1 /\ n - 1 \in Nat
      BY <1>1, <1>5, <2>2
    <3>2. t * len + len <= (n - 1) * len
      BY <1>5, <1>6, <3>1
    <3> QED BY <1>2, <1>3, <1>4, <1>5, <2>2, <3>2
  <2> QED BY <2>1, <2>2
<1>8. ASSUME NEW s \in Threads, NEW t \in Threads, s < t
      PROVE  s * len + Share(s) <= t * len
  <2>1. s # n - 1
    BY <1>1, <1>5, <1>8
  <2>2. s * len + len <= t * len
    BY <1>5, <1>6, <1>8
  <2> QED BY <1>5, <2>1, <2>2
<1>9. ASSUME NEW k \in 0 .. l - 1
      PROVE  \E t \in Threads : t * len <= k /\ k < t * len + Share(t)
  <2>1. CASE (n - 1) * len <= k
    <3>1. n - 1 \in Threads
      BY <1>1 DEF Threads, n
    <3>2. Share(n - 1) = rest
      BY <1>5, <3>1
    <3>3. k < (n - 1) * len + Share(n - 1)
      BY <1>4, <3>2
    <3> QED BY <2>1, <3>1, <3>3
  <2>2. CASE k < (n - 1) * len
    <3> DEFINE t == k \div len
    <3>1. len # 0
      BY <1>1, <2>2, SMTT(30)
    <3>2. t \in Nat /\ len * t <= k /\ k < len * t + len
      BY <1>2, <3>1, SMTT(30)
    <3> HIDE DEF t
    <3>3. t * len = len * t
      BY <1>2, <3>2, SMTT(30)
    <3>4. t < n - 1
      <4> SUFFICES ASSUME n - 1 <= t PROVE FALSE
        BY <1>1, <3>2
      <4>1. n - 1 = t \/ n - 1 < t
        BY <1>1, <3>2
      <4>2. n - 1 < t => (n - 1) * len + len <= t * len
        BY <1>1, <1>6, <3>2
      <4>3. (n - 1) * len <= t * len
        BY <1>2, <1>3, <3>2, <3>3, <4>1, <4>2
      <4> QED BY <1>2, <1>3, <2>2, <3>2, <3>3, <4>3
    <3>5. t \in Threads
      BY <1>1, <3>2, <3>4 DEF Threads, n
    <3>6. Share(t) = len
      BY <1>1, <1>5, <3>4, <3>5
    <3> QED BY <3>2, <3>3, <3>5, <3>6
  <2> QED BY <1>3, <2>1, <2>2
<1> QED BY <1>2, <1>7, <1>8, <1>9

-----------------------------------------------------------------------------
(* What a clean run has done so far.                                       *)

\* The parent has loaded the file when the child divides it.
LoadInv ==
  /\ parent = "load" => cnt \in 0 .. Len(file) /\ \A k \in 0 .. cnt - 1 : data[k] = file[k + 1]
  /\ parent = "wait" /\ child \in {"wait"} \union Scanning =>
       l = Len(file) /\ \A k \in 0 .. l - 1 : data[k] = file[k + 1]

WaitInv ==
  child = "wait" =>
    /\ created = 0 /\ mutex = Free /\ index = 0 /\ ans = NoLines
    /\ threads = [t \in Threads |-> IdleThread]

\* A thread is in its own rows; one that has found a match still holds it when
\* it has the mutex, and has stored it before it counts it.
Scans(t) ==
  /\ threads[t] \in [pc : {"scan", "lock", "store", "count", "done"},
                     now : Nat, end : Nat, line : Lines \union {NoLine}]
  /\ t * len <= threads[t].now /\ threads[t].now <= threads[t].end
  /\ threads[t].end = t * len + Share(t)
  /\ threads[t].pc = "done" => threads[t].now = threads[t].end
  /\ threads[t].pc \in {"lock", "store", "count"} =>
       /\ threads[t].now < threads[t].end
       /\ threads[t].line = file[threads[t].now + 1] /\ threads[t].line \in Matching
  /\ threads[t].pc = "count" => ans[index] = threads[t].line

Scheduled ==
  /\ created \in 0 .. NUM_THREADS
  /\ created < NUM_THREADS <=> child # "join"
  /\ child = "create" \/ created > 0 => len = l \div NUM_THREADS
  /\ threads = [t \in Threads |-> threads[t]]
  /\ \A t \in Threads : IF t < created THEN Scans(t) ELSE threads[t] = IdleThread
  /\ mutex \in Threads \union {Free}
  /\ \A t \in Threads : mutex = t <=> threads[t].pc \in {"store", "count"}

MatchedRows == {k \in MappedRows : file[k + 1] \in Matching}

MappedCopies(v) == Cardinality({k \in MappedRows : file[k + 1] = v})

\* The results are the matches of the rows that the threads are done with.
Collected ==
  /\ ans = [k \in Rows |-> ans[k]]
  /\ index = Cardinality(MatchedRows)
  /\ \A k \in 0 .. index - 1 : ans[k] \in Matching
  /\ \A v \in Matching : Copies(v, ans, index) = MappedCopies(v)

ScanInv == child \in Scanning => Scheduled /\ Collected

Quiet == child \notin Scanning => \A t \in Threads : threads[t].pc \in {"idle", "done"}

InFile(v) == Cardinality({k \in DOMAIN file : file[k] = v})

\* The first n rows are the matching lines of the file.
Matches(rows, n) ==
  /\ n \in 0 .. LINE_SIZE
  /\ \A k \in 0 .. n - 1 : rows[k] \in Matching
  /\ \A v \in Matching : Copies(v, rows, n) = InFile(v)

InOrder(rows, n) == \A j, k \in 0 .. n - 1 : j <= k => rows[j] <= rows[k]

ResultInv ==
  /\ child = "reduce" => Matches(ans, index)
  /\ child \in {"post", "exited"} /\ parent \in {"wait", "print"} =>
       Matches(data, l) /\ InOrder(data, l)

OutputInv ==
  /\ parent \in {"load", "wait"} => output = <<>>
  /\ parent = "print" =>
       /\ output \in Seq(Matching) /\ Len(output) <= l
       /\ \A k \in 1 .. Len(output) : output[k] = data[k - 1]
  /\ parent = "done" => RightOutput

CleanInv == Turns /\ LoadInv /\ WaitInv /\ ScanInv /\ Quiet /\ ResultInv /\ OutputInv

\* The segment may hold what an earlier run has left in it; a clean run does
\* not depend on that.
RunInv ==
  /\ file \in Files
  /\ data = [k \in Rows |-> data[k]]
  /\ clean => CleanInv

LEMMA FileFacts ==
  ASSUME file \in Files
  PROVE  /\ file \in Seq(Lines) /\ Len(file) \in 0 .. LINE_SIZE /\ DOMAIN file = 1 .. Len(file)
         /\ \A k \in 0 .. Len(file) - 1 : k \in Rows /\ file[k + 1] \in Lines
<1>1. file \in Seq(Lines) /\ Len(file) <= LINE_SIZE /\ LINE_SIZE \in Nat
  BY SearchAssumption
<1>2. Len(file) \in Nat /\ DOMAIN file = 1 .. Len(file) /\ \A k \in 1 .. Len(file) : file[k] \in Lines
  BY <1>1
<1>3. \A k \in 0 .. Len(file) - 1 : k + 1 \in 1 .. Len(file) /\ k \in 0 .. LINE_SIZE - 1
  BY <1>1, <1>2
<1> QED BY <1>1, <1>2, <1>3 DEF Rows

\* What a run begins with, with what it finds in the segment.
LEMMA RunBegins ==
  ASSUME parent = "load", child = "wait", sem_a = 0, sem_b = 0,
         cnt = 0, output = <<>>, created = 0, mutex = Free, index = 0, ans = NoLines,
         threads = [t \in Threads |-> IdleThread], file \in Files
  PROVE  CleanInv
<1>1. LoadInv
  BY FileFacts DEF LoadInv
<1>2. \A t \in Threads : threads[t].pc = "idle"
  BY DEF IdleThread
<1> QED BY <1>1, <1>2 DEF CleanInv, Turns, WaitInv, ScanInv, Quiet, ResultInv, OutputInv, Scanning

LEMMA RunInvInit == Init => RunInv
<1> SUFFICES ASSUME Init PROVE RunInv
  OBVIOUS
<1>1. CleanInv
  BY RunBegins DEF Init, Unposted
<1> QED BY <1>1 DEF Init, RunInv, NoLines

LEMMA RunInvStart == RunInv /\ Start => RunInv'
<1> SUFFICES ASSUME RunInv, Start PROVE RunInv'
  OBVIOUS
<1>1. file' \in Files /\ data' = [k \in Rows |-> data'[k]] /\ Rows' = Rows
  BY DEF RunInv, Start, Rows, segment
<1>2. ASSUME clean' PROVE CleanInv'
  <2>1. LoadInv'
    <3>1. Len(file') \in Nat /\ parent' = "load" /\ cnt' = 0
      BY <1>1, SearchAssumption DEF Start
    <3> QED BY <3>1 DEF LoadInv
  <2>2. /\ child' = "wait" /\ parent' = "load" /\ output' = <<>> /\ created' = 0 /\ mutex' = Free
        /\ index' = 0 /\ ans' = NoLines /\ threads' = [t \in Threads |-> IdleThread]
    BY DEF Start
  <2>3. sem_a' = 0 /\ sem_b' = 0
    BY <1>2 DEF Start, Unposted
  <2>4. \A t \in Threads : threads'[t].pc = "idle"
    BY <2>2 DEF IdleThread
  <2>5. Turns' /\ ScanInv' /\ Quiet' /\ ResultInv' /\ OutputInv'
    BY <2>2, <2>3, <2>4 DEF Turns, ScanInv, Quiet, ResultInv, OutputInv, Scanning
  <2>6. WaitInv'
    BY <2>2 DEF WaitInv, Free, NoLines, Rows, Threads, IdleThread
  <2> QED BY <2>1, <2>5, <2>6 DEF CleanInv
<1> QED BY <1>1, <1>2 DEF RunInv, Rows

\* What the parent prints: the rows of the segment are what the output has to be.
LEMMA OutputIsRight ==
  ASSUME file \in Files, Matches(data, l), InOrder(data, l), output \in Seq(Matching),
         Len(output) = l, \A k \in 1 .. Len(output) : output[k] = data[k - 1]
  PROVE  RightOutput
<1>1. l \in Nat /\ DOMAIN output = 1 .. l /\ \A k \in 1 .. l : output[k] \in Matching
  BY SearchAssumption DEF Matches
<1>2. ASSUME NEW j \in DOMAIN output, NEW k \in DOMAIN output, j <= k
      PROVE  output[j] <= output[k]
  <2>1. j - 1 \in 0 .. l - 1 /\ k - 1 \in 0 .. l - 1 /\ j - 1 <= k - 1
    BY <1>1, <1>2
  <2>2. data[j - 1] <= data[k - 1]
    BY <2>1 DEF InOrder
  <2> QED BY <1>1, <2>2
<1>3. ASSUME NEW v \in Matching
      PROVE  Cardinality({k \in DOMAIN output : output[k] = v}) = InFile(v)
  <2>1. Cardinality({k \in 1 .. l : output[k] = v})
          = Cardinality({k \in 0 .. l - 1 : output[k + 1] = v})
    <3>1. Cardinality(PositionsOf(v, output, l)) = Cardinality(RowsOf(v, output, l))
      BY <1>1, RowsAndPositions
    <3> QED BY <3>1 DEF PositionsOf, RowsOf
  <2>2. {k \in 0 .. l - 1 : output[k + 1] = v} = {k \in 0 .. l - 1 : data[k] = v}
    <3>1. \A k \in 0 .. l - 1 : k + 1 \in 1 .. l /\ (k + 1) - 1 = k
      BY <1>1
    <3>2. \A k \in 0 .. l - 1 : output[k + 1] = data[k]
      BY <3>1
    <3> QED BY <3>2
  <2>3. Copies(v, data, l) = InFile(v)
    BY DEF Matches
  <2> QED BY <1>1, <2>1, <2>2, <2>3 DEF Copies
<1>4. ASSUME NEW v, v \notin Matching
      PROVE  Cardinality({k \in DOMAIN output : output[k] = v}) = 0
  <2>1. {k \in DOMAIN output : output[k] = v} = {}
    BY <1>1, <1>4
  <2> QED BY <2>1, FS_EmptySet
<1> QED BY <1>2, <1>3, <1>4 DEF RightOutput, InFile

LEMMA RunInvParent == RunInv /\ ParentStep => RunInv'
<1> SUFFICES ASSUME RunInv, ParentStep PROVE RunInv'
  OBVIOUS
<1>1. file' = file /\ clean' = clean /\ file \in Files
  BY DEF RunInv, ParentStep, LoadLine, PostLoaded, WaitForResults, PrintRow, RemoveShared
<1>2. data' = [k \in Rows |-> data'[k]] /\ Rows' = Rows
  <2>1. data = [k \in Rows |-> data[k]]
    BY DEF RunInv
  <2>2. \/ data' = data \/ data' = [data EXCEPT ![cnt] = file[cnt + 1]] \/ data' = NoLines
    BY DEF ParentStep, LoadLine, PostLoaded, WaitForResults, PrintRow, RemoveShared, segment
  <2> QED BY <2>1, <2>2 DEF NoLines, Rows
<1>3. ASSUME clean, CleanInv PROVE CleanInv'
  <2>1. Turns /\ LoadInv /\ WaitInv /\ Quiet /\ ResultInv /\ OutputInv /\ Turns'
    <3>1. Inv'
      BY <1>3, InvParent DEF CleanInv, Inv
    <3> QED BY <1>1, <1>3, <3>1 DEF CleanInv, Inv
  <2>2. child \notin Scanning
    BY <2>1 DEF ParentStep, LoadLine, PostLoaded, WaitForResults, PrintRow, RemoveShared,
                Turns, AtWork, Scanning
  <2>3. CASE LoadLine \/ PostLoaded \/ WaitForResults \/ PrintRow
    <3>1. UNCHANGED <<child, created, len, threads, mutex, ans, index>>
      BY <2>3 DEF LoadLine, PostLoaded, WaitForResults, PrintRow, childs, work, results
    <3>2. WaitInv' /\ ScanInv' /\ Quiet'
      BY <2>1, <2>2, <3>1 DEF WaitInv, ScanInv, Quiet, Scanning, Threads, IdleThread, Free, NoLines, Rows
    <3>3. CASE LoadLine
      <4>1. parent = "load" /\ child = "wait" /\ parent' = "load" /\ cnt < Len(file) /\ cnt' = cnt + 1
        BY <2>1, <3>3 DEF LoadLine, Turns
      <4>2. cnt \in 0 .. Len(file) - 1 /\ cnt \in Rows /\ Len(file) \in Nat
        BY <1>1, <2>1, <4>1, FileFacts DEF LoadInv
      <4>3. data' = [data EXCEPT ![cnt] = file[cnt + 1]] /\ output' = output
        BY <3>3 DEF LoadLine
      <4>4. \A k \in 0 .. cnt' - 1 : data'[k] = file[k + 1]
        <5> SUFFICES ASSUME NEW k \in 0 .. cnt' - 1 PROVE data'[k] = file[k + 1]
          OBVIOUS
        <5>1. k = cnt \/ k \in 0 .. cnt - 1
          BY <4>1, <4>2
        <5>2. CASE k = cnt
          BY <4>2, <4>3, <5>2 DEF RunInv
        <5>3. CASE k \in 0 .. cnt - 1
          <6>1. data[k] = file[k + 1] /\ k # cnt
            BY <2>1, <4>1, <4>2, <5>3 DEF LoadInv
          <6>2. k \in Rows
            BY <4>2, <5>3, SearchAssumption DEF Rows
          <6>3. data'[k] = data[k]
            BY <4>3, <6>1, <6>2 DEF RunInv
          <6> QED BY <6>1, <6>3
        <5> QED BY <5>1, <5>2, <5>3
      <4>5. LoadInv'
        BY <1>1, <4>1, <4>2, <4>4 DEF LoadInv
      <4>6. ResultInv' /\ OutputInv'
        BY <2>1, <3>1, <4>1, <4>3 DEF ResultInv, OutputInv
      <4> QED BY <2>1, <3>2, <4>5, <4>6 DEF CleanInv
    <3>4. CASE PostLoaded
      <4>1. /\ parent = "load" /\ child = "wait" /\ parent' = "wait" /\ l' = cnt /\ cnt = Len(file)
            /\ data' = data /\ output' = output
        BY <2>1, <3>4 DEF PostLoaded, Turns
      <4>2. LoadInv'
        BY <1>1, <2>1, <3>1, <4>1 DEF LoadInv, Scanning
      <4>3. ResultInv' /\ OutputInv'
        BY <2>1, <3>1, <4>1 DEF ResultInv, OutputInv
      <4> QED BY <2>1, <3>2, <4>2, <4>3 DEF CleanInv
    <3>5. CASE WaitForResults
      <4>1. /\ parent = "wait" /\ child = "exited" /\ parent' = "print"
            /\ UNCHANGED <<data, l, output>>
        BY <2>1, <3>5 DEF WaitForResults, Turns, AtWork, segment
      <4>2. output' = <<>>
        BY <2>1, <4>1 DEF OutputInv
      <4>3. LoadInv'
        BY <3>1, <4>1 DEF LoadInv
      <4>4. ResultInv'
        BY <1>1, <2>1, <3>1, <4>1 DEF ResultInv, Matches, InOrder, Copies, InFile
      <4>5. l \in Nat
        BY <2>1, <4>1, SearchAssumption DEF ResultInv, Matches
      <4>6. OutputInv'
        BY <4>1, <4>2, <4>5 DEF OutputInv
      <4> QED BY <2>1, <3>2, <4>3, <4>4, <4>6 DEF CleanInv
    <3>6. CASE PrintRow
      <4>1. /\ parent = "print" /\ child = "exited" /\ UNCHANGED <<parent, data, l>>
            /\ Len(output) < l /\ output' = Append(output, data[Len(output)])
        BY <2>1, <3>6 DEF PrintRow, Turns, segment
      <4>2. /\ Matches(data, l) /\ output \in Seq(Matching)
            /\ \A k \in 1 .. Len(output) : output[k] = data[k - 1]
        BY <2>1, <4>1 DEF ResultInv, OutputInv
      <4>3. /\ l \in Nat /\ Len(output) \in 0 .. l - 1 /\ data[Len(output)] \in Matching
        BY <4>1, <4>2, SearchAssumption DEF Matches
      <4>4. /\ output' \in Seq(Matching) /\ Len(output') = Len(output) + 1
            /\ \A k \in 1 .. Len(output) : output'[k] = output[k]
            /\ output'[Len(output) + 1] = data[Len(output)]
        BY <4>1, <4>2, <4>3, AppendProperties
      <4>5. \A k \in 1 .. Len(output') : output'[k] = data[k - 1]
        <5> SUFFICES ASSUME NEW k \in 1 .. Len(output') PROVE output'[k] = data[k - 1]
          OBVIOUS
        <5>1. k \in 1 .. Len(output) \/ k = Len(output) + 1
          BY <4>3, <4>4
        <5> QED BY <4>2, <4>3, <4>4, <5>1
      <4>6. LoadInv'
        BY <3>1, <4>1 DEF LoadInv
      <4>7. ResultInv'
        BY <1>1, <2>1, <3>1, <4>1 DEF ResultInv, Matches, InOrder, Copies, InFile
      <4>8. OutputInv'
        BY <4>1, <4>3, <4>4, <4>5 DEF OutputInv
      <4> QED BY <2>1, <3>2, <4>6, <4>7, <4>8 DEF CleanInv
    <3> QED BY <2>3, <3>3, <3>4, <3>5, <3>6
  <2>4. CASE RemoveShared
    <3>1. /\ parent = "print" /\ child = "exited" /\ parent' = "done" /\ child' = "exited"
          /\ Len(output) >= l /\ output' = output /\ threads' = [t \in Threads |-> IdleThread]
      BY <2>1, <2>4 DEF RemoveShared, Turns
    <3>2. /\ Matches(data, l) /\ InOrder(data, l) /\ output \in Seq(Matching) /\ Len(output) <= l
          /\ \A k \in 1 .. Len(output) : output[k] = data[k - 1]
      BY <2>1, <3>1 DEF ResultInv, OutputInv
    <3>3. Len(output) = l
      BY <3>1, <3>2, SearchAssumption DEF Matches
    <3>4. RightOutput
      BY <1>1, <3>2, <3>3, OutputIsRight
    <3>5. OutputInv'
      BY <1>1, <3>1, <3>4 DEF OutputInv, RightOutput
    <3>6. LoadInv' /\ WaitInv' /\ ScanInv' /\ ResultInv'
      BY <3>1 DEF LoadInv, WaitInv, ScanInv, ResultInv, Scanning
    <3>7. Quiet'
      BY <3>1 DEF Quiet, IdleThread, Threads
    <3> QED BY <2>1, <3>5, <3>6, <3>7 DEF CleanInv
  <2> QED BY <2>3, <2>4 DEF ParentStep
<1> QED BY <1>1, <1>2, <1>3 DEF RunInv, Rows

-----------------------------------------------------------------------------
(* The rows that are mapped.                                               *)

\* The rows of different threads are different ones, and those of the file.
LEMMA MappedFacts ==
  ASSUME l \in Nat, Scheduled
  PROVE  /\ MappedRows \in SUBSET (0 .. l - 1) /\ IsFiniteSet(MappedRows)
         /\ \A t \in 0 .. created - 1 :
              /\ t \in Threads /\ Scans(t) /\ t * len \in Nat
              /\ threads[t].now < threads[t].end =>
                   threads[t].now \in 0 .. l - 1 /\ threads[t].now \notin MappedRows
<1>1. /\ created \in 0 .. NUM_THREADS /\ NUM_THREADS \in Nat
      /\ \A t \in 0 .. created - 1 : t \in Threads /\ Scans(t)
  BY SearchAssumption DEF Scheduled, Threads
<1>2. IsFiniteSet(0 .. l - 1)
  BY FS_Interval
<1>3. CASE created = 0
  <2>1. MappedRows = {}
    BY <1>3 DEF MappedRows
  <2> QED BY <1>1, <1>3, <2>1, FS_EmptySet
<1>4. CASE created > 0
  <2>1. len = l \div NUM_THREADS
    BY <1>4 DEF Scheduled
  <2>2. /\ \A t \in Threads : t * len \in Nat /\ Share(t) \in Nat /\ t * len + Share(t) <= l
        /\ \A s, t \in Threads : s < t => s * len + Share(s) <= t * len
    BY <2>1, ShareFacts
  <2> DEFINE low(t) == t * len
  <2>3. ASSUME NEW t \in 0 .. created - 1
        PROVE  /\ low(t) \in Nat /\ threads[t].now \in Nat /\ threads[t].end \in Nat
               /\ low(t) <= threads[t].now /\ threads[t].now <= threads[t].end
               /\ threads[t].end <= l /\ threads[t].end = low(t) + Share(t)
    BY <1>1, <2>2 DEF Scans
  <2>4. \A s, t \in 0 .. created - 1 : s < t => threads[s].end <= low(t)
    BY <1>1, <2>2 DEF Scans
  <2>5. \A k : k \in MappedRows <=>
                 \E t \in 0 .. created - 1 : k \in low(t) .. threads[t].now - 1
    BY DEF MappedRows
  <2> HIDE DEF low
  <2>6. ASSUME NEW k \in MappedRows PROVE k \in 0 .. l - 1
    <3>1. PICK t \in 0 .. created - 1 : k \in low(t) .. threads[t].now - 1
      BY <2>5
    <3> QED BY <2>3, <3>1
  <2>7. ASSUME NEW t \in 0 .. created - 1, threads[t].now < threads[t].end
        PROVE  threads[t].now \in 0 .. l - 1 /\ threads[t].now \notin MappedRows
    <3>1. threads[t].now \in 0 .. l - 1
      BY <2>3, <2>7
    <3>2. ASSUME NEW s \in 0 .. created - 1, threads[t].now \in low(s) .. threads[s].now - 1
          PROVE  FALSE
      <4>1. s # t
        BY <2>3, <3>2
      <4>2. s < t \/ t < s
        BY <1>1, <4>1
      <4>3. CASE s < t
        <5>1. threads[s].end <= low(t)
          BY <2>4, <4>3
        <5> QED BY <2>3, <3>2, <5>1
      <4>4. CASE t < s
        <5>1. threads[t].end <= low(s)
          BY <2>4, <4>4
        <5> QED BY <2>3, <2>7, <3>2, <5>1
      <4> QED BY <4>2, <4>3, <4>4
    <3> QED BY <2>5, <3>1, <3>2
  <2>8. MappedRows \in SUBSET (0 .. l - 1)
    BY <2>6
  <2>9. IsFiniteSet(MappedRows)
    BY <1>2, <2>8, FS_Subset
  <2> QED BY <1>1, <2>2, <2>7, <2>8, <2>9
<1> QED BY <1>1, <1>3, <1>4

\* Threads that stay where they are map no row.
LEMMA MappedKept ==
  ASSUME created' = created, len' = len,
         \A t \in 0 .. created - 1 : threads'[t].now = threads[t].now
  PROVE  MappedRows' = MappedRows
<1>1. \A t \in 0 .. created - 1 : t * len' .. threads'[t].now - 1 = t * len .. threads[t].now - 1
  OBVIOUS
<1> QED BY <1>1 DEF MappedRows

LEMMA MappedAdded ==
  ASSUME created' = created, len' = len, NEW t \in 0 .. created - 1,
         t * len \in Nat, threads[t].now \in Nat, t * len <= threads[t].now,
         threads'[t].now = threads[t].now + 1,
         \A s \in 0 .. created - 1 : s # t => threads'[s].now = threads[s].now
  PROVE  MappedRows' = MappedRows \union {threads[t].now}
<1> DEFINE old(s) == s * len .. threads[s].now - 1
           new(s) == s * len' .. threads'[s].now - 1
<1>1. /\ new(t) = old(t) \union {threads[t].now}
      /\ \A s \in 0 .. created - 1 : s # t => new(s) = old(s)
  OBVIOUS
<1>2. MappedRows = UNION {old(s) : s \in 0 .. created - 1}
  BY DEF MappedRows
<1>3. MappedRows' = UNION {new(s) : s \in 0 .. created - 1}
  BY DEF MappedRows
<1> HIDE DEF old, new
<1> QED BY <1>1, <1>2, <1>3

FileCopies(v, f, S) == {k \in S : f[k + 1] = v}
FileMatches(f, S)   == {k \in S : f[k + 1] \in Matching}

LEMMA MatchesAdded ==
  ASSUME NEW S, IsFiniteSet(S), NEW e, e \notin S, NEW f
  PROVE  Cardinality(FileMatches(f, S \union {e}))
           = Cardinality(FileMatches(f, S)) + (IF f[e + 1] \in Matching THEN 1 ELSE 0)
<1> DEFINE A == FileMatches(f, S)
           B == FileMatches(f, S \union {e})
<1>1. IsFiniteSet(A) /\ e \notin A /\ B = IF f[e + 1] \in Matching THEN A \union {e} ELSE A
  BY FS_Subset DEF FileMatches
<1> HIDE DEF A, B
<1>2. Cardinality(A) \in Nat /\ Cardinality(A \union {e}) = Cardinality(A) + 1
  BY <1>1, FS_AddElement, FS_CardinalityType
<1>3. Cardinality(B) = Cardinality(A) + (IF f[e + 1] \in Matching THEN 1 ELSE 0)
  BY <1>1, <1>2
<1> QED BY <1>3 DEF A, B

LEMMA CopiesCounted ==
  ASSUME NEW S, IsFiniteSet(S), NEW f, NEW v
  PROVE  Cardinality(FileCopies(v, f, S)) \in Nat
<1> DEFINE A == FileCopies(v, f, S)
<1>1. IsFiniteSet(A)
  BY FS_Subset DEF FileCopies
<1> HIDE DEF A
<1>2. Cardinality(A) \in Nat
  BY <1>1, FS_CardinalityType
<1> QED BY <1>2 DEF A

LEMMA CopiesAdded ==
  ASSUME NEW S, IsFiniteSet(S), NEW e, e \notin S, NEW f, NEW v
  PROVE  Cardinality(FileCopies(v, f, S \union {e}))
           = Cardinality(FileCopies(v, f, S)) + (IF f[e + 1] = v THEN 1 ELSE 0)
<1> DEFINE A == FileCopies(v, f, S)
           B == FileCopies(v, f, S \union {e})
<1>1. IsFiniteSet(A) /\ e \notin A /\ B = IF f[e + 1] = v THEN A \union {e} ELSE A
  BY FS_Subset DEF FileCopies
<1> HIDE DEF A, B
<1>2. Cardinality(A) \in Nat /\ Cardinality(A \union {e}) = Cardinality(A) + 1
  BY <1>1, FS_AddElement, FS_CardinalityType
<1>3. Cardinality(B) = Cardinality(A) + (IF f[e + 1] = v THEN 1 ELSE 0)
  BY <1>1, <1>2
<1> QED BY <1>3 DEF A, B

LEMMA CollectedFacts ==
  ASSUME l \in 0 .. LINE_SIZE, Scheduled, Collected
  PROVE  /\ MatchedRows = FileMatches(file, MappedRows)
         /\ \A v : MappedCopies(v) = Cardinality(FileCopies(v, file, MappedRows))
         /\ index \in 0 .. l
<1>1. MappedRows \in SUBSET (0 .. l - 1) /\ l \in Nat
  BY MappedFacts, SearchAssumption
<1>2. IsFiniteSet(0 .. l - 1) /\ Cardinality(0 .. l - 1) = l
  <2>1. PICK n \in Nat : n = l
    BY <1>1
  <2>2. IsFiniteSet(0 .. n - 1) /\ Cardinality(0 .. n - 1) = n
    BY FS_Interval
  <2> QED BY <2>1, <2>2
<1>3. MatchedRows \in SUBSET (0 .. l - 1)
  BY <1>1 DEF MatchedRows
<1>4. Cardinality(MatchedRows) <= l /\ Cardinality(MatchedRows) \in Nat
  BY <1>2, <1>3, FS_Subset, FS_CardinalityType
<1> QED BY <1>1, <1>4 DEF MatchedRows, MappedCopies, FileMatches, FileCopies, Collected

LEMMA CollectedKept ==
  ASSUME Collected, MappedRows' = MappedRows, UNCHANGED <<ans, index, file>>
  PROVE  Collected'
BY DEF Collected, MatchedRows, MappedCopies, Copies, Rows

-----------------------------------------------------------------------------
(* The steps of the child.                                                 *)

\* While the threads scan, the rows are those of the file.
LEMMA ScanningFacts ==
  ASSUME file \in Files, CleanInv, child \in Scanning
  PROVE  /\ parent = "wait" /\ sem_a = 0 /\ sem_b = 0 /\ output = <<>>
         /\ l = Len(file) /\ l \in 0 .. LINE_SIZE /\ l \in Nat
         /\ \A k \in 0 .. l - 1 : data[k] = file[k + 1] /\ file[k + 1] \in Lines
         /\ Scheduled /\ Collected
<1>1. parent = "wait" /\ sem_a = 0 /\ sem_b = 0
  BY DEF CleanInv, Turns, Scanning
<1>2. l = Len(file) /\ \A k \in 0 .. l - 1 : data[k] = file[k + 1]
  BY <1>1 DEF CleanInv, LoadInv
<1>3. l \in 0 .. LINE_SIZE /\ l \in Nat /\ \A k \in 0 .. l - 1 : file[k + 1] \in Lines
  BY <1>2, FileFacts, SearchAssumption
<1> QED BY <1>1, <1>2, <1>3 DEF CleanInv, OutputInv, ScanInv

LEMMA ScanningNext ==
  ASSUME file \in Files, CleanInv, child \in Scanning, child' \in Scanning,
         UNCHANGED <<parent, sem_a, sem_b, l, data, file, output, cnt>>,
         Scheduled', Collected'
  PROVE  CleanInv'
<1>1. /\ parent = "wait" /\ sem_a = 0 /\ sem_b = 0 /\ output = <<>> /\ l = Len(file)
      /\ \A k \in 0 .. l - 1 : data[k] = file[k + 1]
  BY ScanningFacts
<1>2. Turns' /\ LoadInv' /\ OutputInv'
  BY <1>1 DEF Turns, AtWork, Scanning, LoadInv, OutputInv
<1>3. WaitInv' /\ ScanInv' /\ Quiet' /\ ResultInv'
  BY DEF WaitInv, ScanInv, Quiet, ResultInv, Scanning
<1> QED BY <1>2, <1>3 DEF CleanInv

LEMMA CleanWaitForLines ==
  ASSUME file \in Files, CleanInv, WaitForLines
  PROVE  CleanInv'
<1>1. /\ child = "wait" /\ sem_a > 0 /\ sem_a' = sem_a - 1 /\ child' = "divide"
      /\ UNCHANGED <<sem_b, data, l, parent, cnt, output, file, created, len, threads, mutex, ans, index>>
  BY DEF WaitForLines, segment, parents, work, results
<1>2. /\ created = 0 /\ mutex = Free /\ index = 0 /\ ans = NoLines
      /\ threads = [t \in Threads |-> IdleThread]
  BY <1>1 DEF CleanInv, WaitInv
<1>3. parent = "wait" /\ sem_a = 1 /\ sem_b = 0
  BY <1>1 DEF CleanInv, Turns, AtWork
<1>4. Scheduled'
  <2>1. NUM_THREADS \in Nat \ {0} /\ ~ (Free \in Threads)
    BY SearchAssumption DEF Free, Threads
  <2>2. \A t \in Threads : threads'[t] = IdleThread /\ ~ (t < created')
    BY <1>1, <1>2, <2>1 DEF Threads
  <2>3. \A t \in Threads : ~ (mutex' = t) /\ threads'[t].pc = "idle"
    BY <1>1, <1>2, <2>1, <2>2 DEF IdleThread
  <2>4. threads' = [t \in Threads |-> threads'[t]]
    BY <1>1, <1>2
  <2> QED BY <1>1, <1>2, <2>1, <2>2, <2>3, <2>4 DEF Scheduled, Threads, IdleThread, Free
<1>5. Collected'
  <2>1. MappedRows' = {}
    BY <1>1, <1>2 DEF MappedRows
  <2>2. /\ MatchedRows' = {} /\ \A v : MappedCopies(v)' = Cardinality({})
    BY <2>1 DEF MatchedRows, MappedCopies
  <2>3. \A v : Copies(v, ans', index') = Cardinality({})
    <3>1. 0 .. index' - 1 = {}
      BY <1>1, <1>2
    <3> QED BY <3>1 DEF Copies
  <2>4. 0 .. index' - 1 = {} /\ index' = 0 /\ ans' = [k \in Rows |-> ans'[k]] /\ Rows' = Rows
    BY <1>1, <1>2 DEF NoLines, Rows
  <2>5. index' = Cardinality(MatchedRows')
    BY <2>2, <2>4, FS_EmptySet
  <2> QED BY <2>2, <2>3, <2>4, <2>5 DEF Collected, Copies, Rows
<1>6. Turns' /\ LoadInv' /\ WaitInv' /\ ResultInv' /\ OutputInv'
  BY <1>1, <1>3 DEF CleanInv, Turns, AtWork, LoadInv, WaitInv, ResultInv, OutputInv, Scanning
<1> QED BY <1>1, <1>4, <1>5, <1>6 DEF CleanInv, ScanInv, Quiet, Scanning

LEMMA CleanDivide ==
  ASSUME file \in Files, CleanInv, Divide
  PROVE  CleanInv'
<1>1. /\ child = "divide" /\ child' = "create" /\ len' = l \div NUM_THREADS
      /\ UNCHANGED <<sem_a, sem_b, data, l, parent, cnt, output, file, created, threads, mutex, ans, index>>
  BY DEF Divide, segment, parents, results
<1>2. Scheduled /\ Collected /\ l \in Nat
  BY <1>1, ScanningFacts DEF Scanning
<1>3. created \in Nat /\ created < NUM_THREADS /\ (created > 0 => len' = len)
  BY <1>1, <1>2, SearchAssumption DEF Scheduled
<1>4. MappedRows' = MappedRows
  <2>1. CASE created = 0
    BY <1>1, <2>1 DEF MappedRows
  <2>2. CASE created > 0
    BY <1>1, <1>3, <2>2, MappedKept
  <2> QED BY <1>3, <2>1, <2>2
<1>5. Collected'
  BY <1>1, <1>2, <1>4, CollectedKept
<1>6. ASSUME NEW t \in Threads PROVE IF t < created' THEN Scans(t)' ELSE threads'[t] = IdleThread
  <2>1. CASE t < created
    <3>1. Scans(t) /\ len' = len
      BY <1>2, <1>3, <2>1, SearchAssumption DEF Scheduled, Threads
    <3> QED BY <1>1, <2>1, <3>1 DEF Scans, Share
  <2>2. CASE ~ (t < created)
    BY <1>1, <1>2, <2>2 DEF Scheduled, IdleThread
  <2> QED BY <2>1, <2>2
<1>7. Scheduled'
  BY <1>1, <1>2, <1>3, <1>6 DEF Scheduled, Threads, IdleThread, Free
<1> QED BY <1>1, <1>5, <1>7, ScanningNext DEF Scanning

LEMMA CleanCreateThread ==
  ASSUME file \in Files, CleanInv, CreateThread
  PROVE  CleanInv'
<1> DEFINE c == created
           low == c * len
           new == [IdleThread EXCEPT !.pc = "scan", !.now = low, !.end = low + Share(c)]
<1>1. /\ child = "create" /\ c' = c + 1
      /\ child' = IF c + 1 < NUM_THREADS THEN "divide" ELSE "join"
      /\ threads' = [threads EXCEPT ![c] = new]
      /\ UNCHANGED <<sem_a, sem_b, data, l, parent, cnt, output, file, len, mutex, ans, index>>
  BY DEF CreateThread, segment, parents, results
<1>2. Scheduled /\ Collected /\ l \in Nat
  BY <1>1, ScanningFacts DEF Scanning
<1>3. /\ c \in Threads /\ c \in Nat /\ c < NUM_THREADS /\ NUM_THREADS \in Nat
      /\ len = l \div NUM_THREADS /\ threads[c] = IdleThread
      /\ threads = [t \in Threads |-> threads[t]]
  BY <1>1, <1>2, SearchAssumption DEF Scheduled, Threads
<1>4. low \in Nat /\ Share(c) \in Nat
  BY <1>2, <1>3, ShareFacts
<1> HIDE DEF c, low
<1>5. /\ threads'[c] = new /\ \A t \in Threads : t # c => threads'[t] = threads[t]
      /\ threads' = [t \in Threads |-> threads'[t]]
  <2> HIDE DEF new
  <2> QED BY <1>1, <1>3
<1>6. new = [pc |-> "scan", now |-> low, end |-> low + Share(c), line |-> NoLine]
  <2> DEFINE first  == [IdleThread EXCEPT !.pc = "scan"]
             second == [first EXCEPT !.now = low]
  <2>1. first = [pc |-> "scan", now |-> 0, end |-> 0, line |-> NoLine]
    BY DEF IdleThread
  <2>2. new = [second EXCEPT !.end = low + Share(c)]
    BY DEF new
  <2> HIDE DEF first, new
  <2>3. second = [pc |-> "scan", now |-> low, end |-> 0, line |-> NoLine]
    BY <2>1
  <2> HIDE DEF second
  <2> QED BY <2>2, <2>3
<1> HIDE DEF new
<1>7. MappedRows' = MappedRows
  <2> DEFINE from(t) == t * len
             rows(t) == from(t) .. threads[t].now - 1
             next(t) == t * len' .. threads'[t].now - 1
  <2>1. MappedRows = UNION {rows(t) : t \in 0 .. c - 1}
    BY DEF MappedRows, c
  <2>2. MappedRows' = UNION {next(t) : t \in 0 .. c}
    <3>1. created' - 1 = c
      BY <1>1, <1>3 DEF c
    <3> QED BY <3>1 DEF MappedRows
  <2>3. next(c) = {}
    <3>1. threads'[c].now = low /\ c * len' = low
      BY <1>1, <1>5, <1>6 DEF low
    <3> QED BY <1>4, <3>1
  <2>4. \A t \in 0 .. c - 1 : next(t) = rows(t)
    BY <1>1, <1>3, <1>5 DEF Threads
  <2> HIDE DEF next, rows
  <2>5. \A t \in 0 .. c : t = c \/ t \in 0 .. c - 1
    BY <1>3
  <2> QED BY <1>3, <2>1, <2>2, <2>3, <2>4, <2>5
<1>8. Collected'
  BY <1>1, <1>2, <1>7, CollectedKept
<1>9. ASSUME NEW t \in Threads PROVE IF t < created' THEN Scans(t)' ELSE threads'[t] = IdleThread
  <2>1. CASE t = c
    <3>1. threads'[t] \in [pc : {"scan", "lock", "store", "count", "done"},
                           now : Nat, end : Nat, line : Lines \union {NoLine}]
      BY <1>4, <1>5, <1>6, <2>1
    <3>2. /\ threads'[t].now = low /\ threads'[t].end = low + Share(c) /\ threads'[t].pc = "scan"
          /\ t * len' = low /\ Share(t)' = Share(c)
      BY <1>1, <1>5, <1>6, <2>1 DEF low, Share
    <3>3. Scans(t)'
      BY <1>4, <3>1, <3>2 DEF Scans
    <3>4. t < created'
      BY <1>1, <1>3, <2>1 DEF c
    <3> QED BY <3>3, <3>4
  <2>2. CASE t < c
    <3>1. Scans(t) /\ threads'[t] = threads[t] /\ len' = len /\ t < created'
      BY <1>1, <1>2, <1>3, <1>5, <2>2 DEF Scheduled, c, Threads
    <3> QED BY <1>1, <3>1 DEF Scans, Share
  <2>3. CASE t > c
    <3>1. threads[t] = IdleThread /\ threads'[t] = threads[t] /\ ~ (t < created')
      BY <1>1, <1>2, <1>3, <1>5, <2>3 DEF Scheduled, c, Threads
    <3> QED BY <3>1 DEF IdleThread
  <2> QED BY <1>3, <2>1, <2>2, <2>3 DEF Threads
<1>10. \A t \in Threads : mutex = t <=> threads'[t].pc \in {"store", "count"}
  <2>1. \A t \in Threads : mutex = t <=> threads[t].pc \in {"store", "count"}
    BY <1>2 DEF Scheduled
  <2>2. threads[c].pc = "idle" /\ threads'[c].pc = "scan"
    BY <1>3, <1>5, <1>6 DEF IdleThread
  <2> QED BY <1>3, <1>5, <2>1, <2>2
<1>11. Scheduled'
  <2>1. /\ created' \in 0 .. NUM_THREADS /\ (created' < NUM_THREADS <=> child' # "join")
        /\ mutex' \in Threads \union {Free} /\ len' = l' \div NUM_THREADS
    BY <1>1, <1>2, <1>3 DEF Scheduled, c
  <2> QED BY <1>1, <1>5, <1>9, <1>10, <2>1 DEF Scheduled, Threads, IdleThread, Free
<1>12. child' \in Scanning /\ child \in Scanning
  BY <1>1 DEF Scanning
<1> QED BY <1>1, <1>8, <1>11, <1>12, ScanningNext

LEMMA CleanCreateFails ==
  ASSUME file \in Files, CleanInv, CreateFails
  PROVE  CleanInv'
<1>1. /\ child = "create" /\ child' = "failed" /\ threads' = [t \in Threads |-> IdleThread]
      /\ UNCHANGED <<sem_a, sem_b, parent, output>>
  BY DEF CreateFails, parents
<1>2. parent = "wait" /\ sem_a = 0 /\ sem_b = 0 /\ output = <<>>
  BY <1>1, ScanningFacts DEF Scanning
<1>3. Quiet'
  BY <1>1 DEF Quiet, IdleThread, Threads
<1> QED BY <1>1, <1>2, <1>3 DEF CleanInv, Turns, LoadInv, WaitInv, ScanInv, ResultInv, OutputInv, Scanning

\* When all threads are done, all rows are mapped.
LEMMA CleanJoin ==
  ASSUME file \in Files, CleanInv, Join
  PROVE  CleanInv'
<1>1. /\ child = "join" /\ child' = "reduce" /\ \A t \in Threads : threads[t].pc = "done"
      /\ UNCHANGED <<sem_a, sem_b, l, parent, output, file, threads, ans, index>>
  BY DEF Join, parents, work, results
<1>2. /\ Scheduled /\ Collected /\ l \in Nat /\ l \in 0 .. LINE_SIZE /\ l = Len(file)
      /\ parent = "wait" /\ sem_a = 0 /\ sem_b = 0 /\ output = <<>>
  BY <1>1, ScanningFacts DEF Scanning
<1>3. created = NUM_THREADS /\ NUM_THREADS \in Nat \ {0} /\ len = l \div NUM_THREADS
  BY <1>1, <1>2, SearchAssumption DEF Scheduled
<1>4. MappedRows = 0 .. l - 1
  <2>1. MappedRows \subseteq 0 .. l - 1
    BY <1>2, MappedFacts
  <2>2. ASSUME NEW k \in 0 .. l - 1 PROVE k \in MappedRows
    <3>1. PICK t \in Threads : t * len <= k /\ k < t * len + Share(t)
      BY <1>2, <1>3, ShareFacts
    <3>2. t \in 0 .. created - 1 /\ t < created
      BY <1>3 DEF Threads
    <3>3. threads[t].now = t * len + Share(t) /\ t * len \in Nat /\ threads[t].now \in Nat
      BY <1>1, <1>2, <3>2, MappedFacts DEF Scheduled, Scans
    <3>4. k \in t * len .. threads[t].now - 1
      BY <3>1, <3>3
    <3> QED BY <3>2, <3>4 DEF MappedRows
  <2> QED BY <2>1, <2>2
<1>5. Matches(ans, index)
  <2>1. index \in 0 .. LINE_SIZE
    BY <1>2, CollectedFacts, SearchAssumption
  <2>2. ASSUME NEW v \in Matching PROVE Copies(v, ans, index) = InFile(v)
    <3>1. Copies(v, ans, index) = Cardinality({k \in 0 .. l - 1 : file[k + 1] = v})
      BY <1>2, <1>4 DEF Collected, MappedCopies
    <3>2. Cardinality(PositionsOf(v, file, l)) = Cardinality(RowsOf(v, file, l))
      BY <1>2, RowsAndPositions
    <3>3. DOMAIN file = 1 .. l
      BY <1>2, FileFacts
    <3> QED BY <3>1, <3>2, <3>3 DEF PositionsOf, RowsOf, InFile
  <2> QED BY <1>2, <2>1, <2>2 DEF Matches, Collected
<1>6. ResultInv' /\ Quiet'
  <2>1. Matches(ans, index)'
    BY <1>1, <1>5 DEF Matches, Copies, InFile
  <2> QED BY <1>1, <2>1 DEF ResultInv, Quiet, Threads
<1> QED BY <1>1, <1>2, <1>6 DEF CleanInv, Turns, AtWork, LoadInv, WaitInv, ScanInv, OutputInv, Scanning

LEMMA CleanReduce ==
  ASSUME file \in Files, CleanInv, Reduce
  PROVE  CleanInv'
<1>1. /\ child = "reduce" /\ child' = "post" /\ ans' = Sorted(ans, index) /\ l' = index
      /\ data' = [k \in Rows |-> IF k < index THEN ans'[k] ELSE data[k]]
      /\ UNCHANGED <<sem_a, sem_b, parent, output, file, threads>>
  BY DEF Reduce, parents
<1>2. /\ Matches(ans, index) /\ Quiet /\ parent = "wait" /\ sem_a = 0 /\ sem_b = 0 /\ output = <<>>
  BY <1>1 DEF CleanInv, ResultInv, Turns, OutputInv
<1>3. /\ index \in 0 .. LINE_SIZE /\ index \in Nat /\ LINE_SIZE \in Nat
      /\ \A k \in 0 .. index - 1 : ans[k] \in Nat /\ k \in Rows /\ k < index
      /\ \A v \in Matching : v \in Nat
  <2>1. index \in 0 .. LINE_SIZE /\ LINE_SIZE \in Nat /\ Matching \subseteq Nat
    BY <1>2, SearchAssumption DEF Matches
  <2>2. \A k \in 0 .. index - 1 : k \in Rows /\ k < index
    BY <2>1 DEF Rows
  <2>3. \A k \in 0 .. index - 1 : ans[k] \in Nat
    BY <1>2, <2>1 DEF Matches
  <2>4. index \in Nat /\ \A v \in Matching : v \in Nat
    BY <2>1
  <2> QED BY <2>1, <2>2, <2>3, <2>4
<1>4. PICK s : s = Sorted(ans, index)
  OBVIOUS
<1>5. /\ \A k \in 0 .. index - 1 : \E j \in 0 .. index - 1 : s[k] = ans[j]
      /\ \A j, k \in 0 .. index - 1 : j <= k => s[j] <= s[k]
      /\ \A v \in Nat : Copies(v, s, index) = Copies(v, ans, index)
  BY <1>3, <1>4, SortedFacts
<1>6. \A k \in 0 .. index - 1 : data'[k] = s[k]
  BY <1>1, <1>3, <1>4
<1>7. Matches(data', index) /\ InOrder(data', index)
  <2>1. \A v \in Matching : Copies(v, data', index) = InFile(v)
    <3>1. \A v \in Matching : Copies(v, s, index) = InFile(v)
      BY <1>2, <1>3, <1>5 DEF Matches
    <3> QED BY <1>6, <3>1 DEF Copies
  <2>2. \A k \in 0 .. index - 1 : data'[k] \in Matching
    BY <1>2, <1>5, <1>6 DEF Matches
  <2>3. InOrder(data', index)
    BY <1>5, <1>6 DEF InOrder
  <2> QED BY <1>3, <2>1, <2>2, <2>3 DEF Matches
<1>8. ResultInv' /\ Quiet'
  <2>1. Matches(data, l)' /\ InOrder(data, l)'
    BY <1>1, <1>7 DEF Matches, InOrder, Copies, InFile
  <2> QED BY <1>1, <1>2, <2>1 DEF ResultInv, Quiet, Threads, Scanning
<1> QED BY <1>1, <1>2, <1>8 DEF CleanInv, Turns, AtWork, LoadInv, WaitInv, ScanInv, OutputInv, Scanning

LEMMA CleanPostReduced ==
  ASSUME file \in Files, CleanInv, PostReduced
  PROVE  CleanInv'
<1>1. /\ child = "post" /\ child' = "exited" /\ sem_b' = sem_b + 1
      /\ UNCHANGED <<sem_a, data, l, parent, output, file, threads>>
  BY DEF PostReduced, PostB, segment, parents, work
<1>2. parent = "wait" /\ sem_a = 0 /\ sem_b = 0 /\ output = <<>>
  BY <1>1 DEF CleanInv, Turns, AtWork, OutputInv
<1>3. Matches(data, l) /\ InOrder(data, l) /\ Quiet
  BY <1>1, <1>2 DEF CleanInv, ResultInv
<1>4. ResultInv' /\ Quiet'
  <2>1. Matches(data, l)' /\ InOrder(data, l)'
    BY <1>1, <1>3 DEF Matches, InOrder, Copies, InFile
  <2> QED BY <1>1, <1>3, <2>1 DEF ResultInv, Quiet, Threads, Scanning
<1> QED BY <1>1, <1>2, <1>4 DEF CleanInv, Turns, AtWork, LoadInv, WaitInv, ScanInv, OutputInv, Scanning

-----------------------------------------------------------------------------
(* The steps of the threads.                                               *)

\* One thread moves, and the others keep what they hold.
LEMMA ScheduledStep ==
  ASSUME Scheduled, NEW t \in Threads, t < created, NEW r,
         UNCHANGED <<created, len, l, file, child>>,
         threads' = [threads EXCEPT ![t] = r], Scans(t)',
         mutex' \in Threads \union {Free},
         mutex' = t <=> r.pc \in {"store", "count"},
         \A s \in Threads : s # t => (mutex' = s <=> mutex = s),
         \A s \in Threads : s # t /\ threads[s].pc = "count" => ans'[index'] = ans[index]
  PROVE  Scheduled'
<1>1. /\ threads'[t] = r /\ \A s \in Threads : s # t => threads'[s] = threads[s]
      /\ threads' = [s \in Threads |-> threads'[s]]
  BY DEF Scheduled
<1>2. ASSUME NEW s \in Threads PROVE IF s < created' THEN Scans(s)' ELSE threads'[s] = IdleThread
  <2>1. CASE s = t
    BY <2>1
  <2>2. CASE s # t /\ s < created
    <3>1. Scans(s) /\ threads'[s] = threads[s]
      BY <1>1, <2>2 DEF Scheduled
    <3> QED BY <2>2, <3>1 DEF Scans, Share
  <2>3. CASE s # t /\ ~ (s < created)
    BY <1>1, <2>3 DEF Scheduled
  <2> QED BY <2>1, <2>2, <2>3
<1>3. \A s \in Threads : mutex' = s <=> threads'[s].pc \in {"store", "count"}
  BY <1>1 DEF Scheduled
<1> QED BY <1>1, <1>2, <1>3 DEF Scheduled, Threads, IdleThread, Free

LEMMA CleanMap ==
  ASSUME file \in Files, CleanInv, NEW t \in Threads, map(t)
  PROVE  CleanInv'
<1> DEFINE r == threads[t]
<1>1. /\ UNCHANGED <<sem_a, sem_b, data, l, file, parent, cnt, output, child, created, len>>
      /\ r.pc \in {"scan", "lock", "store", "count"}
  BY DEF map, Scan, Lock, Store, CountAndUnlock, Return, mapUnchanged, segment, parents
<1>2. child \in Scanning
  BY <1>1 DEF CleanInv, Quiet
<1>3. /\ Scheduled /\ Collected /\ l \in Nat /\ l \in 0 .. LINE_SIZE /\ LINE_SIZE \in Nat
      /\ \A k \in 0 .. l - 1 : data[k] = file[k + 1] /\ file[k + 1] \in Lines
  BY <1>2, ScanningFacts, SearchAssumption
<1>4. t < created /\ t \in 0 .. created - 1 /\ created \in Nat
  <2>1. r # IdleThread
    BY <1>1 DEF IdleThread
  <2> QED BY <1>3, <2>1, SearchAssumption DEF Scheduled, Threads
<1>5. /\ r \in [pc : {"scan", "lock", "store", "count", "done"},
                now : Nat, end : Nat, line : Lines \union {NoLine}]
      /\ t * len <= r.now /\ r.now <= r.end /\ r.end = t * len + Share(t)
      /\ r.pc \in {"lock", "store", "count"} =>
           r.now < r.end /\ r.line = file[r.now + 1] /\ r.line \in Matching
      /\ r.pc = "count" => ans[index] = r.line
  BY <1>3, <1>4 DEF Scheduled, Scans
<1>6. /\ MappedRows \in SUBSET (0 .. l - 1) /\ IsFiniteSet(MappedRows) /\ t * len \in Nat
      /\ r.now < r.end => r.now \in 0 .. l - 1 /\ r.now \notin MappedRows
  BY <1>3, <1>4, MappedFacts
<1>7. /\ MatchedRows = FileMatches(file, MappedRows)
      /\ \A v : MappedCopies(v) = Cardinality(FileCopies(v, file, MappedRows))
      /\ index \in 0 .. l /\ index \in Nat
  BY <1>3, CollectedFacts
<1>8. r.now < r.end =>
        /\ Cardinality(FileMatches(file, MappedRows \union {r.now}))
             = index + (IF file[r.now + 1] \in Matching THEN 1 ELSE 0)
        /\ \A v : Cardinality(FileCopies(v, file, MappedRows \union {r.now}))
                    = MappedCopies(v) + (IF file[r.now + 1] = v THEN 1 ELSE 0)
        /\ \A v : MappedCopies(v) \in Nat
  <2> SUFFICES ASSUME r.now < r.end
               PROVE  /\ Cardinality(FileMatches(file, MappedRows \union {r.now}))
                           = index + (IF file[r.now + 1] \in Matching THEN 1 ELSE 0)
                      /\ \A v : Cardinality(FileCopies(v, file, MappedRows \union {r.now}))
                                  = MappedCopies(v) + (IF file[r.now + 1] = v THEN 1 ELSE 0)
                      /\ \A v : MappedCopies(v) \in Nat
    OBVIOUS
  <2> DEFINE e == r.now
             S == MappedRows
  <2>1. IsFiniteSet(S) /\ e \notin S
    BY <1>6
  <2> HIDE DEF r, e, S
  <2>6. Cardinality(FileMatches(file, S \union {e}))
          = Cardinality(FileMatches(file, S)) + (IF file[e + 1] \in Matching THEN 1 ELSE 0)
    BY <2>1, MatchesAdded
  <2>2. ASSUME NEW v
        PROVE  /\ Cardinality(FileCopies(v, file, S)) \in Nat
               /\ Cardinality(FileCopies(v, file, S \union {e}))
                    = Cardinality(FileCopies(v, file, S)) + (IF file[e + 1] = v THEN 1 ELSE 0)
    <3>1. Cardinality(FileCopies(v, file, S)) \in Nat
      BY <2>1, CopiesCounted
    <3>2. Cardinality(FileCopies(v, file, S \union {e}))
            = Cardinality(FileCopies(v, file, S)) + (IF file[e + 1] = v THEN 1 ELSE 0)
      BY <2>1, CopiesAdded
    <3> QED BY <3>1, <3>2
  <2>3. index = Cardinality(FileMatches(file, S))
    BY <1>3, <1>7 DEF Collected, S
  <2>4. \A v : MappedCopies(v) = Cardinality(FileCopies(v, file, S))
    BY <1>7 DEF S
  <2>5. /\ Cardinality(FileMatches(file, S \union {e}))
             = index + (IF file[e + 1] \in Matching THEN 1 ELSE 0)
        /\ \A v : Cardinality(FileCopies(v, file, S \union {e}))
                    = MappedCopies(v) + (IF file[e + 1] = v THEN 1 ELSE 0)
        /\ \A v : MappedCopies(v) \in Nat
    BY <2>2, <2>3, <2>4, <2>6
  <2> QED BY <2>5 DEF e, S
<1>9. /\ mutex \in Threads \union {Free} /\ ~ (Free \in Threads)
      /\ \A s \in Threads : mutex = s <=> threads[s].pc \in {"store", "count"}
  BY <1>3, SearchAssumption DEF Scheduled, Free, Threads
<1>10. ASSUME NEW q, threads' = [threads EXCEPT ![t] = q]
       PROVE  /\ threads'[t] = q /\ \A s \in Threads : s # t => threads'[s] = threads[s]
              /\ q.now = r.now => MappedRows' = MappedRows
              /\ q.now = r.now + 1 => MappedRows' = MappedRows \union {r.now}
  <2>1. threads'[t] = q /\ \A s \in Threads : s # t => threads'[s] = threads[s]
    BY <1>3, <1>10 DEF Scheduled
  <2>2. \A s \in 0 .. created - 1 : s \in Threads
    BY <1>3, MappedFacts
  <2>3. q.now = r.now => MappedRows' = MappedRows
    BY <1>1, <2>1, <2>2, MappedKept
  <2>4. q.now = r.now + 1 => MappedRows' = MappedRows \union {r.now}
    BY <1>1, <1>4, <1>5, <1>6, <2>1, <2>2, MappedAdded
  <2> QED BY <2>1, <2>3, <2>4
<1> HIDE DEF r
<1>11. CASE Scan(t)
  <2>1. r.pc = "scan" /\ r.now < r.end /\ UNCHANGED <<mutex, ans, index>>
    BY <1>11 DEF Scan, results, r
  <2>2. data[r.now] = file[r.now + 1] /\ file[r.now + 1] \in Lines
    BY <1>3, <1>6, <2>1
  <2>3. CASE data[r.now] \in Matching
    <3> DEFINE q == [r EXCEPT !.pc = "lock", !.line = data[r.now]]
    <3>1. threads' = [threads EXCEPT ![t] = q]
      BY <1>11, <2>3 DEF Scan, r
    <3>2. /\ q.pc = "lock" /\ q.now = r.now /\ q.end = r.end /\ q.line = file[r.now + 1]
          /\ q \in [pc : {"scan", "lock", "store", "count", "done"},
                    now : Nat, end : Nat, line : Lines \union {NoLine}]
      BY <1>5, <2>2
    <3> HIDE DEF q
    <3>3. threads'[t] = q /\ MappedRows' = MappedRows
      BY <1>10, <3>1, <3>2
    <3>4. Scans(t)'
      BY <1>1, <1>5, <2>1, <2>2, <2>3, <3>2, <3>3 DEF Scans, Share
    <3>5. Scheduled'
      <4>1. ~ (mutex = t)
        BY <1>9, <2>1 DEF r
      <4> QED BY <1>1, <1>3, <1>4, <1>9, <2>1, <3>1, <3>2, <3>4, <4>1, ScheduledStep
    <3>6. Collected'
      BY <1>1, <1>3, <2>1, <3>3, CollectedKept
    <3> QED BY <1>1, <1>2, <3>5, <3>6, ScanningNext
  <2>4. CASE data[r.now] \notin Matching
    <3> DEFINE q == [r EXCEPT !.now = r.now + 1]
    <3>1. threads' = [threads EXCEPT ![t] = q]
      BY <1>11, <2>4 DEF Scan, r
    <3>2. /\ q.pc = "scan" /\ q.now = r.now + 1 /\ q.end = r.end
          /\ q \in [pc : {"scan", "lock", "store", "count", "done"},
                    now : Nat, end : Nat, line : Lines \union {NoLine}]
      BY <1>5, <2>1
    <3> HIDE DEF q
    <3>3. threads'[t] = q /\ MappedRows' = MappedRows \union {r.now}
      BY <1>10, <3>1, <3>2
    <3>4. Scans(t)'
      BY <1>1, <1>5, <1>6, <2>1, <3>2, <3>3 DEF Scans, Share
    <3>5. Scheduled'
      <4>1. ~ (mutex = t)
        BY <1>9, <2>1 DEF r
      <4> QED BY <1>1, <1>3, <1>4, <1>9, <2>1, <3>1, <3>2, <3>4, <4>1, ScheduledStep
    <3>6. Collected'
      <4>1. MatchedRows' = FileMatches(file, MappedRows \union {r.now})
        BY <1>1, <3>3 DEF MatchedRows, FileMatches
      <4>2. \A v : MappedCopies(v)' = Cardinality(FileCopies(v, file, MappedRows \union {r.now}))
        BY <1>1, <3>3 DEF MappedCopies, FileCopies
      <4>3. index' = Cardinality(MatchedRows')
        BY <1>7, <1>8, <2>1, <2>2, <2>4, <4>1
      <4>4. ASSUME NEW v \in Matching PROVE MappedCopies(v)' = MappedCopies(v)
        <5>1. file[r.now + 1] # v
          BY <2>2, <2>4
        <5>2. /\ Cardinality(FileCopies(v, file, MappedRows \union {r.now}))
                   = MappedCopies(v) + (IF file[r.now + 1] = v THEN 1 ELSE 0)
              /\ MappedCopies(v) \in Nat
          BY <1>8, <2>1
        <5> QED BY <4>2, <5>1, <5>2
      <4> QED BY <1>3, <2>1, <4>3, <4>4 DEF Collected, Copies, Rows
    <3> QED BY <1>1, <1>2, <3>5, <3>6, ScanningNext
  <2> QED BY <2>3, <2>4
<1>12. CASE Return(t)
  <2> DEFINE q == [r EXCEPT !.pc = "done"]
  <2>1. /\ r.pc = "scan" /\ r.now >= r.end /\ threads' = [threads EXCEPT ![t] = q]
        /\ UNCHANGED <<mutex, ans, index>>
    BY <1>12 DEF Return, results, r
  <2>2. /\ q.pc = "done" /\ q.now = r.now /\ q.end = r.end
        /\ q \in [pc : {"scan", "lock", "store", "count", "done"},
                  now : Nat, end : Nat, line : Lines \union {NoLine}]
    BY <1>5
  <2> HIDE DEF q
  <2>3. threads'[t] = q /\ MappedRows' = MappedRows
    BY <1>10, <2>1, <2>2
  <2>4. Scans(t)'
    BY <1>1, <1>5, <2>1, <2>2, <2>3 DEF Scans, Share
  <2>5. Scheduled'
    <3>1. ~ (mutex = t)
      BY <1>9, <2>1 DEF r
    <3> QED BY <1>1, <1>3, <1>4, <1>9, <2>1, <2>2, <2>4, <3>1, ScheduledStep
  <2>6. Collected'
    BY <1>1, <1>3, <2>1, <2>3, CollectedKept
  <2> QED BY <1>1, <1>2, <2>5, <2>6, ScanningNext
<1>13. CASE Lock(t)
  <2> DEFINE q == [r EXCEPT !.pc = "store"]
  <2>1. /\ r.pc = "lock" /\ mutex = Free /\ mutex' = t /\ threads' = [threads EXCEPT ![t] = q]
        /\ UNCHANGED <<ans, index>>
    BY <1>13 DEF Lock, MutexFree, results, r
  <2>2. /\ q.pc = "store" /\ q.now = r.now /\ q.end = r.end /\ q.line = r.line
        /\ q \in [pc : {"scan", "lock", "store", "count", "done"},
                  now : Nat, end : Nat, line : Lines \union {NoLine}]
    BY <1>5
  <2> HIDE DEF q
  <2>3. threads'[t] = q /\ MappedRows' = MappedRows
    BY <1>10, <2>1, <2>2
  <2>4. Scans(t)'
    BY <1>1, <1>5, <2>1, <2>2, <2>3 DEF Scans, Share
  <2>5. Scheduled'
    BY <1>1, <1>3, <1>4, <1>9, <2>1, <2>2, <2>4, ScheduledStep
  <2>6. Collected'
    BY <1>1, <1>3, <2>1, <2>3, CollectedKept
  <2> QED BY <1>1, <1>2, <2>5, <2>6, ScanningNext
<1>14. CASE Store(t)
  <2> DEFINE q == [r EXCEPT !.pc = "count"]
  <2>1. /\ r.pc = "store" /\ ans' = [ans EXCEPT ![index] = r.line]
        /\ threads' = [threads EXCEPT ![t] = q] /\ UNCHANGED <<mutex, index>>
    BY <1>14 DEF Store, r
  <2>2. /\ q.pc = "count" /\ q.now = r.now /\ q.end = r.end /\ q.line = r.line
        /\ q \in [pc : {"scan", "lock", "store", "count", "done"},
                  now : Nat, end : Nat, line : Lines \union {NoLine}]
    BY <1>5
  <2> HIDE DEF q
  <2>3. threads'[t] = q /\ MappedRows' = MappedRows
    BY <1>10, <2>1, <2>2
  <2>4. index \in Rows
    <3> DEFINE S == FileMatches(file, MappedRows \union {r.now})
    <3>1. S \in SUBSET (0 .. l - 1) /\ r.now < r.end /\ file[r.now + 1] \in Matching
      BY <1>5, <1>6, <2>1 DEF FileMatches
    <3>2. Cardinality(S) = index + 1
      BY <1>8, <3>1
    <3> HIDE DEF S
    <3>3. IsFiniteSet(0 .. l - 1) /\ Cardinality(0 .. l - 1) = l
      <4>1. PICK n \in Nat : n = l
        BY <1>3
      <4>2. IsFiniteSet(0 .. n - 1) /\ Cardinality(0 .. n - 1) = n
        BY FS_Interval
      <4> QED BY <4>1, <4>2
    <3>4. Cardinality(S) <= l
      BY <3>1, <3>3, FS_Subset
    <3> QED BY <1>3, <1>7, <3>2, <3>4 DEF Rows
  <2>5. /\ ans' = [k \in Rows |-> ans'[k]] /\ ans'[index] = r.line
        /\ \A k \in 0 .. index - 1 : ans'[k] = ans[k]
    <3>1. ans = [k \in Rows |-> ans[k]]
      BY <1>3 DEF Collected
    <3>2. \A k \in 0 .. index - 1 : k \in Rows /\ k # index
      BY <1>3, <1>7 DEF Rows
    <3> QED BY <2>1, <2>4, <3>1, <3>2
  <2>6. Scans(t)'
    BY <1>1, <1>5, <2>1, <2>2, <2>3, <2>5 DEF Scans, Share
  <2>7. mutex = t /\ \A s \in Threads : s # t => threads[s].pc # "count"
    BY <1>9, <2>1 DEF r
  <2>8. Scheduled'
    BY <1>1, <1>3, <1>4, <1>9, <2>1, <2>2, <2>6, <2>7, ScheduledStep
  <2>9. Collected'
    <3>1. MatchedRows' = MatchedRows /\ \A v : MappedCopies(v)' = MappedCopies(v)
      BY <1>1, <2>3 DEF MatchedRows, MappedCopies
    <3>2. \A v : Copies(v, ans', index) = Copies(v, ans, index)
      BY <2>5 DEF Copies
    <3> QED BY <1>3, <2>1, <2>5, <3>1, <3>2 DEF Collected, Copies, Rows
  <2> QED BY <1>1, <1>2, <2>8, <2>9, ScanningNext
<1>15. CASE CountAndUnlock(t)
  <2> DEFINE q == [r EXCEPT !.pc = "scan", !.now = r.now + 1]
  <2>1. /\ r.pc = "count" /\ index' = index + 1 /\ mutex' = Free
        /\ threads' = [threads EXCEPT ![t] = q] /\ ans' = ans
    BY <1>15 DEF CountAndUnlock, NextRow, r
  <2>2. /\ q.pc = "scan" /\ q.now = r.now + 1 /\ q.end = r.end
        /\ q \in [pc : {"scan", "lock", "store", "count", "done"},
                  now : Nat, end : Nat, line : Lines \union {NoLine}]
    <3> DEFINE first == [r EXCEPT !.pc = "scan"]
    <3>1. /\ first.pc = "scan" /\ first.now = r.now /\ first.end = r.end
          /\ first \in [pc : {"scan", "lock", "store", "count", "done"},
                        now : Nat, end : Nat, line : Lines \union {NoLine}]
      BY <1>5
    <3>2. q = [first EXCEPT !.now = r.now + 1]
      BY DEF q
    <3>3. r.now + 1 \in Nat
      BY <1>5
    <3> HIDE DEF first, q
    <3> QED BY <3>1, <3>2, <3>3
  <2> HIDE DEF q
  <2>3. threads'[t] = q /\ MappedRows' = MappedRows \union {r.now}
    BY <1>10, <2>1, <2>2
  <2>4. r.now < r.end /\ r.line = file[r.now + 1] /\ r.line \in Matching /\ ans[index] = r.line
    BY <1>5, <2>1
  <2>5. Scans(t)'
    BY <1>1, <1>5, <1>6, <2>2, <2>3, <2>4 DEF Scans, Share
  <2>6. mutex = t /\ \A s \in Threads : s # t => threads[s].pc # "count"
    BY <1>9, <2>1 DEF r
  <2>7. Scheduled'
    BY <1>1, <1>3, <1>4, <1>9, <2>1, <2>2, <2>5, <2>6, ScheduledStep
  <2>8. Collected'
    <3>1. MatchedRows' = FileMatches(file, MappedRows \union {r.now})
      BY <1>1, <2>3 DEF MatchedRows, FileMatches
    <3>2. \A v : MappedCopies(v)' = Cardinality(FileCopies(v, file, MappedRows \union {r.now}))
      BY <1>1, <2>3 DEF MappedCopies, FileCopies
    <3>3. index' = Cardinality(MatchedRows')
      BY <1>8, <2>1, <2>4, <3>1
    <3>4. ASSUME NEW v \in Matching PROVE Copies(v, ans, index + 1) = MappedCopies(v)'
      <4>1. Copies(v, ans, index + 1) = Copies(v, ans, index) + (IF ans[index] = v THEN 1 ELSE 0)
        BY <1>7, CopiesFacts
      <4>2. Copies(v, ans, index) = MappedCopies(v)
        BY <1>3 DEF Collected
      <4> QED BY <1>8, <2>4, <3>2, <4>1, <4>2
    <3>5. ASSUME NEW k \in 0 .. index' - 1 PROVE ans[k] \in Matching
      <4>1. k = index \/ k \in 0 .. index - 1
        BY <1>7, <2>1
      <4> QED BY <1>3, <2>4, <4>1 DEF Collected
    <3> QED BY <1>3, <2>1, <3>3, <3>4, <3>5 DEF Collected, Copies, Rows
  <2> QED BY <1>1, <1>2, <2>7, <2>8, ScanningNext
<1> QED BY <1>11, <1>12, <1>13, <1>14, <1>15 DEF map

-----------------------------------------------------------------------------
(* The invariant holds in every run.                                       *)

LEMMA RunInvChild == RunInv /\ (ChildStep \/ CreateFails) => RunInv'
<1> SUFFICES ASSUME RunInv, ChildStep \/ CreateFails PROVE RunInv'
  OBVIOUS
<1>1. file' = file /\ clean' = clean /\ file \in Files
  BY DEF RunInv, ChildStep, WaitForLines, Divide, CreateThread, Join, Reduce, PostReduced,
         CreateFails, parents
<1>2. data' = [k \in Rows |-> data'[k]]
  <2>1. data = [k \in Rows |-> data[k]]
    BY DEF RunInv
  <2>2. CASE Join
    BY <2>2 DEF Join, NoLines
  <2>3. CASE Reduce
    BY <2>3 DEF Reduce
  <2>4. CASE WaitForLines \/ Divide \/ CreateThread \/ PostReduced \/ CreateFails
    BY <2>1, <2>4 DEF WaitForLines, Divide, CreateThread, PostReduced, CreateFails, segment
  <2> QED BY <2>2, <2>3, <2>4 DEF ChildStep
<1>3. ASSUME CleanInv PROVE CleanInv'
  BY <1>1, <1>3, CleanWaitForLines, CleanDivide, CleanCreateThread, CleanJoin, CleanReduce,
     CleanPostReduced, CleanCreateFails DEF ChildStep
<1> QED BY <1>1, <1>2, <1>3 DEF RunInv, Rows

LEMMA RunInvMap ==
  ASSUME RunInv, NEW t \in Threads, map(t)
  PROVE  RunInv'
<1>1. UNCHANGED <<file, clean, data>> /\ file \in Files /\ data = [k \in Rows |-> data[k]]
  BY DEF RunInv, map, Scan, Lock, Store, CountAndUnlock, Return, mapUnchanged, parents, segment
<1>2. ASSUME CleanInv PROVE CleanInv'
  BY <1>1, <1>2, CleanMap
<1> QED BY <1>1, <1>2 DEF RunInv, Rows

LEMMA RunInvKill == RunInv /\ Kill => RunInv'
<1> SUFFICES ASSUME RunInv, Kill PROVE RunInv'
  OBVIOUS
<1>1. /\ UNCHANGED <<file, clean, data>> /\ parent' = "killed" /\ child' = "killed"
      /\ threads' = [t \in Threads |-> IdleThread]
  BY DEF Kill, segment
<1>2. Quiet'
  BY <1>1 DEF Quiet, IdleThread, Threads
<1>3. CleanInv'
  BY <1>1, <1>2 DEF CleanInv, Turns, LoadInv, WaitInv, ScanInv, ResultInv, OutputInv, Scanning
<1> QED BY <1>1, <1>3 DEF RunInv, Rows

LEMMA RunInvStutter == RunInv /\ UNCHANGED vars => RunInv'
<1> SUFFICES ASSUME RunInv, UNCHANGED vars PROVE RunInv'
  OBVIOUS
<1>1. UNCHANGED <<sem_a, sem_b, data, l, file, parent, cnt, output, child, created, len,
                  threads, mutex, ans, index, clean>>
  BY DEF vars, segment, parents, childs, work, results
<1>2. ASSUME CleanInv PROVE CleanInv'
  <2>1. Turns' /\ LoadInv' /\ WaitInv' /\ Quiet'
    BY <1>1, <1>2 DEF CleanInv, Turns, LoadInv, WaitInv, Quiet, NoLines, Rows, Threads, IdleThread, Free
  <2>2. ScanInv'
    <3>1. Scheduled => Scheduled'
      BY <1>1 DEF Scheduled, Scans, Share, Threads, IdleThread, Free
    <3>2. MappedRows' = MappedRows
      BY <1>1 DEF MappedRows
    <3>3. Collected => Collected'
      BY <1>1, <3>2, CollectedKept
    <3> QED BY <1>1, <1>2, <3>1, <3>3 DEF CleanInv, ScanInv
  <2>3. ResultInv'
    <3>1. ResultInv
      BY <1>2 DEF CleanInv
    <3>2. /\ Matches(ans, index) => Matches(ans, index)'
          /\ Matches(data, l) => Matches(data, l)'
          /\ InOrder(data, l) => InOrder(data, l)'
      BY <1>1 DEF Matches, InOrder, Copies, InFile
    <3> QED BY <1>1, <3>1, <3>2 DEF ResultInv
  <2>4. OutputInv'
    <3>1. OutputInv
      BY <1>2 DEF CleanInv
    <3>2. RightOutput => RightOutput'
      BY <1>1 DEF RightOutput
    <3> QED BY <1>1, <3>1, <3>2 DEF OutputInv
  <2> QED BY <2>1, <2>2, <2>3, <2>4 DEF CleanInv
<1> QED BY <1>1, <1>2 DEF RunInv, Rows

LEMMA RunInvStep == RunInv /\ [Next]_vars => RunInv'
<1> SUFFICES ASSUME RunInv, [Next]_vars PROVE RunInv'
  OBVIOUS
<1>1. ASSUME NEW t \in Threads, map(t) PROVE RunInv'
  BY <1>1, RunInvMap
<1> QED BY <1>1, RunInvParent, RunInvChild, RunInvKill, RunInvStart, RunInvStutter DEF Next

\* While the threads scan, every matching line of the rows that they are done
\* with is in the results, as often as it is in those rows: no two threads write
\* the same place of ans, and none moves its row on before it has counted it.
THEOREM NoMatchIsLost == Spec => []NoMatchLost
<1>1. RunInv => NoMatchLost
  BY DEF RunInv, CleanInv, ScanInv, Collected, MappedCopies, NoMatchLost, Scanning
<1> QED BY RunInvInit, RunInvStep, <1>1, PTL DEF Spec

\* A run that found the semaphores at 0 and got to its end has printed the
\* matching lines of its file, each as often as it is there, in order, for every
\* number of threads, every file that fits, and whatever is left in the segment.
THEOREM CleanRunsAreRight == Spec => []CleanRunsRight
<1>1. RunInv => CleanRunsRight
  BY DEF RunInv, CleanInv, OutputInv, CleanRunsRight
<1> QED BY RunInvInit, RunInvStep, <1>1, PTL DEF Spec

=============================================================================
