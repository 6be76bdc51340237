---------------------------- MODULE SudokuProofs ----------------------------
(***************************************************************************)
(* Proofs about Sudoku for puzzles of every size: that N cells with N      *)
(* digits and no repetition hold every digit, and that whatever order the  *)
(* threads run in, the flag tells at the end whether one has met a fault.  *)
(***************************************************************************)
EXTENDS Sudoku, FiniteSetTheorems, TLAPS

-----------------------------------------------------------------------------
(* Lookups.                                                                *)

LEMMA ConstantFacts == N \in Nat /\ N > 0 /\ SUBGRID_SIZE \in Nat
BY SudokuAssumption

\* The order in which main() creates the threads.
LEMMA NthThread ==
  ASSUME NEW n \in 0 .. N + 1
  PROVE  Nth(n) = IF n < 2 THEN n + N ELSE n - 2
<1> USE ConstantFacts
<1> DEFINE q == (n + N) \div (N + 2)
           r == (n + N) % (N + 2)
<1>1. q \in Int /\ r \in 0 .. N + 1 /\ n + N = (N + 2) * q + r
  OBVIOUS
<1>2. ASSUME q \in Int, r \in 0 .. N + 1, n + N = (N + 2) * q + r
      PROVE  q = IF n < 2 THEN 0 ELSE 1
  <2> HIDE DEF q, r
  <2>1. q >= 0
    <3> SUFFICES ASSUME q <= -1 PROVE FALSE
      BY <1>2
    <3>1. (N + 2) * q <= -(N + 2)
      BY <1>2
    <3> QED BY <3>1, <1>2
  <2>2. q <= 1
    <3> SUFFICES ASSUME q >= 2 PROVE FALSE
      BY <1>2
    <3>1. (N + 2) * q >= 2 * (N + 2)
      BY <1>2
    <3> QED BY <3>1, <1>2
  <2>3. q = 0 \/ q = 1
    BY <2>1, <2>2, <1>2
  <2> QED BY <2>3, <1>2
<1> HIDE DEF q
<1>3. r = IF n < 2 THEN n + N ELSE n - 2
  <2> HIDE DEF r
  <2> QED BY <1>1, <1>2
<1> QED BY <1>3 DEF Nth

LEMMA NthDistinct ==
  /\ \A n \in 0 .. N + 1 : Nth(n) \in Threads
  /\ \A m, n \in 0 .. N + 1 : Nth(m) = Nth(n) => m = n
BY NthThread, ConstantFacts DEF Threads

-----------------------------------------------------------------------------
(* The test of a group.                                                    *)

LEMMA GroupSizes ==
  /\ IsFiniteSet(Index) /\ Cardinality(Index) = N
  /\ IsFiniteSet(1 .. N) /\ Cardinality(1 .. N) = N
<1> USE ConstantFacts
<1>1. 0 \in Int /\ 1 \in Int /\ N \in Int /\ N - 1 \in Int
  OBVIOUS
<1>2. /\ IsFiniteSet(0 .. N - 1)
      /\ Cardinality(0 .. N - 1) = IF 0 > N - 1 THEN 0 ELSE (N - 1) - 0 + 1
  BY <1>1, FS_Interval
<1>3. /\ IsFiniteSet(1 .. N)
      /\ Cardinality(1 .. N) = IF 1 > N THEN 0 ELSE N - 1 + 1
  BY <1>1, FS_Interval
<1> QED BY <1>2, <1>3 DEF Index

\* N digits of which none is rejected are all of 1 .. N, and the other way round.
LEMMA RejectedIsIncomplete ==
  ASSUME NEW cells, cells = [m \in Index |-> cells[m]]
  PROVE  Rejected(cells) <=> ~ Complete(cells)
<1> USE ConstantFacts
<1>1. /\ IsFiniteSet(Index) /\ Cardinality(Index) = N
      /\ IsFiniteSet(1 .. N) /\ Cardinality(1 .. N) = N
  BY GroupSizes
<1>2. ~ Rejected(cells) <=> cells \in Injection(Index, 1 .. N)
  <2>1. ASSUME ~ Rejected(cells) PROVE cells \in Injection(Index, 1 .. N)
    <3>1. cells \in [Index -> 1 .. N]
      BY <2>1 DEF Rejected
    <3>2. ASSUME NEW a \in Index, NEW b \in Index, cells[a] = cells[b] PROVE a = b
      <4>1. ~ (a < b)
        BY <2>1, <3>2 DEF Rejected, Index
      <4>2. ~ (b < a)
        BY <2>1, <3>2 DEF Rejected, Index
      <4> QED BY <4>1, <4>2 DEF Index
    <3> QED BY <3>1, <3>2 DEF Injection, IsInjective
  <2>2. ASSUME cells \in Injection(Index, 1 .. N) PROVE ~ Rejected(cells)
    <3>1. /\ \A m \in Index : cells[m] \in 1 .. N
          /\ \A a, b \in Index : cells[a] = cells[b] => a = b
      BY <2>2 DEF Injection, IsInjective
    <3>2. \A m \in Index : \A k \in 0 .. m - 1 : k \in Index /\ k # m
      BY DEF Index
    <3> QED BY <3>1, <3>2 DEF Rejected
  <2> QED BY <2>1, <2>2
<1>3. Complete(cells) <=> cells \in Surjection(Index, 1 .. N)
  <2>1. ASSUME Complete(cells) PROVE cells \in Surjection(Index, 1 .. N)
    <3>1. cells \in [Index -> 1 .. N]
      BY <2>1 DEF Complete
    <3> QED BY <2>1, <3>1 DEF Complete, Surjection
  <2>2. ASSUME cells \in Surjection(Index, 1 .. N) PROVE Complete(cells)
    BY <2>2 DEF Complete, Surjection
  <2> QED BY <2>1, <2>2
<1>4. cells \in Injection(Index, 1 .. N) => cells \in Surjection(Index, 1 .. N)
  BY <1>1, FS_Injection
<1>5. cells \in Surjection(Index, 1 .. N) => cells \in Injection(Index, 1 .. N)
  BY <1>1, FS_Surjection
<1> QED BY <1>2, <1>3, <1>4, <1>5

-----------------------------------------------------------------------------
(* The inductive invariant.                                                *)

\* what thread t looks at in turn k
GroupAt(t, k) ==
  IF t < N THEN Subgrid(t) ELSE IF ChecksRows(t) THEN Row(k) ELSE Column(k)

Types ==
  /\ created \in 0 .. N + 2
  /\ pc \in [Threads -> {"none", "check", "exited"}]
  /\ i \in [Threads -> Nat]
  /\ result \in {0, 1}
  /\ results \in [Threads -> {0, 1}]
  /\ verdict \in {"none", "valid", "not valid"}

\* thread t has ended because of a fault
HasRejected(t) == pc[t] = "exited" /\ i[t] < Groups(t)

Inv ==
  /\ Types
  /\ \A t \in Threads :
       /\ i[t] <= Groups(t)
       /\ \A k \in 0 .. i[t] - 1 : ~ Rejected(GroupAt(t, k))
       /\ HasRejected(t) => Rejected(GroupAt(t, i[t]))
       /\ results[t] = 1 <=> pc[t] = "exited" /\ i[t] = Groups(t)
  /\ result = 0 <=> \E t \in Threads : HasRejected(t)
  /\ \A n \in created .. N + 1 : pc[Nth(n)] = "none"
  /\ verdict # "none" =>
       /\ created = N + 2
       /\ \A t \in Threads : pc[t] = "exited"
       /\ verdict = "valid" <=> result = 1

LEMMA InvInit == Init => Inv
<1> SUFFICES ASSUME Init PROVE Inv
  OBVIOUS
<1> USE ConstantFacts, NthDistinct DEF Init
<1>1. Types
  BY DEF Types
<1>2. \A t \in Threads :
        /\ i[t] = 0 /\ Groups(t) \in Nat /\ Groups(t) > 0
        /\ pc[t] = "none" /\ results[t] = 0
  BY DEF Groups
<1>3. \A t \in Threads : ~ HasRejected(t)
  BY <1>2 DEF HasRejected
<1>4. \A n \in created .. N + 1 : pc[Nth(n)] = "none"
  BY <1>2
<1> QED BY <1>1, <1>2, <1>3, <1>4 DEF Inv

-----------------------------------------------------------------------------
(* The steps.                                                              *)

\* A thread runs only before the verdict, and only if it was created.
LEMMA RunningThread ==
  ASSUME Inv, NEW t \in Threads, pc[t] = "check"
  PROVE  verdict = "none" /\ \A n \in created .. N + 1 : Nth(n) # t
BY DEF Inv

\* A step of no thread disturbs nothing but the verdict.
LEMMA InvKept ==
  ASSUME Inv, Types',
         UNCHANGED <<puzzle, column, created, pc, i, result, results>>,
         verdict' # "none" => /\ created = N + 2
                              /\ \A t \in Threads : pc[t] = "exited"
                              /\ verdict' = "valid" <=> result' = 1
  PROVE  Inv'
<1>1. \A t, k : Rejected(GroupAt(t, k))' <=> Rejected(GroupAt(t, k))
  BY DEF Rejected, GroupAt, Subgrid, Row, Column, ChecksRows
<1>2. \A t : Groups(t)' = Groups(t) /\ (HasRejected(t)' <=> HasRejected(t))
  BY DEF HasRejected, Groups
<1>3. ASSUME NEW t \in Threads
      PROVE  /\ i'[t] <= Groups(t)'
             /\ \A k \in 0 .. i'[t] - 1 : ~ Rejected(GroupAt(t, k))'
             /\ HasRejected(t)' => Rejected(GroupAt(t, i[t]))'
             /\ results'[t] = 1 <=> pc'[t] = "exited" /\ i'[t] = Groups(t)'
  BY <1>1, <1>2 DEF Inv
<1>4. result' = 0 <=> \E t \in Threads : HasRejected(t)'
  BY <1>2 DEF Inv
<1>5. \A n \in created' .. N + 1 : pc'[Nth(n)] = "none"
  BY DEF Inv
<1> QED BY <1>3, <1>4, <1>5 DEF Inv

LEMMA InvCreate == Inv /\ Create => Inv'
<1> SUFFICES ASSUME Inv, Create PROVE Inv'
  OBVIOUS
<1> USE ConstantFacts
<1> DEFINE u == Nth(created)
<1>0. Types
  BY DEF Inv
<1>1. created \in 0 .. N + 1 /\ created' = created + 1 /\ u \in Threads /\ pc[u] = "none"
  <2>1. created \in 0 .. N + 1 /\ created' = created + 1
    <3>1. created < N + 2 /\ created' = created + 1
      BY DEF Create
    <3>2. created \in 0 .. N + 2
      BY <1>0 DEF Types
    <3> QED BY <3>1, <3>2
  <2>2. u \in Threads
    BY <2>1, NthDistinct
  <2>3. created \in created .. N + 1
    BY <2>1
  <2> QED BY <2>1, <2>2, <2>3 DEF Inv
<1>2. /\ pc' = [pc EXCEPT ![u] = "check"]
      /\ UNCHANGED <<puzzle, column, i, result, results, verdict>>
  BY DEF Create
<1> HIDE DEF u
<1>3. \A t \in Threads : pc'[t] = IF t = u THEN "check" ELSE pc[t]
  BY <1>2 DEF Inv, Types
<1>4. \A t \in Threads : pc'[t] = "exited" <=> pc[t] = "exited"
  BY <1>1, <1>3
<1>5. \A t \in Threads : HasRejected(t)' <=> HasRejected(t)
  BY <1>2, <1>4 DEF HasRejected, Groups
<1>6. Types'
  <2>1. created' \in 0 .. N + 2
    BY <1>1
  <2> QED BY <1>0, <1>2, <2>1 DEF Types
<1>7. ASSUME NEW t \in Threads
      PROVE  /\ i'[t] <= Groups(t)'
             /\ \A k \in 0 .. i'[t] - 1 : ~ Rejected(GroupAt(t, k))'
             /\ HasRejected(t)' => Rejected(GroupAt(t, i[t]))'
             /\ results'[t] = 1 <=> pc'[t] = "exited" /\ i'[t] = Groups(t)'
  <2>1. \A k : Rejected(GroupAt(t, k))' <=> Rejected(GroupAt(t, k))
    BY <1>2 DEF Rejected, GroupAt, Subgrid, Row, Column, ChecksRows
  <2>2. Groups(t)' = Groups(t) /\ i' = i /\ results' = results
    BY <1>2 DEF Groups
  <2>3. \A k \in 0 .. i'[t] - 1 : ~ Rejected(GroupAt(t, k))'
    BY <2>1, <2>2 DEF Inv
  <2>4. HasRejected(t)' => Rejected(GroupAt(t, i[t]))'
    BY <2>1, <2>2, <1>5 DEF Inv
  <2> QED BY <2>2, <2>3, <2>4, <1>4 DEF Inv
<1>8. result' = 0 <=> \E t \in Threads : HasRejected(t)'
  BY <1>2, <1>5 DEF Inv
<1>9. \A n \in created' .. N + 1 : pc'[Nth(n)] = "none"
  <2> SUFFICES ASSUME NEW n \in created' .. N + 1 PROVE pc'[Nth(n)] = "none"
    BY DEF Nth
  <2>1. n \in created .. N + 1 /\ n # created /\ n \in 0 .. N + 1
    BY <1>1
  <2>2. Nth(n) \in Threads /\ Nth(n) # u
    BY <1>1, <2>1, NthDistinct DEF u
  <2> QED BY <2>1, <2>2, <1>3 DEF Inv
<1>10. verdict' = "none"
  BY <1>1, <1>2 DEF Inv
<1> QED BY <1>6, <1>7, <1>8, <1>9, <1>10 DEF Inv

LEMMA InvThread ==
  ASSUME Inv, NEW t \in Threads, thread(t)
  PROVE  Inv'
<1> USE ConstantFacts
<1>1. pc[t] = "check" /\ UNCHANGED <<puzzle, column, created, verdict>>
  BY DEF thread, Check, Reject, Accept
<1>2. verdict = "none" /\ \A n \in created .. N + 1 : Nth(n) # t
  BY <1>1, RunningThread
<1>3. Types /\ i[t] \in Nat /\ i[t] <= Groups(t) /\ Groups(t) \in Nat
  BY DEF Inv, Types, Groups
<1>4. \A u \in Threads, k \in Nat :
        /\ Rejected(GroupAt(u, k))' <=> Rejected(GroupAt(u, k))
        /\ Groups(u)' = Groups(u)
  BY <1>1 DEF Rejected, GroupAt, Subgrid, Row, Column, ChecksRows, Groups
<1>5. Rejected(Group(t)) <=> Rejected(GroupAt(t, i[t]))
  BY DEF Rejected, Group, GroupAt
<1>6. ~ HasRejected(t) /\ results[t] = 0
  BY <1>1 DEF HasRejected, Inv, Types
<1>7. CASE Check(t)
  <2>1. i' = [i EXCEPT ![t] = @ + 1] /\ UNCHANGED <<pc, result, results>>
    BY <1>7 DEF Check
  <2>2. \A u \in Threads : i'[u] = IF u = t THEN i[u] + 1 ELSE i[u]
    BY <2>1, <1>3 DEF Types
  <2>3. i[t] < Groups(t) /\ ~ Rejected(GroupAt(t, i[t]))
    BY <1>5, <1>7 DEF Check
  <2>4. Types'
    <3>1. i' \in [Threads -> Nat]
      <4>1. i \in [Threads -> Nat]
        BY <1>3 DEF Types
      <4> QED BY <2>1, <4>1
    <3> QED BY <1>1, <1>3, <2>1, <3>1 DEF Types
  <2>5. \A u \in Threads : HasRejected(u)' <=> HasRejected(u)
    BY <1>1, <1>4, <2>1, <2>2 DEF HasRejected
  <2>6. ASSUME NEW u \in Threads
        PROVE  /\ i'[u] <= Groups(u)'
               /\ \A k \in 0 .. i'[u] - 1 : ~ Rejected(GroupAt(u, k))'
               /\ HasRejected(u)' => Rejected(GroupAt(u, i[u]))'
               /\ results'[u] = 1 <=> pc'[u] = "exited" /\ i'[u] = Groups(u)'
    <3>1. CASE u = t
      <4>1. i'[u] = i[t] + 1 /\ pc'[u] = "check" /\ results'[u] = 0
        BY <3>1, <2>1, <2>2, <1>1, <1>6
      <4>2. ASSUME NEW k \in 0 .. i'[u] - 1 PROVE ~ Rejected(GroupAt(u, k))'
        <5>1. k \in Nat /\ (k \in 0 .. i[t] - 1 \/ k = i[t])
          BY <4>1, <1>3
        <5>2. ~ Rejected(GroupAt(t, k))
          BY <5>1, <2>3 DEF Inv
        <5> QED BY <5>1, <5>2, <1>4, <3>1
      <4> QED BY <4>1, <4>2, <3>1, <2>3, <1>3, <1>4, <1>6, <2>5
    <3>2. CASE u # t
      <4>1. i'[u] = i[u] /\ i[u] \in Nat /\ pc'[u] = pc[u] /\ results'[u] = results[u]
        BY <3>2, <2>1, <2>2, <1>3 DEF Types
      <4>2. \A k \in 0 .. i'[u] - 1 : ~ Rejected(GroupAt(u, k))'
        BY <4>1, <1>4 DEF Inv
      <4> QED BY <4>1, <4>2, <1>4, <2>5 DEF Inv
    <3> QED BY <3>1, <3>2
  <2>7. result' = 0 <=> \E u \in Threads : HasRejected(u)'
    BY <2>1, <2>5 DEF Inv
  <2>8. \A n \in created' .. N + 1 : pc'[Nth(n)] = "none"
    BY <1>1, <2>1 DEF Inv
  <2> QED BY <1>1, <1>2, <2>4, <2>6, <2>7, <2>8 DEF Inv
<1>8. CASE Reject(t)
  <2>1. pc' = [pc EXCEPT ![t] = "exited"] /\ UNCHANGED <<i, results>> /\ result' = 0
    BY <1>8 DEF Reject, Cleared
  <2>2. \A u \in Threads : pc'[u] = IF u = t THEN "exited" ELSE pc[u]
    BY <2>1, <1>3 DEF Types
  <2>3. i[t] < Groups(t) /\ Rejected(GroupAt(t, i[t]))
    BY <1>5, <1>8 DEF Reject
  <2>4. Types'
    BY <1>1, <1>3, <2>1 DEF Types
  <2>5. \A u \in Threads : HasRejected(u)' <=> HasRejected(u) \/ u = t
    BY <1>1, <1>4, <2>1, <2>2, <2>3 DEF HasRejected
  <2>6. ASSUME NEW u \in Threads
        PROVE  /\ i'[u] <= Groups(u)'
               /\ \A k \in 0 .. i'[u] - 1 : ~ Rejected(GroupAt(u, k))'
               /\ HasRejected(u)' => Rejected(GroupAt(u, i[u]))'
               /\ results'[u] = 1 <=> pc'[u] = "exited" /\ i'[u] = Groups(u)'
    <3>1. i'[u] = i[u] /\ i[u] \in Nat /\ results'[u] = results[u]
      BY <2>1, <1>3 DEF Types
    <3>2. \A k \in 0 .. i'[u] - 1 : ~ Rejected(GroupAt(u, k))'
      BY <3>1, <1>4 DEF Inv
    <3>3. HasRejected(u)' => Rejected(GroupAt(u, i[u]))'
      BY <3>1, <1>4, <2>3, <2>5 DEF Inv
    <3>4. results'[u] = 1 <=> pc'[u] = "exited" /\ i'[u] = Groups(u)'
      BY <3>1, <1>3, <1>4, <1>6, <2>2, <2>3 DEF Inv
    <3> QED BY <3>1, <3>2, <3>3, <3>4, <1>4 DEF Inv
  <2>7. result' = 0 <=> \E u \in Threads : HasRejected(u)'
    BY <2>1, <2>5
  <2>8. \A n \in created' .. N + 1 : pc'[Nth(n)] = "none"
    BY <1>1, <1>2, <1>3, <2>1 DEF Inv, Types
  <2> QED BY <1>1, <1>2, <2>4, <2>6, <2>7, <2>8 DEF Inv
<1>9. CASE Accept(t)
  <2>1. /\ pc' = [pc EXCEPT ![t] = "exited"]
        /\ results' = [results EXCEPT ![t] = 1]
        /\ UNCHANGED <<i, result>>
    BY <1>9 DEF Accept
  <2>2. \A u \in Threads : /\ pc'[u] = IF u = t THEN "exited" ELSE pc[u]
                           /\ results'[u] = IF u = t THEN 1 ELSE results[u]
    BY <2>1, <1>3 DEF Types
  <2>3. i[t] = Groups(t)
    BY <1>9 DEF Accept
  <2>4. Types'
    BY <1>1, <1>3, <2>1 DEF Types
  <2>5. \A u \in Threads : HasRejected(u)' <=> HasRejected(u)
    BY <1>3, <1>4, <1>6, <2>1, <2>2, <2>3 DEF HasRejected
  <2>6. ASSUME NEW u \in Threads
        PROVE  /\ i'[u] <= Groups(u)'
               /\ \A k \in 0 .. i'[u] - 1 : ~ Rejected(GroupAt(u, k))'
               /\ HasRejected(u)' => Rejected(GroupAt(u, i[u]))'
               /\ results'[u] = 1 <=> pc'[u] = "exited" /\ i'[u] = Groups(u)'
    <3>1. i'[u] = i[u] /\ i[u] \in Nat
      BY <2>1, <1>3 DEF Types
    <3>2. \A k \in 0 .. i'[u] - 1 : ~ Rejected(GroupAt(u, k))'
      BY <3>1, <1>4 DEF Inv
    <3>3. HasRejected(u)' => Rejected(GroupAt(u, i[u]))'
      BY <3>1, <1>4, <2>5 DEF Inv
    <3>4. results'[u] = 1 <=> pc'[u] = "exited" /\ i'[u] = Groups(u)'
      BY <3>1, <1>4, <2>2, <2>3 DEF Inv
    <3> QED BY <3>1, <3>2, <3>3, <3>4, <1>4 DEF Inv
  <2>7. result' = 0 <=> \E u \in Threads : HasRejected(u)'
    BY <2>1, <2>5 DEF Inv
  <2>8. \A n \in created' .. N + 1 : pc'[Nth(n)] = "none"
    BY <1>1, <1>2, <1>3, <2>1 DEF Inv, Types
  <2> QED BY <1>1, <1>2, <2>4, <2>6, <2>7, <2>8 DEF Inv
<1> QED BY <1>7, <1>8, <1>9 DEF thread

LEMMA InvStep == Inv /\ [Next]_vars => Inv'
<1> SUFFICES ASSUME Inv, [Next]_vars PROVE Inv'
  OBVIOUS
<1>1. CASE Create
  BY <1>1, InvCreate
<1>2. CASE Conclude
  <2>1. UNCHANGED <<puzzle, column, created, pc, i, result, results>>
    BY <1>2 DEF Conclude
  <2>2. /\ created = N + 2
        /\ \A t \in Threads : pc[t] = "exited"
        /\ verdict' = IF result # 0 THEN "valid" ELSE "not valid"
    BY <1>2 DEF Conclude, Joined
  <2>3. Types /\ Types'
    BY <2>1, <2>2 DEF Inv, Types
  <2>4. verdict' = "valid" <=> result' = 1
    <3>1. result \in {0, 1} /\ result' = result
      BY <2>1, <2>3 DEF Types
    <3>2. CASE result = 0
      <4>1. result' # 1
        BY <3>1, <3>2
      <4>2. verdict' = "not valid"
        BY <2>2, <3>2
      <4> QED BY <4>1, <4>2
    <3>3. CASE result = 1
      BY <2>2, <3>1, <3>3
    <3> QED BY <3>1, <3>2, <3>3
  <2> QED BY <2>1, <2>2, <2>3, <2>4, InvKept
<1>3. ASSUME NEW t \in Threads, thread(t) PROVE Inv'
  BY <1>3, InvThread
<1>4. CASE UNCHANGED vars
  <2>1. UNCHANGED <<puzzle, column, created, pc, i, result, results, verdict>>
    BY <1>4 DEF vars
  <2>2. Types'
    BY <2>1 DEF Inv, Types
  <2>3. verdict' # "none" => /\ created = N + 2
                             /\ \A t \in Threads : pc[t] = "exited"
                             /\ verdict' = "valid" <=> result' = 1
    BY <2>1 DEF Inv
  <2> QED BY <2>1, <2>2, <2>3, InvKept
<1> QED BY <1>1, <1>2, <1>3, <1>4 DEF Next, main

LEMMA InvAlways == Spec => []Inv
BY InvInit, InvStep, PTL DEF Spec

-----------------------------------------------------------------------------
(* The theorems.                                                           *)

\* The flag and the entries of the threads always lead to the same verdict.
THEOREM FlagAndEntriesAgree == Spec => []EitherWay
<1>1. Inv => EitherWay
  <2> SUFFICES ASSUME Inv, verdict # "none"
               PROVE  verdict = "valid" <=> \A t \in Threads : results[t] = 1
    BY DEF EitherWay
  <2>1. ASSUME NEW t \in Threads PROVE results[t] = 1 <=> ~ HasRejected(t)
    <3>1. /\ pc[t] = "exited" /\ i[t] <= Groups(t)
          /\ results[t] = 1 <=> pc[t] = "exited" /\ i[t] = Groups(t)
      BY DEF Inv
    <3>2. i[t] \in Nat /\ Groups(t) \in Nat
      BY ConstantFacts DEF Inv, Types, Groups
    <3> QED BY <3>1, <3>2 DEF HasRejected
  <2> QED BY <2>1 DEF Inv, Types
<1> QED BY InvAlways, <1>1, PTL

\* The verdict is right for every puzzle of every size, in whatever order the
\* threads run, but for the chance that the uninitialised field is -1.
THEOREM VerdictIsRight == Spec => []VerdictRight
<1>1. Inv => VerdictRight
  <2> SUFFICES ASSUME Inv PROVE VerdictRight
    OBVIOUS
  <2> USE ConstantFacts
  <2>1. ASSUME verdict = "not valid" PROVE ~ ValidPuzzle
    <3>1. PICK t \in Threads : HasRejected(t)
      BY <2>1 DEF Inv, Types
    <3>2. i[t] \in Index
      <4>1. i[t] \in Nat /\ Groups(t) \in Nat /\ Groups(t) <= N
        <5>1. Types
          BY DEF Inv
        <5>2. i[t] \in Nat
          BY <5>1 DEF Types
        <5> QED BY <5>2 DEF Groups
      <4> QED BY <3>1, <4>1 DEF HasRejected, Index
    <3>3. Rejected(GroupAt(t, i[t]))
      BY <3>1 DEF Inv
    <3>4. ~ Complete(GroupAt(t, i[t]))
      BY <3>3, RejectedIsIncomplete DEF GroupAt, Subgrid, Row, Column
    <3>5. t < N => t \in Index
      BY DEF Threads, Index
    <3> QED BY <3>2, <3>4, <3>5 DEF ValidPuzzle, GroupAt
  <2>2. ASSUME verdict = "valid", column # -1 PROVE ValidPuzzle
    <3>1. \A t \in Threads : i[t] = Groups(t)
      BY <2>2 DEF Inv, Types, HasRejected, Groups
    <3>2. \A t \in Threads, k \in Index : k < Groups(t) => Complete(GroupAt(t, k))
      <4> SUFFICES ASSUME NEW t \in Threads, NEW k \in Index, k < Groups(t)
                   PROVE  Complete(GroupAt(t, k))
        OBVIOUS
      <4>1. k \in 0 .. i[t] - 1
        BY <3>1 DEF Index, Groups
      <4>2. ~ Rejected(GroupAt(t, k))
        BY <4>1 DEF Inv
      <4> QED BY <4>2, RejectedIsIncomplete DEF GroupAt, Subgrid, Row, Column
    <3> SUFFICES ASSUME NEW k \in Index
                 PROVE  Complete(Row(k)) /\ Complete(Column(k)) /\ Complete(Subgrid(k))
      BY DEF ValidPuzzle
    <3>3. Complete(GroupAt(N, k))
      BY <3>2 DEF Threads, Groups, Index
    <3>4. Complete(GroupAt(N + 1, k))
      BY <3>2 DEF Threads, Groups, Index
    <3>5. Complete(GroupAt(k, 0))
      BY <3>2 DEF Threads, Groups, Index
    <3>6. GroupAt(N, k) = Row(k) /\ GroupAt(N + 1, k) = Column(k) /\ GroupAt(k, 0) = Subgrid(k)
      BY <2>2 DEF GroupAt, ChecksRows, Index
    <3> QED BY <3>3, <3>4, <3>5, <3>6
  <2> QED BY <2>1, <2>2 DEF VerdictRight
<1> QED BY InvAlways, <1>1, PTL

=============================================================================
