---------------------------- MODULE SortThreads -----------------------------
(***************************************************************************)
(* The two-thread sort of lab02: two threads run quick_sort() in place on  *)
(* the two halves of one array, main() waits for both and merges the       *)
(* halves into a second array.                                             *)
(*                                                                         *)
(* A turn of one of quick_sort()'s scanning loops is a step, and so is the *)
(* exchange after them.  `calls' holds the ranges that a thread has still  *)
(* to sort, the current one first, which is what its stack amounts to.     *)
(***************************************************************************)
EXTENDS Integers, Sequences, FiniteSets

CONSTANTS
  N,       \* elements: 10 in the code
  Numbers  \* what the array is filled with

ASSUME SortAssumption ==
  /\ N \in Nat \ {0}
  /\ N % 2 = 0
  /\ Numbers \subseteq Int

VARIABLES
  unsortedArray, sortedArray,
  original,   \* what unsortedArray was filled with (history)
  pc,         \* what each thread does
  calls,      \* the ranges each thread has still to sort
  i, j, x,    \* the variables of each thread's quick_sort()
  main,       \* "create", "join", "merge", "done"
  left, right \* main(): the next elements of the halves

locals  == <<pc, calls, i, j, x>>
mains   == <<main, left, right, sortedArray>>
vars    == <<unsortedArray, original, locals, mains>>

Threads == {0, 1}
Index   == 0 .. N - 1
Half    == N \div 2

Start(t) == t * Half

End(t) == Start(t) + Half - 1

-----------------------------------------------------------------------------
(* The threads.                                                            *)

Current(t) == Head(calls[t])

Return(t) ==
  /\ pc[t] = "call"
  /\ calls[t] # <<>>
  /\ Current(t).l >= Current(t).r
  /\ calls' = [calls EXCEPT ![t] = Tail(@)]
  /\ UNCHANGED <<unsortedArray, original, pc, i, j, x, mains>>

Middle(r) == (r.l + r.r) \div 2

Call(t) ==
  /\ pc[t] = "call"
  /\ calls[t] # <<>>
  /\ Current(t).l < Current(t).r
  /\ i' = [i EXCEPT ![t] = Current(t).l - 1]
  /\ j' = [j EXCEPT ![t] = Current(t).r + 1]
  /\ x' = [x EXCEPT ![t] = unsortedArray[Middle(Current(t))]]
  /\ pc' = [pc EXCEPT ![t] = "up"]
  /\ UNCHANGED <<unsortedArray, original, calls, mains>>

\* fault: the scan goes on past elements that are equal to the pivot
NotAbove(a, b) == a <= b

Below(a, b) == a < b

ScanUp(t) ==
  /\ pc[t] = "up"
  /\ i' = [i EXCEPT ![t] = @ + 1]
  /\ pc' = [pc EXCEPT ![t] = IF Below(unsortedArray[i[t] + 1], x[t]) THEN "up" ELSE "down"]
  /\ UNCHANGED <<unsortedArray, original, calls, j, x, mains>>

ScanDown(t) ==
  /\ pc[t] = "down"
  /\ j' = [j EXCEPT ![t] = @ - 1]
  /\ pc' = [pc EXCEPT ![t] = IF Below(x[t], unsortedArray[j[t] - 1]) THEN "down" ELSE "swap"]
  /\ UNCHANGED <<unsortedArray, original, calls, i, x, mains>>

Exchanged(m, n) == [unsortedArray EXCEPT ![m] = unsortedArray[n], ![n] = unsortedArray[m]]

Swap(t) ==
  /\ pc[t] = "swap"
  /\ i[t] < j[t]
  /\ unsortedArray' = Exchanged(i[t], j[t])
  /\ pc' = [pc EXCEPT ![t] = "up"]
  /\ UNCHANGED <<original, calls, i, j, x, mains>>

\* fault: the second part starts with the last element of the first
PartsSharing(r, m) == <<[l |-> r.l, r |-> m], [l |-> m, r |-> r.r]>>

Parts(r, m) == <<[l |-> r.l, r |-> m], [l |-> m + 1, r |-> r.r]>>

Recurse(t) ==
  /\ pc[t] = "swap"
  /\ i[t] >= j[t]
  /\ calls' = [calls EXCEPT ![t] = Parts(Current(t), j[t]) \o Tail(@)]
  /\ pc' = [pc EXCEPT ![t] = "call"]
  /\ UNCHANGED <<unsortedArray, original, i, j, x, mains>>

Exit(t) ==
  /\ pc[t] = "call"
  /\ calls[t] = <<>>
  /\ pc' = [pc EXCEPT ![t] = "exited"]
  /\ UNCHANGED <<unsortedArray, original, calls, i, j, x, mains>>

sortArray(t) ==
  Return(t) \/ Call(t) \/ ScanUp(t) \/ ScanDown(t) \/ Swap(t) \/ Recurse(t) \/ Exit(t)

-----------------------------------------------------------------------------
(* main().                                                                 *)

Create ==
  /\ main = "create"
  /\ \E t \in Threads :
       /\ pc[t] = "none"
       /\ \A s \in Threads : s < t => pc[s] # "none"
       /\ pc' = [pc EXCEPT ![t] = "call"]
       /\ calls' = [calls EXCEPT ![t] = <<[l |-> Start(t), r |-> End(t)]>>]
       /\ main' = IF t = 1 THEN "join" ELSE "create"
  /\ UNCHANGED <<unsortedArray, original, i, j, x, left, right, sortedArray>>

\* fault: the second thread is not waited for
FirstExited == pc[0] = "exited"

Exited == \A t \in Threads : pc[t] = "exited"

Join ==
  /\ main = "join"
  /\ Exited
  /\ main' = "merge"
  /\ UNCHANGED <<unsortedArray, original, locals, left, right, sortedArray>>

\* the three loops of mergeArrays(): the next element comes from the left half
FromLeft ==
  left < Half /\ (right < N => unsortedArray[left] < unsortedArray[right])

Merge ==
  /\ main = "merge"
  /\ left < Half \/ right < N
  /\ sortedArray' = [sortedArray EXCEPT ![left + right - Half] =
                       unsortedArray[IF FromLeft THEN left ELSE right]]
  /\ left' = IF FromLeft THEN left + 1 ELSE left
  /\ right' = IF FromLeft THEN right ELSE right + 1
  /\ UNCHANGED <<unsortedArray, original, locals, main>>

Finish ==
  /\ main = "merge"
  /\ left = Half
  /\ right = N
  /\ main' = "done"
  /\ UNCHANGED <<unsortedArray, original, locals, left, right, sortedArray>>

Init ==
  /\ unsortedArray \in [Index -> Numbers]
  /\ original = unsortedArray
  /\ sortedArray = [k \in Index |-> 0]
  /\ pc = [t \in Threads |-> "none"]
  /\ calls = [t \in Threads |-> <<>>]
  /\ i = [t \in Threads |-> 0]
  /\ j = [t \in Threads |-> 0]
  /\ x = [t \in Threads |-> 0]
  /\ main = "create"
  /\ left = 0
  /\ right = Half

MainStep == Create \/ Join \/ Merge \/ Finish

Next == MainStep \/ \E t \in Threads : sortArray(t)

\* The scheduler lets main() and both threads run.
Spec ==
  /\ Init
  /\ [][Next]_vars
  /\ WF_vars(MainStep)
  /\ \A t \in Threads : WF_vars(sortArray(t))

-----------------------------------------------------------------------------
(* Properties.                                                             *)

\* A scan does not test whether it has come to the end of its range: that the
\* pivot, or what was exchanged before, stops it in time is what keeps it in the
\* array, and the two threads, which have no lock, in halves of their own.
StaysInHalf ==
  \A t \in Threads :
    /\ pc[t] = "up" => i[t] + 1 \in Start(t) .. Start(t) + Half - 1
    /\ pc[t] = "down" => j[t] - 1 \in Start(t) .. Start(t) + Half - 1

Sorted(array, from, to) == \A m, n \in from .. to : m <= n => array[m] <= array[n]

Copies(array, v) == Cardinality({n \in Index : array[n] = v})

\* The merge finds both halves sorted, and what it makes of them is the array
\* in order.
ResultSorted ==
  /\ main = "merge" => \A t \in Threads : Sorted(unsortedArray, Start(t), Start(t) + Half - 1)
  /\ main = "done" => /\ Sorted(sortedArray, 0, N - 1)
                      /\ \A v \in Numbers : Copies(sortedArray, v) = Copies(original, v)

\* The program ends: the ranges get smaller with every call.
SortEnds == <>(main = "done")

=============================================================================
