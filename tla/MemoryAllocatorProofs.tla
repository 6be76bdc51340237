----------------------- MODULE MemoryAllocatorProofs ------------------------
(***************************************************************************)
(* Proofs about the allocator, for every size of the memory, all names and *)
(* all requests: its blocks tile the memory in every turn of a compaction; *)
(* it implements AddressSpace; and a compaction leaves no two free blocks  *)
(* next to each other.                                                     *)
(***************************************************************************)
EXTENDS MemoryAllocator, SequenceTheorems, WellFoundedInduction, TLAPS

-----------------------------------------------------------------------------
(* The least and the largest of a set of numbers.                          *)

LEMMA LeastExists ==
  ASSUME NEW S \in SUBSET Nat, S # {}
  PROVE  \E x \in S : \A y \in S : x <= y
<1>1. PICK x \in S : \A y \in S : ~ (<<y, x>> \in OpToRel(<, Nat))
  BY NatLessThanWellFounded, WFMin
<1>2. \A y \in S : ~ (y < x)
  BY <1>1 DEF OpToRel
<1> QED BY <1>2

LEMMA LeastFacts ==
  ASSUME NEW S \in SUBSET Nat, S # {}
  PROVE  Least(S) \in S
BY LeastExists DEF Least

LEMMA LargestExists ==
  ASSUME NEW S \in SUBSET Nat, S # {}, NEW b \in Nat, \A x \in S : x <= b
  PROVE  \E x \in S : \A y \in S : x >= y
<1> DEFINE T == {b - x : x \in S}
<1>1. T \in SUBSET Nat /\ T # {}
  <2>1. \A x \in S : x \in Nat /\ x <= b /\ b - x \in Nat
    OBVIOUS
  <2> QED BY <2>1
<1>2. PICK t \in T : \A u \in T : t <= u
  BY <1>1, LeastExists
<1>3. PICK x \in S : t = b - x
  BY <1>2
<1>4. \A y \in S : b - x <= b - y
  BY <1>2, <1>3
<1> QED BY <1>4

-----------------------------------------------------------------------------
(* The list.                                                               *)

Block == [process_name : Names, start_address : Nat, size : Nat]

\* p is q with e put in at n.
Inserted(p, q, n, e) ==
  /\ p \in Seq(Block) /\ Len(p) = Len(q) + 1
  /\ \A k \in 1 .. Len(q) + 1 :
       p[k] = IF k < n THEN q[k] ELSE IF k = n THEN e ELSE q[k - 1]

LEMMA InsertAtFacts ==
  ASSUME NEW q \in Seq(Block), NEW n \in 1 .. Len(q), NEW e \in Block
  PROVE  Inserted(InsertAt(q, n, e), q, n, e)
<1> DEFINE a == SubSeq(q, 1, n - 1)
           b == SubSeq(q, n, Len(q))
           c == a \o <<e>>
<1>1. /\ a \in Seq(Block) /\ Len(a) = n - 1 /\ \A k \in 1 .. n - 1 : a[k] = q[k]
      /\ b \in Seq(Block) /\ Len(b) = Len(q) - n + 1
      /\ \A k \in 1 .. Len(q) - n + 1 : b[k] = q[n + k - 1]
      /\ Len(q) \in Nat /\ n \in Nat
  BY SubSeqProperties
<1> HIDE DEF a, b
<1>2. c \in Seq(Block) /\ Len(c) = n /\ \A k \in 1 .. n : c[k] = IF k < n THEN q[k] ELSE e
  BY <1>1
<1> HIDE DEF c
<1>3. /\ c \o b \in Seq(Block) /\ Len(c \o b) = Len(q) + 1
      /\ \A k \in 1 .. Len(q) + 1 :
           (c \o b)[k] = IF k < n THEN q[k] ELSE IF k = n THEN e ELSE q[k - 1]
  <2>1. /\ c \o b \in Seq(Block) /\ Len(c \o b) = Len(c) + Len(b)
        /\ \A k \in 1 .. Len(c) + Len(b) :
             (c \o b)[k] = IF k <= Len(c) THEN c[k] ELSE b[k - Len(c)]
    BY <1>1, <1>2, ConcatProperties
  <2>2. ASSUME NEW k \in 1 .. Len(q) + 1
        PROVE  (c \o b)[k] = IF k < n THEN q[k] ELSE IF k = n THEN e ELSE q[k - 1]
    <3>1. CASE k <= n
      BY <1>1, <1>2, <2>1, <3>1
    <3>2. CASE k > n
      <4>1. k - n \in 1 .. Len(q) - n + 1 /\ n + (k - n) - 1 = k - 1
        BY <1>1, <3>2
      <4> QED BY <1>1, <1>2, <2>1, <3>2, <4>1
    <3>3. k <= n \/ k > n
      BY <1>1
    <3> QED BY <3>1, <3>2, <3>3
  <2> QED BY <1>1, <1>2, <2>1, <2>2
<1> QED BY <1>3 DEF Inserted, InsertAt, a, b, c

LEMMA RemoveAtFacts ==
  ASSUME NEW T, NEW q \in Seq(T), NEW n \in 1 .. Len(q)
  PROVE  LET p == RemoveAt(q, n)
         IN  /\ p \in Seq(T) /\ Len(p) = Len(q) - 1
             /\ \A k \in 1 .. Len(q) - 1 : p[k] = IF k < n THEN q[k] ELSE q[k + 1]
<1> DEFINE a == SubSeq(q, 1, n - 1)
           b == SubSeq(q, n + 1, Len(q))
<1>1. /\ a \in Seq(T) /\ Len(a) = n - 1 /\ \A k \in 1 .. n - 1 : a[k] = q[k]
      /\ b \in Seq(T) /\ Len(b) = Len(q) - n
      /\ \A k \in 1 .. Len(q) - n : b[k] = q[n + k]
      /\ Len(q) \in Nat /\ n \in Nat
  BY SubSeqProperties
<1> HIDE DEF a, b
<1>2. /\ a \o b \in Seq(T) /\ Len(a \o b) = Len(q) - 1
      /\ \A k \in 1 .. Len(q) - 1 : (a \o b)[k] = IF k < n THEN q[k] ELSE q[k + 1]
  <2>1. /\ a \o b \in Seq(T) /\ Len(a \o b) = Len(a) + Len(b)
        /\ \A k \in 1 .. Len(a) + Len(b) :
             (a \o b)[k] = IF k <= Len(a) THEN a[k] ELSE b[k - Len(a)]
    BY <1>1, ConcatProperties
  <2>2. ASSUME NEW k \in 1 .. Len(q) - 1
        PROVE  (a \o b)[k] = IF k < n THEN q[k] ELSE q[k + 1]
    <3>1. CASE k < n
      BY <1>1, <2>1, <3>1
    <3>2. CASE k >= n
      <4>1. k - (n - 1) \in 1 .. Len(q) - n /\ n + (k - (n - 1)) = k + 1
        BY <1>1, <3>2
      <4>2. (a \o b)[k] = b[k - (n - 1)]
        BY <1>1, <2>1, <3>2
      <4>3. b[k - (n - 1)] = q[n + (k - (n - 1))]
        BY <1>1, <4>1
      <4>4. ~ (k < n)
        BY <1>1, <3>2
      <4> QED BY <4>1, <4>2, <4>3, <4>4
    <3>3. k < n \/ k >= n
      BY <1>1
    <3> QED BY <3>1, <3>2, <3>3
  <2> QED BY <1>1, <2>1, <2>2
<1> QED BY <1>2 DEF RemoveAt, a, b

-----------------------------------------------------------------------------
(* The inductive invariant.                                                *)

Stop(block) == block.start_address + block.size

\* Tiling, of any list, with the bound that a choice among its blocks needs.
Tiles(q) ==
  /\ q \in Seq(Block)
  /\ Len(q) > 0
  /\ q[1].start_address = 0
  /\ \A n \in 1 .. Len(q) - 1 : q[n + 1].start_address = Stop(q[n])
  /\ Stop(q[Len(q)]) = max_memory_size
  /\ \A n \in 1 .. Len(q) : Stop(q[n]) <= max_memory_size

Inv == Tiles(blocks) /\ current \in Nat \ {0}

LEMMA BlockFacts ==
  ASSUME NEW b \in Block
  PROVE  /\ b.process_name \in Names /\ b.start_address \in Nat /\ b.size \in Nat
         /\ Stop(b) \in Nat /\ b.start_address <= Stop(b)
BY DEF Block, Stop

\* Blocks can change hands.
LEMMA TilesSameExtents ==
  ASSUME NEW q, Tiles(q), NEW p \in Seq(Block), Len(p) = Len(q),
         \A n \in 1 .. Len(q) : /\ p[n].start_address = q[n].start_address
                                /\ p[n].size = q[n].size
  PROVE  Tiles(p)
<1>1. Len(q) \in Nat /\ Len(q) > 0 /\ \A n \in 1 .. Len(q) - 1 : n + 1 \in 1 .. Len(q) /\ n \in 1 .. Len(q)
  BY DEF Tiles
<1>2. \A n \in 1 .. Len(q) : Stop(p[n]) = Stop(q[n])
  BY DEF Stop
<1>3. 1 \in 1 .. Len(q) /\ Len(q) \in 1 .. Len(q)
  BY <1>1
<1> QED BY <1>1, <1>2, <1>3 DEF Tiles

\* p is q with its block at n split into b and r.
SplitInto(p, q, n, b, r) ==
  /\ p \in Seq(Block) /\ Len(p) = Len(q) + 1
  /\ \A k \in 1 .. Len(q) + 1 :
       p[k] = IF k < n THEN q[k] ELSE IF k = n THEN b ELSE IF k = n + 1 THEN r ELSE q[k - 1]

LEMMA SplitFacts ==
  ASSUME NEW q, Tiles(q), NEW n \in 1 .. Len(q), NEW b \in Block, NEW r \in Block
  PROVE  SplitInto(InsertAt(ReplaceAt(q, n, r), n, b), q, n, b, r)
<1> DEFINE m == ReplaceAt(q, n, r)
           p == InsertAt(m, n, b)
<1>1. q \in Seq(Block) /\ Len(q) \in Nat /\ Len(q) > 0 /\ n \in Nat
  BY DEF Tiles
<1>2. /\ m \in Seq(Block) /\ Len(m) = Len(q)
      /\ \A k \in 1 .. Len(q) : m[k] = IF k = n THEN r ELSE q[k]
  BY <1>1, ExceptSeq DEF ReplaceAt
<1> HIDE DEF m
<1>3. /\ p \in Seq(Block) /\ Len(p) = Len(q) + 1
      /\ \A k \in 1 .. Len(q) + 1 :
           p[k] = IF k < n THEN m[k] ELSE IF k = n THEN b ELSE m[k - 1]
  <2>1. n \in 1 .. Len(m) /\ m \in Seq(Block)
    BY <1>2
  <2>2. /\ p \in Seq(Block) /\ Len(p) = Len(m) + 1
        /\ \A k \in 1 .. Len(m) + 1 :
             p[k] = IF k < n THEN m[k] ELSE IF k = n THEN b ELSE m[k - 1]
    <3>1. Inserted(p, m, n, b)
      BY <2>1, InsertAtFacts
    <3> QED BY <3>1 DEF Inserted
  <2> HIDE DEF p
  <2> QED BY <1>2, <2>2
<1> HIDE DEF p
<1>4. \A k \in 1 .. Len(q) + 1 :
        p[k] = IF k < n THEN q[k] ELSE IF k = n THEN b ELSE IF k = n + 1 THEN r ELSE q[k - 1]
  <2> SUFFICES ASSUME NEW k \in 1 .. Len(q) + 1
               PROVE  p[k] = IF k < n THEN q[k] ELSE IF k = n THEN b
                             ELSE IF k = n + 1 THEN r ELSE q[k - 1]
    OBVIOUS
  <2>1. CASE k < n
    <3>1. k \in 1 .. Len(q) /\ k # n
      BY <1>1, <2>1
    <3>2. p[k] = m[k]
      BY <1>3, <2>1
    <3> QED BY <1>2, <2>1, <3>1, <3>2
  <2>2. CASE k = n
    BY <1>1, <1>2, <1>3, <2>2
  <2>3. CASE k > n
    <3>1. k - 1 \in 1 .. Len(q) /\ (k - 1 = n <=> k = n + 1)
      BY <1>1, <2>3
    <3>2. p[k] = m[k - 1] /\ ~ (k < n) /\ k # n
      BY <1>1, <1>3, <2>3
    <3> QED BY <1>2, <3>1, <3>2
  <2> QED BY <1>1, <2>1, <2>2, <2>3
<1> QED BY <1>2, <1>3, <1>4 DEF p, m, SplitInto

\* A block can be split: what is left of it comes after the new one.
LEMMA TilesSplit ==
  ASSUME NEW q, Tiles(q), NEW n \in 1 .. Len(q),
         NEW b \in Block, NEW r \in Block,
         b.start_address = q[n].start_address, r.start_address = Stop(b), Stop(r) = Stop(q[n])
  PROVE  Tiles(InsertAt(ReplaceAt(q, n, r), n, b))
<1> DEFINE p == InsertAt(ReplaceAt(q, n, r), n, b)
<1>1. q \in Seq(Block) /\ Len(q) \in Nat /\ Len(q) > 0 /\ n \in Nat
  BY DEF Tiles
<1>2. SplitInto(p, q, n, b, r)
  BY SplitFacts
<1> HIDE DEF p
<1>3. Len(p) = Len(q) + 1 /\ p \in Seq(Block)
  BY <1>2 DEF SplitInto
<1>4. \A k \in 1 .. Len(q) + 1 :
        p[k] = IF k < n THEN q[k] ELSE IF k = n THEN b ELSE IF k = n + 1 THEN r ELSE q[k - 1]
  BY <1>2 DEF SplitInto
<1>5. /\ \A k \in 1 .. Len(q) - 1 : q[k + 1].start_address = Stop(q[k])
      /\ q[1].start_address = 0 /\ Stop(q[Len(q)]) = max_memory_size
      /\ \A k \in 1 .. Len(q) : Stop(q[k]) <= max_memory_size
      /\ \A k \in 1 .. Len(q) : Stop(q[k]) \in Nat /\ q[k].start_address \in Nat
      /\ max_memory_size \in Nat
  BY <1>1, BlockFacts, MemoryAssumption DEF Tiles
<1>6. p[1].start_address = 0
  <2>1. CASE n = 1
    BY <1>1, <1>4, <1>5, <2>1
  <2>2. CASE n > 1
    BY <1>1, <1>4, <1>5, <2>2
  <2> QED BY <1>1, <2>1, <2>2
<1>7. Stop(p[Len(q) + 1]) = max_memory_size
  <2>1. CASE n = Len(q)
    BY <1>1, <1>4, <1>5, <2>1
  <2>2. CASE n < Len(q)
    BY <1>1, <1>4, <1>5, <2>2
  <2> QED BY <1>1, <2>1, <2>2
<1>8. ASSUME NEW k \in 1 .. Len(q) PROVE p[k + 1].start_address = Stop(p[k])
  <2>1. CASE k + 1 < n
    <3>1. p[k + 1] = q[k + 1] /\ p[k] = q[k] /\ k \in 1 .. Len(q) - 1
      BY <1>1, <1>4, <2>1
    <3> QED BY <1>5, <3>1
  <2>2. CASE k + 1 = n
    BY <1>1, <1>4, <1>5, <2>2
  <2>3. CASE k = n
    <3>1. n + 1 \in 1 .. Len(q) + 1 /\ ~ (n + 1 < n) /\ n + 1 # n /\ n \in 1 .. Len(q) + 1
      BY <1>1
    <3>2. p[n + 1] = r /\ p[n] = b
      BY <1>1, <1>4, <3>1
    <3> QED BY <2>3, <3>2
  <2>4. CASE k = n + 1
    <3>1. p[k] = r
      BY <1>1, <1>4, <2>4
    <3>2. k + 1 \in 1 .. Len(q) + 1 /\ ~ (k + 1 < n) /\ k + 1 # n /\ k + 1 # n + 1
          /\ (k + 1) - 1 = n + 1 /\ n \in 1 .. Len(q) - 1
      BY <1>1, <2>4
    <3>3. p[k + 1] = q[n + 1]
      BY <1>4, <3>2
    <3> QED BY <1>5, <3>1, <3>2, <3>3
  <2>5. CASE k > n + 1
    <3>1. k - 1 \in 1 .. Len(q) - 1 /\ (k - 1) + 1 = k /\ (k + 1) - 1 = k
      BY <1>1, <2>5
    <3>2. p[k] = q[k - 1] /\ p[k + 1] = q[k]
      <4>1. ~ (k < n) /\ k # n /\ k # n + 1 /\ k \in 1 .. Len(q) + 1
        BY <1>1, <2>5
      <4>2. ~ (k + 1 < n) /\ k + 1 # n /\ k + 1 # n + 1 /\ k + 1 \in 1 .. Len(q) + 1
        BY <1>1, <2>5
      <4> QED BY <1>4, <3>1, <4>1, <4>2
    <3> QED BY <1>5, <3>1, <3>2
  <2> QED BY <1>1, <2>1, <2>2, <2>3, <2>4, <2>5
<1>9. ASSUME NEW k \in 1 .. Len(q) + 1 PROVE Stop(p[k]) <= max_memory_size
  <2>1. Stop(b) <= Stop(r) /\ Stop(r) <= max_memory_size
    BY <1>5, BlockFacts DEF Stop
  <2>2. CASE k = n \/ k = n + 1
    BY <1>1, <1>4, <1>5, <2>1, <2>2, BlockFacts
  <2>3. CASE k < n
    BY <1>1, <1>4, <1>5, <2>3
  <2>4. CASE k > n + 1
    BY <1>1, <1>4, <1>5, <2>4
  <2> QED BY <1>1, <2>2, <2>3, <2>4
<1> QED BY <1>1, <1>3, <1>6, <1>7, <1>8, <1>9 DEF Tiles, p

\* The blocks of a list in which a block has taken in the one after it.
LEMMA MergeFacts ==
  ASSUME NEW q, Tiles(q), NEW n \in 1 .. Len(q) - 1
  PROVE  LET b == [q[n] EXCEPT !.size = @ + q[n + 1].size]
             p == RemoveAt([q EXCEPT ![n].size = @ + q[n + 1].size], n + 1)
         IN  /\ b \in Block /\ b.process_name = q[n].process_name
             /\ b.start_address = q[n].start_address /\ Stop(b) = Stop(q[n + 1])
             /\ p \in Seq(Block) /\ Len(p) = Len(q) - 1
             /\ \A k \in 1 .. Len(q) - 1 :
                  p[k] = IF k < n THEN q[k] ELSE IF k = n THEN b ELSE q[k + 1]
<1> DEFINE b == [q[n] EXCEPT !.size = @ + q[n + 1].size]
           m == [q EXCEPT ![n].size = @ + q[n + 1].size]
           p == RemoveAt(m, n + 1)
<1>1. /\ q \in Seq(Block) /\ Len(q) \in Nat /\ Len(q) > 0 /\ n \in Nat
      /\ n \in 1 .. Len(q) /\ n + 1 \in 1 .. Len(q)
  BY DEF Tiles
<1>2. q[n] \in Block /\ q[n + 1] \in Block /\ q[n + 1].start_address = Stop(q[n])
  BY <1>1, ElementOfSeq DEF Tiles
<1>3. /\ b \in Block /\ b.process_name = q[n].process_name
      /\ b.start_address = q[n].start_address /\ Stop(b) = Stop(q[n + 1])
  <2>1. /\ q[n].process_name \in Names /\ q[n].start_address \in Nat /\ q[n].size \in Nat
        /\ q[n + 1].size \in Nat
    BY <1>2 DEF Block
  <2>2. /\ b.process_name = q[n].process_name /\ b.start_address = q[n].start_address
        /\ b.size = q[n].size + q[n + 1].size
    BY <1>2 DEF Block
  <2>3. b \in Block
    BY <1>2, <2>1 DEF Block
  <2>4. Stop(b) = Stop(q[n + 1])
    BY <1>2, <2>1, <2>2 DEF Stop
  <2> QED BY <2>2, <2>3, <2>4
<1>4. m = [q EXCEPT ![n] = b]
  OBVIOUS
<1> HIDE DEF b, m
<1>5. /\ m \in Seq(Block) /\ Len(m) = Len(q)
      /\ \A k \in 1 .. Len(q) : m[k] = IF k = n THEN b ELSE q[k]
  BY <1>1, <1>3, <1>4, ExceptSeq
<1>6. /\ p \in Seq(Block) /\ Len(p) = Len(q) - 1
      /\ \A k \in 1 .. Len(q) - 1 : p[k] = IF k < n + 1 THEN m[k] ELSE m[k + 1]
  <2>1. n + 1 \in 1 .. Len(m)
    BY <1>1, <1>5
  <2>2. /\ p \in Seq(Block) /\ Len(p) = Len(m) - 1
        /\ \A k \in 1 .. Len(m) - 1 : p[k] = IF k < n + 1 THEN m[k] ELSE m[k + 1]
    BY <1>5, <2>1, RemoveAtFacts
  <2> HIDE DEF p
  <2> QED BY <1>5, <2>2
<1> HIDE DEF p
<1>7. ASSUME NEW k \in 1 .. Len(q) - 1
      PROVE  p[k] = IF k < n THEN q[k] ELSE IF k = n THEN b ELSE q[k + 1]
  <2>1. k \in 1 .. Len(q) /\ k + 1 \in 1 .. Len(q) /\ k \in Int /\ n \in Int
    BY <1>1
  <2>2. CASE k < n
    <3>1. p[k] = m[k] /\ k # n
      BY <1>6, <2>1, <2>2
    <3> QED BY <1>5, <2>1, <2>2, <3>1
  <2>3. CASE k = n
    <3>1. p[k] = m[k]
      BY <1>6, <2>1, <2>3
    <3> QED BY <1>5, <2>1, <2>3, <3>1
  <2>4. CASE k > n
    <3>1. p[k] = m[k + 1] /\ k + 1 # n /\ ~ (k < n) /\ k # n
      BY <1>6, <2>1, <2>4
    <3> QED BY <1>5, <2>1, <3>1
  <2>5. k < n \/ k = n \/ k > n
    BY <2>1
  <2> QED BY <2>2, <2>3, <2>4, <2>5
<1> QED BY <1>3, <1>6, <1>7 DEF p, m, b

\* A block can take in the one after it.
LEMMA TilesMerge ==
  ASSUME NEW q, Tiles(q), NEW n \in 1 .. Len(q) - 1
  PROVE  Tiles(RemoveAt([q EXCEPT ![n].size = @ + q[n + 1].size], n + 1))
<1> DEFINE b == [q[n] EXCEPT !.size = @ + q[n + 1].size]
           p == RemoveAt([q EXCEPT ![n].size = @ + q[n + 1].size], n + 1)
<1>1. /\ q \in Seq(Block) /\ Len(q) \in Nat /\ Len(q) > 0 /\ n \in Nat
      /\ n \in 1 .. Len(q) /\ n + 1 \in 1 .. Len(q)
  BY DEF Tiles
<1>2. /\ b \in Block /\ b.start_address = q[n].start_address /\ Stop(b) = Stop(q[n + 1])
      /\ p \in Seq(Block) /\ Len(p) = Len(q) - 1
      /\ \A k \in 1 .. Len(q) - 1 :
           p[k] = IF k < n THEN q[k] ELSE IF k = n THEN b ELSE q[k + 1]
  BY MergeFacts
<1> HIDE DEF b, p
<1>3. b \in Block /\ b.start_address = q[n].start_address /\ Stop(b) = Stop(q[n + 1])
  BY <1>2
<1>6. p \in Seq(Block) /\ Len(p) = Len(q) - 1
  BY <1>2
<1>7. \A k \in 1 .. Len(q) - 1 :
        p[k] = IF k < n THEN q[k] ELSE IF k = n THEN b ELSE q[k + 1]
  BY <1>2
<1>8. /\ \A k \in 1 .. Len(q) - 1 : q[k + 1].start_address = Stop(q[k])
      /\ q[1].start_address = 0 /\ Stop(q[Len(q)]) = max_memory_size
      /\ \A k \in 1 .. Len(q) : Stop(q[k]) <= max_memory_size
  BY DEF Tiles
<1>9. p[1].start_address = 0
  <2>1. 1 \in 1 .. Len(q) - 1 /\ (1 < n \/ n = 1)
    BY <1>1
  <2> QED BY <1>3, <1>7, <1>8, <2>1
<1>10. Stop(p[Len(q) - 1]) = max_memory_size
  <2>1. /\ Len(q) - 1 \in 1 .. Len(q) - 1 /\ (Len(q) - 1) + 1 = Len(q)
        /\ ~ (Len(q) - 1 < n)
    BY <1>1
  <2> QED BY <1>3, <1>7, <1>8, <2>1
<1>11. ASSUME NEW k \in 1 .. (Len(q) - 1) - 1 PROVE p[k + 1].start_address = Stop(p[k])
  <2>1. /\ k \in 1 .. Len(q) - 1 /\ k + 1 \in 1 .. Len(q) - 1 /\ k \in Int /\ n \in Int
        /\ (k + 1) + 1 = k + 2
    BY <1>1
  <2>2. CASE k + 1 < n
    <3>1. p[k] = q[k] /\ p[k + 1] = q[k + 1]
      BY <1>7, <2>1, <2>2
    <3> QED BY <1>8, <2>1, <3>1
  <2>3. CASE k + 1 = n
    <3>1. p[k] = q[k] /\ p[k + 1] = b
      BY <1>7, <2>1, <2>3
    <3> QED BY <1>3, <1>8, <2>1, <2>3, <3>1
  <2>4. CASE k = n
    <3>1. p[k] = b /\ p[k + 1] = q[k + 2]
      BY <1>7, <2>1, <2>4
    <3>2. q[k + 2].start_address = Stop(q[k + 1])
      BY <1>8, <2>1
    <3> QED BY <1>3, <2>4, <3>1, <3>2
  <2>5. CASE k > n
    <3>1. p[k] = q[k + 1] /\ p[k + 1] = q[k + 2]
      BY <1>7, <2>1, <2>5
    <3>2. q[k + 2].start_address = Stop(q[k + 1])
      BY <1>8, <2>1
    <3> QED BY <3>1, <3>2
  <2>6. k + 1 < n \/ k + 1 = n \/ k = n \/ k > n
    BY <2>1
  <2> QED BY <2>2, <2>3, <2>4, <2>5, <2>6
<1>12. ASSUME NEW k \in 1 .. Len(q) - 1 PROVE Stop(p[k]) <= max_memory_size
  <2>1. k \in 1 .. Len(q) /\ k + 1 \in 1 .. Len(q)
    BY <1>1
  <2> QED BY <1>1, <1>3, <1>7, <1>8, <2>1
<1>13. Len(p) \in Nat /\ Len(p) > 0
  BY <1>1, <1>6
<1> QED BY <1>6, <1>9, <1>10, <1>11, <1>12, <1>13 DEF Tiles, p

-----------------------------------------------------------------------------
(* The steps.                                                              *)

\* Each strategy finds a block if there is one that fits.
LEMMA ChosenFits ==
  ASSUME Inv, NEW strategy \in Strategies, NEW size \in Sizes, Fitting(size) # {}
  PROVE  Chosen(strategy, size) \in Fitting(size)
<1> DEFINE F == Fitting(size)
           best == {n \in F : \A j \in F : CASE strategy = "F" -> TRUE
                                             [] strategy = "B" -> SizeOf(n) <= SizeOf(j)
                                             [] strategy = "W" -> SizeOf(n) >= SizeOf(j)}
           S == {SizeOf(n) : n \in F}
<1>1. \A n \in F : /\ n \in Nat /\ blocks[n] \in Block /\ SizeOf(n) \in Nat
                   /\ SizeOf(n) <= max_memory_size
  <2> SUFFICES ASSUME NEW n \in F
               PROVE  /\ n \in Nat /\ blocks[n] \in Block /\ SizeOf(n) \in Nat
                      /\ SizeOf(n) <= max_memory_size
    OBVIOUS
  <2>1. n \in 1 .. Len(blocks) /\ blocks \in Seq(Block)
    BY DEF Fitting, Inv, Tiles
  <2>2. blocks[n] \in Block /\ Stop(blocks[n]) <= max_memory_size
    BY <2>1, ElementOfSeq DEF Inv, Tiles
  <2> QED BY <2>1, <2>2, BlockFacts, MemoryAssumption DEF SizeOf, Stop
<1>2. S \in SUBSET Nat /\ S # {} /\ max_memory_size \in Nat /\ \A x \in S : x <= max_memory_size
  BY <1>1, MemoryAssumption
<1>3. best # {}
  <2>1. CASE strategy = "F"
    BY <2>1
  <2>2. CASE strategy = "B"
    <3>1. PICK x \in S : \A y \in S : x <= y
      BY <1>2, LeastExists
    <3>2. PICK n \in F : x = SizeOf(n)
      BY <3>1
    <3> QED BY <2>2, <3>1, <3>2
  <2>3. CASE strategy = "W"
    <3>1. PICK x \in S : \A y \in S : x >= y
      BY <1>2, LargestExists
    <3>2. PICK n \in F : x = SizeOf(n)
      BY <3>1
    <3> QED BY <2>3, <3>1, <3>2
  <2> QED BY <2>1, <2>2, <2>3 DEF Strategies
<1>4. best \in SUBSET Nat /\ Chosen(strategy, size) = Least(best)
  BY <1>1 DEF Chosen
<1> HIDE DEF best
<1>5. Least(best) \in best
  BY <1>3, <1>4, LeastFacts
<1> QED BY <1>4, <1>5 DEF best

LEMMA RemainderFacts ==
  ASSUME NEW b \in Block, NEW size \in Nat, b.size - size \in Nat
  PROVE  LET r == [b EXCEPT !.start_address = @ + size, !.size = @ - size]
         IN  r \in Block /\ r.start_address = b.start_address + size /\ r.size = b.size - size
<1> DEFINE a == [b EXCEPT !.start_address = @ + size]
<1>1. a \in Block /\ a.start_address = b.start_address + size /\ a.size = b.size
  BY DEF Block
<1> HIDE DEF a
<1>2. [a EXCEPT !.size = @ - size] \in Block
  BY <1>1 DEF Block
<1>3. /\ [a EXCEPT !.size = @ - size].start_address = a.start_address
      /\ [a EXCEPT !.size = @ - size].size = a.size - size
  BY <1>1 DEF Block
<1> QED BY <1>1, <1>2, <1>3 DEF a

LEMMA InvAllocate ==
  ASSUME Inv, NEW process \in Names, NEW size \in Sizes, NEW strategy \in Strategies,
         allocateMemory(process, size, strategy)
  PROVE  Inv'
<1> DEFINE n   == Chosen(strategy, size)
           new == [process_name  |-> process,
                   start_address |-> blocks[n].start_address,
                   size          |-> size]
           rem == Remainder(n, size)
<1>1. n \in DOMAIN blocks /\ SizeOf(n) >= size
  BY ChosenFits DEF allocateMemory, Fitting
<1>2. /\ blocks \in Seq(Block) /\ Tiles(blocks) /\ DOMAIN blocks = 1 .. Len(blocks)
      /\ n \in 1 .. Len(blocks)
  BY <1>1 DEF Inv, Tiles
<1>3. /\ blocks[n] \in Block /\ blocks[n].start_address \in Nat /\ blocks[n].size \in Nat
      /\ blocks[n].process_name \in Names /\ size \in Nat
  BY <1>2, ElementOfSeq, BlockFacts, MemoryAssumption
<1>4. new \in Block
  BY <1>3 DEF Block
<1>5. CASE SizeOf(n) = size /\ blocks' = ReplaceAt(blocks, n, new)
  <2>1. /\ blocks' \in Seq(Block) /\ Len(blocks') = Len(blocks)
        /\ \A k \in 1 .. Len(blocks) : blocks'[k] = IF k = n THEN new ELSE blocks[k]
    BY <1>2, <1>4, <1>5, ExceptSeq DEF ReplaceAt
  <2>2. new.start_address = blocks[n].start_address /\ new.size = blocks[n].size
    BY <1>5 DEF SizeOf
  <2> HIDE DEF n, new
  <2>3. Tiles(blocks')
    BY <1>2, <2>1, <2>2, TilesSameExtents
  <2> QED BY <2>3 DEF Inv, allocateMemory
<1>6. CASE SizeOf(n) # size /\ blocks' = InsertAt(ReplaceAt(blocks, n, rem), n, new)
  <2>1. blocks[n].size - size \in Nat
    BY <1>1, <1>3 DEF SizeOf
  <2>2. /\ rem \in Block /\ rem.start_address = blocks[n].start_address + size
        /\ rem.size = blocks[n].size - size
    BY <1>3, <2>1, RemainderFacts DEF Remainder
  <2>3. rem.start_address = Stop(new) /\ Stop(rem) = Stop(blocks[n])
    BY <1>3, <2>2 DEF Stop
  <2>4. new.start_address = blocks[n].start_address
    OBVIOUS
  <2> HIDE DEF n, new, rem
  <2>5. Tiles(blocks')
    BY <1>2, <1>4, <1>6, <2>2, <2>3, <2>4, TilesSplit
  <2> QED BY <2>5 DEF Inv, allocateMemory
<1> QED BY <1>5, <1>6 DEF allocateMemory

LEMMA InvRelease ==
  ASSUME Inv, NEW process \in Names, releaseMemory(process)
  PROVE  Inv'
<1> DEFINE n == Least(BlocksOf(process))
           b == [blocks[n] EXCEPT !.process_name = FREE]
<1>1. /\ blocks \in Seq(Block) /\ Tiles(blocks) /\ Len(blocks) \in Nat
      /\ DOMAIN blocks = 1 .. Len(blocks)
  BY DEF Inv, Tiles
<1>2. BlocksOf(process) \in SUBSET Nat /\ BlocksOf(process) # {}
  BY <1>1 DEF releaseMemory, BlocksOf
<1>3. n \in 1 .. Len(blocks)
  BY <1>1, <1>2, LeastFacts DEF BlocksOf
<1>4. blocks[n] \in Block
  BY <1>1, <1>3, ElementOfSeq
<1>5. /\ b \in Block /\ b.start_address = blocks[n].start_address
      /\ b.size = blocks[n].size
  BY <1>4 DEF Block, Names
<1>6. blocks' = [blocks EXCEPT ![n] = b]
  BY DEF releaseMemory
<1> HIDE DEF n, b
<1>7. /\ blocks' \in Seq(Block) /\ Len(blocks') = Len(blocks)
      /\ \A k \in 1 .. Len(blocks) : blocks'[k] = IF k = n THEN b ELSE blocks[k]
  BY <1>1, <1>3, <1>5, <1>6, ExceptSeq
<1>8. Tiles(blocks')
  BY <1>1, <1>5, <1>7, TilesSameExtents
<1> QED BY <1>8 DEF Inv, releaseMemory

LEMMA InvCompact == Inv /\ (CompactBegin \/ compactStep) => Inv'
<1> SUFFICES ASSUME Inv, CompactBegin \/ compactStep PROVE Inv'
  OBVIOUS
<1>1. CASE MergeNext
  <2>1. current \in 1 .. Len(blocks) - 1 /\ current' = current + 1
    BY <1>1 DEF MergeNext, InPass, Inv, Tiles
  <2>2. blocks' = RemoveAt([blocks EXCEPT ![current].size = @ + blocks[current + 1].size],
                           current + 1)
    BY <1>1 DEF MergeNext, SizeOf
  <2>3. Tiles(blocks')
    BY <2>1, <2>2, TilesMerge DEF Inv
  <2> QED BY <2>1, <2>3 DEF Inv
<1>2. CASE StepOver
  BY <1>2 DEF StepOver, Inv
<1>3. CASE CompactBegin \/ NextPass \/ CompactEnd
  BY <1>3 DEF CompactBegin, NextPass, CompactEnd, Inv
<1> QED BY <1>1, <1>2, <1>3 DEF compactStep

LEMMA InvInit == Init => Inv
<1> SUFFICES ASSUME Init PROVE Inv
  OBVIOUS
<1>1. [process_name |-> FREE, start_address |-> 0, size |-> max_memory_size] \in Block
  BY MemoryAssumption DEF Block, Names
<1> QED BY <1>1, MemoryAssumption DEF Init, Inv, Tiles, Stop

LEMMA InvStep == Inv /\ [Next]_vars => Inv'
<1>1. Inv /\ UNCHANGED vars => Inv'
  BY DEF vars, Inv
<1> QED BY <1>1, InvAllocate, InvRelease, InvCompact DEF Next

\* The blocks tile the memory after every request and release, and in every turn
\* of a compaction: no address is lost, and none belongs to two blocks.
THEOREM BlocksTileMemory == Spec => []Tiling
<1>1. Inv => Tiling
  BY DEF Inv, Tiles, Tiling, End, Stop
<1> QED BY InvInit, InvStep, <1>1, PTL DEF Spec

-----------------------------------------------------------------------------
(* The address space: the owners that the blocks tell change as            *)
(* AddressSpace lets them.                                                 *)

Covers(q, n, x) == n \in 1 .. Len(q) /\ q[n].start_address <= x /\ x < Stop(q[n])

\* A block ends before every later one starts.
LEMMA TilesOrdered ==
  ASSUME NEW q, Tiles(q), NEW n \in 1 .. Len(q), NEW m \in 1 .. Len(q), n < m
  PROVE  Stop(q[n]) <= q[m].start_address
<1> DEFINE S == {j \in n + 1 .. Len(q) : ~ (Stop(q[n]) <= q[j].start_address)}
<1> SUFFICES ASSUME S # {} PROVE FALSE
  OBVIOUS
<1>0. S \in SUBSET Nat
  BY DEF Tiles
<1>1. PICK j \in S : \A k \in S : j <= k
  BY <1>0, LeastExists
<1>2. /\ j \in Int /\ n \in Int /\ n + 1 <= j /\ j <= Len(q) /\ Len(q) \in Nat /\ 1 <= n
      /\ ~ (Stop(q[n]) <= q[j].start_address)
  BY <1>1 DEF Tiles
<1>3. /\ j - 1 \in 1 .. Len(q) - 1 /\ (j - 1) + 1 = j
      /\ j - 1 \in 1 .. Len(q) /\ j \in 1 .. Len(q)
  BY <1>2
<1>4. q[j].start_address = Stop(q[j - 1])
  BY <1>3 DEF Tiles
<1>5. /\ q[j - 1] \in Block /\ q[j] \in Block /\ q[n] \in Block
  BY <1>3, ElementOfSeq DEF Tiles
<1>6. q[j - 1].start_address <= Stop(q[j - 1]) /\ q[j - 1].start_address \in Nat
      /\ Stop(q[j - 1]) \in Nat /\ Stop(q[n]) \in Nat
  BY <1>5, BlockFacts
<1>7. n < j - 1
  BY <1>2, <1>4, <1>6
<1>8. j - 1 \notin S
  BY <1>1, <1>2
<1>9. Stop(q[n]) <= q[j - 1].start_address
  BY <1>2, <1>3, <1>7, <1>8
<1> QED BY <1>2, <1>4, <1>6, <1>9

\* One block covers an address of the memory, ...
LEMMA CoveredSomewhere ==
  ASSUME NEW q, Tiles(q), NEW x \in 0 .. max_memory_size - 1
  PROVE  \E n \in 1 .. Len(q) : Covers(q, n, x)
<1> DEFINE S == {n \in 1 .. Len(q) : x < Stop(q[n])}
<1>1. /\ Len(q) \in Nat /\ Len(q) > 0 /\ max_memory_size \in Nat
      /\ q[1].start_address = 0 /\ Stop(q[Len(q)]) = max_memory_size
  BY MemoryAssumption DEF Tiles
<1>2. Len(q) \in S
  BY <1>1
<1>3. PICK n \in S : \A k \in S : n <= k
  <2>1. S \in SUBSET Nat
    BY <1>1
  <2> QED BY <1>2, <2>1, LeastExists
<1>4. q[n].start_address <= x
  <2>1. CASE n = 1
    BY <1>1, <2>1
  <2>2. CASE n # 1
    <3>1. /\ n - 1 \in 1 .. Len(q) - 1 /\ (n - 1) + 1 = n /\ n - 1 \in 1 .. Len(q)
          /\ n - 1 \notin S
      BY <1>1, <1>3, <2>2
    <3>2. q[n].start_address = Stop(q[n - 1])
      BY <3>1 DEF Tiles
    <3>3. q[n - 1] \in Block
      BY <3>1, ElementOfSeq DEF Tiles
    <3> QED BY <3>1, <3>2, <3>3, BlockFacts
  <2> QED BY <2>1, <2>2
<1> QED BY <1>3, <1>4 DEF Covers

\* ... and no other does.
LEMMA CoveredOnce ==
  ASSUME NEW q, Tiles(q), NEW x \in Int, NEW n, NEW m, Covers(q, n, x), Covers(q, m, x)
  PROVE  n = m
<1>1. /\ n \in 1 .. Len(q) /\ m \in 1 .. Len(q) /\ Len(q) \in Nat
      /\ q[n] \in Block /\ q[m] \in Block
  BY ElementOfSeq DEF Covers, Tiles
<1>2. /\ Stop(q[n]) \in Nat /\ Stop(q[m]) \in Nat
      /\ q[n].start_address \in Nat /\ q[m].start_address \in Nat
  BY <1>1, BlockFacts
<1>3. ~ (n < m)
  BY <1>1, <1>2, TilesOrdered DEF Covers
<1>4. ~ (m < n)
  BY <1>1, <1>2, TilesOrdered DEF Covers
<1> QED BY <1>1, <1>3, <1>4

OwnersTold ==
  \A x \in 0 .. max_memory_size - 1 : \A n \in 1 .. Len(blocks) :
    Covers(blocks, n, x) => AddressOwner[x] = blocks[n].process_name

LEMMA OwnersToldHolds == Inv => OwnersTold
<1> SUFFICES ASSUME Inv, NEW x \in 0 .. max_memory_size - 1, NEW n \in 1 .. Len(blocks),
                    Covers(blocks, n, x)
             PROVE  AddressOwner[x] = blocks[n].process_name
  BY DEF OwnersTold
<1> DEFINE i == CHOOSE i \in DOMAIN blocks : blocks[i].start_address <= x /\ x < End(i)
<1>1. Tiles(blocks) /\ DOMAIN blocks = 1 .. Len(blocks)
  BY DEF Inv, Tiles
<1>2. \A k : Covers(blocks, k, x)
             <=> k \in DOMAIN blocks /\ blocks[k].start_address <= x /\ x < End(k)
  BY <1>1 DEF Covers, Stop, End
<1>3. AddressOwner[x] = blocks[i].process_name
  BY DEF AddressOwner
<1>4. i \in DOMAIN blocks /\ blocks[i].start_address <= x /\ x < End(i)
  BY <1>2
<1> HIDE DEF i
<1>5. Covers(blocks, i, x) /\ x \in Int
  BY <1>2, <1>4
<1>6. i = n
  BY <1>1, <1>5, CoveredOnce
<1> QED BY <1>3, <1>6

\* x goes from one owner to another if it is in run, and stays with its owner if not.
Handed(x, run, from, to) ==
  \E n \in 1 .. Len(blocks), m \in 1 .. Len(blocks') :
    /\ Covers(blocks, n, x) /\ Covers(blocks', m, x)
    /\ x \in run => blocks[n].process_name = from /\ blocks'[m].process_name = to
    /\ x \notin run => blocks'[m].process_name = blocks[n].process_name

RunHanded(run, from, to) == \A x \in 0 .. max_memory_size - 1 : Handed(x, run, from, to)

OwnersPassed(run, from, to) ==
  /\ \A x \in 0 .. max_memory_size - 1 : x \in run => AddressOwner[x] = from
  /\ AddressOwner' = [x \in 0 .. max_memory_size - 1 |->
                        IF x \in run THEN to ELSE AddressOwner[x]]

LEMMA HandedOwners ==
  ASSUME Inv, Inv', NEW run, NEW from, NEW to, RunHanded(run, from, to)
  PROVE  OwnersPassed(run, from, to)
<1>1. OwnersTold
  BY OwnersToldHolds
<1>2. Inv' => OwnersTold'
  BY OwnersToldHolds, PTL
<1>3. ASSUME NEW x \in 0 .. max_memory_size - 1
      PROVE  /\ x \in run => AddressOwner[x] = from
             /\ AddressOwner'[x] = IF x \in run THEN to ELSE AddressOwner[x]
  <2>1. PICK n \in 1 .. Len(blocks), m \in 1 .. Len(blocks') :
          /\ Covers(blocks, n, x) /\ Covers(blocks', m, x)
          /\ x \in run => blocks[n].process_name = from /\ blocks'[m].process_name = to
          /\ x \notin run => blocks'[m].process_name = blocks[n].process_name
    BY DEF RunHanded, Handed
  <2>2. AddressOwner[x] = blocks[n].process_name
    BY <1>1, <2>1 DEF OwnersTold
  <2>3. AddressOwner'[x] = blocks'[m].process_name
    BY <1>2, <2>1 DEF OwnersTold
  <2> QED BY <2>1, <2>2, <2>3
<1>4. AddressOwner' = [x \in 0 .. max_memory_size - 1 |-> AddressOwner'[x]]
  BY DEF AddressOwner
<1> QED BY <1>3, <1>4 DEF OwnersPassed

\* Consecutive addresses that pass between being free and an owner are a step.
LEMMA HandedStep ==
  ASSUME Inv, Inv', NEW a \in Nat, NEW l \in Nat, a + l <= max_memory_size,
         NEW from \in Names, NEW to \in Names, from = FREE \/ to = FREE,
         RunHanded(a .. a + l - 1, from, to)
  PROVE  [Space!Next]_AddressOwner
<1> DEFINE run == a .. a + l - 1
           M   == 0 .. max_memory_size - 1
<1>1. max_memory_size \in Nat /\ run \subseteq M
  BY MemoryAssumption
<1>2. /\ \A x \in M : x \in run => AddressOwner[x] = from
      /\ AddressOwner' = [x \in M |-> IF x \in run THEN to ELSE AddressOwner[x]]
  BY HandedOwners DEF OwnersPassed
<1>3. CASE run = {} \/ from = to
  <2>1. \A x \in M : (IF x \in run THEN to ELSE AddressOwner[x]) = AddressOwner[x]
    BY <1>2, <1>3
  <2>2. AddressOwner = [x \in M |-> AddressOwner[x]]
    BY DEF AddressOwner
  <2> QED BY <1>2, <2>1, <2>2
<1>4. CASE run # {} /\ from # to
  <2>1. l > 0
    BY <1>4
  <2>2. a \in M /\ a + l - 1 \in M
    BY <1>1, <2>1
  <2>3. Space!Pass(run, from, to)
    BY <1>1, <1>2 DEF Space!Pass, Space!Addresses
  <2>4. \/ from = FREE /\ to \in Processes
        \/ to = FREE /\ from \in Processes
    BY <1>4 DEF Names
  <2>5. Space!Next
    BY <2>2, <2>3, <2>4 DEF Space!Next, Space!Addresses
  <2> QED BY <2>5
<1> QED BY <1>3, <1>4

Extent(block) == block.start_address .. block.start_address + block.size - 1

\* A block that changes hands takes its addresses with it.
LEMMA ReplacedHands ==
  ASSUME Inv, Inv', NEW n \in 1 .. Len(blocks), NEW b,
         b.start_address = blocks[n].start_address, b.size = blocks[n].size,
         Len(blocks') = Len(blocks),
         \A k \in 1 .. Len(blocks) : blocks'[k] = IF k = n THEN b ELSE blocks[k]
  PROVE  RunHanded(Extent(b), blocks[n].process_name, b.process_name)
<1> SUFFICES ASSUME NEW x \in 0 .. max_memory_size - 1
             PROVE  Handed(x, Extent(b), blocks[n].process_name, b.process_name)
  BY DEF RunHanded
<1>1. Tiles(blocks) /\ x \in Int
  BY DEF Inv
<1>2. PICK j \in 1 .. Len(blocks) : Covers(blocks, j, x)
  BY <1>1, CoveredSomewhere
<1>3. Covers(blocks', j, x)
  BY <1>2 DEF Covers, Stop
<1>4. CASE j = n
  <2>1. x \in Extent(b)
    <3>1. blocks[n] \in Block
      BY <1>1, ElementOfSeq DEF Tiles
    <3> QED BY <1>1, <1>2, <1>4, <3>1 DEF Covers, Stop, Extent, Block
  <2> QED BY <1>2, <1>3, <1>4, <2>1 DEF Handed
<1>5. CASE j # n
  <2>1. x \notin Extent(b)
    <3>1. ~ Covers(blocks, n, x)
      BY <1>1, <1>2, <1>5, CoveredOnce
    <3>2. blocks[n] \in Block
      BY <1>1, ElementOfSeq DEF Tiles
    <3> QED BY <1>1, <3>1, <3>2 DEF Covers, Stop, Extent, Block
  <2> QED BY <1>2, <1>3, <1>5, <2>1 DEF Handed
<1> QED BY <1>4, <1>5

\* Of a block that is split, the new block's addresses change hands.
LEMMA SplitHands ==
  ASSUME Inv, Inv', NEW n \in 1 .. Len(blocks), NEW b \in Block, NEW r \in Block,
         SplitInto(blocks', blocks, n, b, r),
         b.start_address = blocks[n].start_address,
         r.start_address = Stop(b), Stop(r) = Stop(blocks[n]),
         r.process_name = blocks[n].process_name
  PROVE  RunHanded(Extent(b), blocks[n].process_name, b.process_name)
<1> SUFFICES ASSUME NEW x \in 0 .. max_memory_size - 1
             PROVE  Handed(x, Extent(b), blocks[n].process_name, b.process_name)
  BY DEF RunHanded
<1>1. Tiles(blocks) /\ x \in Int /\ Len(blocks) \in Nat /\ n \in Int
  BY DEF Inv, Tiles
<1>2. PICK j \in 1 .. Len(blocks) : Covers(blocks, j, x)
  BY <1>1, CoveredSomewhere
<1>3. /\ Len(blocks') = Len(blocks) + 1
      /\ \A k \in 1 .. Len(blocks) + 1 :
           blocks'[k] = IF k < n THEN blocks[k] ELSE IF k = n THEN b
                        ELSE IF k = n + 1 THEN r ELSE blocks[k - 1]
  BY DEF SplitInto
<1>4. /\ b.start_address \in Nat /\ b.size \in Nat /\ Stop(b) \in Nat
      /\ Stop(b) = b.start_address + b.size
  BY BlockFacts DEF Stop
<1>5. x \in Extent(b) <=> b.start_address <= x /\ x < Stop(b)
  BY <1>1, <1>4 DEF Extent
<1>6. CASE j = n
  <2>1. blocks[n].start_address <= x /\ x < Stop(blocks[n])
    BY <1>2, <1>6 DEF Covers
  <2>2. n \in 1 .. Len(blocks') /\ n + 1 \in 1 .. Len(blocks')
    BY <1>1, <1>3
  <2>3. blocks'[n] = b /\ blocks'[n + 1] = r
    <3>1. n \in 1 .. Len(blocks) + 1 /\ n + 1 \in 1 .. Len(blocks) + 1
          /\ ~ (n < n) /\ ~ (n + 1 < n) /\ n + 1 # n
      BY <1>1
    <3> QED BY <1>3, <3>1
  <2>4. CASE x < Stop(b)
    <3>1. Covers(blocks', n, x)
      BY <2>1, <2>2, <2>3, <2>4 DEF Covers
    <3> QED BY <1>2, <1>5, <1>6, <2>1, <2>2, <2>3, <2>4, <3>1 DEF Handed
  <2>5. CASE ~ (x < Stop(b))
    <3>1. Covers(blocks', n + 1, x)
      BY <1>1, <1>4, <2>1, <2>2, <2>3, <2>5 DEF Covers
    <3> QED BY <1>2, <1>5, <1>6, <2>2, <2>3, <2>5, <3>1 DEF Handed
  <2> QED BY <2>4, <2>5
<1>7. CASE j # n
  <2>1. x \notin Extent(b)
    <3>1. ~ Covers(blocks, n, x)
      BY <1>1, <1>2, <1>7, CoveredOnce
    <3>2. ~ (blocks[n].start_address <= x /\ x < Stop(blocks[n]))
      BY <3>1 DEF Covers
    <3>3. Stop(b) <= Stop(r)
      BY BlockFacts DEF Stop
    <3> QED BY <1>1, <1>4, <1>5, <3>2, <3>3, BlockFacts
  <2>2. PICK m \in 1 .. Len(blocks') : blocks'[m] = blocks[j]
    <3>1. CASE j < n
      <4>1. j \in 1 .. Len(blocks) + 1
        BY <1>1
      <4>2. blocks'[j] = blocks[j]
        BY <1>3, <3>1, <4>1
      <4> QED BY <1>3, <4>1, <4>2
    <3>2. CASE j > n
      <4>1. /\ j + 1 \in 1 .. Len(blocks) + 1 /\ (j + 1) - 1 = j
            /\ ~ (j + 1 < n) /\ j + 1 # n /\ j + 1 # n + 1
        BY <1>1, <3>2
      <4>2. blocks'[j + 1] = blocks[j]
        BY <1>3, <4>1
      <4> QED BY <1>3, <4>1, <4>2
    <3>3. j < n \/ j > n
      BY <1>1, <1>7
    <3> QED BY <3>1, <3>2, <3>3
  <2>3. Covers(blocks', m, x)
    BY <1>2, <2>2 DEF Covers
  <2> QED BY <1>2, <2>1, <2>2, <2>3 DEF Handed
<1> QED BY <1>6, <1>7

\* Free blocks that are merged stay free.
LEMMA MergedHands ==
  ASSUME Inv, Inv', MergeNext
  PROVE  RunHanded(0 .. 0 + 0 - 1, FREE, FREE)
<1> SUFFICES ASSUME NEW x \in 0 .. max_memory_size - 1
             PROVE  Handed(x, 0 .. 0 + 0 - 1, FREE, FREE)
  BY DEF RunHanded
<1> DEFINE b == [blocks[current] EXCEPT !.size = @ + blocks[current + 1].size]
           p == RemoveAt([blocks EXCEPT ![current].size = @ + blocks[current + 1].size],
                         current + 1)
<1>1. /\ Tiles(blocks) /\ x \in Int /\ Len(blocks) \in Nat /\ current \in Nat
      /\ current \in 1 .. Len(blocks) - 1
  BY DEF Inv, Tiles, MergeNext, InPass
<1>2. PICK j \in 1 .. Len(blocks) : Covers(blocks, j, x)
  BY <1>1, CoveredSomewhere
<1>3. /\ b \in Block /\ b.process_name = blocks[current].process_name
      /\ b.start_address = blocks[current].start_address /\ Stop(b) = Stop(blocks[current + 1])
      /\ p \in Seq(Block) /\ Len(p) = Len(blocks) - 1
      /\ \A k \in 1 .. Len(blocks) - 1 :
           p[k] = IF k < current THEN blocks[k] ELSE IF k = current THEN b ELSE blocks[k + 1]
  BY <1>1, MergeFacts
<1>4. blocks' = p
  BY DEF MergeNext, SizeOf
<1> HIDE DEF b, p
<1>5. /\ blocks[current].process_name = FREE /\ blocks[current + 1].process_name = FREE
      /\ blocks[current + 1].start_address = Stop(blocks[current])
      /\ blocks[current] \in Block /\ blocks[current + 1] \in Block
  <2>1. current \in 1 .. Len(blocks) /\ current + 1 \in 1 .. Len(blocks)
    BY <1>1
  <2> QED BY <1>1, <2>1, ElementOfSeq DEF MergeNext, Mergeable, IsFree, Tiles
<1>6. PICK m \in 1 .. Len(p) : /\ Covers(p, m, x)
                               /\ p[m].process_name = blocks[j].process_name
  <2>1. CASE j < current
    <3>1. j \in 1 .. Len(p) /\ p[j] = blocks[j]
      BY <1>1, <1>3, <2>1
    <3> QED BY <1>2, <3>1 DEF Covers
  <2>2. CASE j = current \/ j = current + 1
    <3>1. current \in 1 .. Len(p) /\ p[current] = b
      BY <1>1, <1>3
    <3>2. b.start_address <= x /\ x < Stop(b)
      <4>1. /\ blocks[current].start_address \in Nat /\ Stop(blocks[current]) \in Nat
            /\ Stop(blocks[current + 1]) \in Nat
            /\ blocks[current].start_address <= Stop(blocks[current])
            /\ Stop(blocks[current]) <= Stop(blocks[current + 1])
        BY <1>5 DEF Block, Stop
      <4> QED BY <1>1, <1>2, <1>3, <1>5, <2>2, <4>1 DEF Covers
    <3> QED BY <1>3, <1>5, <2>2, <3>1, <3>2 DEF Covers
  <2>3. CASE j > current + 1
    <3>1. /\ j - 1 \in 1 .. Len(blocks) - 1 /\ (j - 1) + 1 = j
          /\ ~ (j - 1 < current) /\ j - 1 # current
      BY <1>1, <2>3
    <3>2. j - 1 \in 1 .. Len(p) /\ p[j - 1] = blocks[j]
      BY <1>3, <3>1
    <3> QED BY <1>2, <3>2 DEF Covers
  <2>4. j < current \/ j = current \/ j = current + 1 \/ j > current + 1
    BY <1>1
  <2> QED BY <2>1, <2>2, <2>3, <2>4
<1>7. x \notin 0 .. 0 + 0 - 1
  OBVIOUS
<1> QED BY <1>2, <1>4, <1>6, <1>7 DEF Handed

LEMMA SpaceAllocate ==
  ASSUME Inv, Inv', NEW process \in Names, NEW size \in Sizes, NEW strategy \in Strategies,
         allocateMemory(process, size, strategy)
  PROVE  [Space!Next]_AddressOwner
<1> DEFINE n   == Chosen(strategy, size)
           new == [process_name  |-> process,
                   start_address |-> blocks[n].start_address,
                   size          |-> size]
           rem == Remainder(n, size)
<1>1. n \in DOMAIN blocks /\ SizeOf(n) >= size /\ IsFree(n)
  BY ChosenFits DEF allocateMemory, Fitting
<1>2. /\ blocks \in Seq(Block) /\ Tiles(blocks) /\ DOMAIN blocks = 1 .. Len(blocks)
      /\ n \in 1 .. Len(blocks) /\ blocks[n].process_name = FREE
  BY <1>1 DEF Inv, Tiles, IsFree
<1>3. /\ blocks[n] \in Block /\ blocks[n].start_address \in Nat /\ blocks[n].size \in Nat
      /\ size \in Nat /\ size <= blocks[n].size
      /\ blocks[n].start_address + blocks[n].size <= max_memory_size
      /\ max_memory_size \in Nat
  BY <1>1, <1>2, ElementOfSeq, BlockFacts, MemoryAssumption DEF Tiles, Stop, SizeOf
<1>4. /\ new \in Block /\ new.start_address = blocks[n].start_address /\ new.size = size
      /\ new.process_name = process
  BY <1>3 DEF Block
<1>5. RunHanded(Extent(new), FREE, process)
  <2>1. CASE SizeOf(n) = size /\ blocks' = ReplaceAt(blocks, n, new)
    <3>1. /\ Len(blocks') = Len(blocks)
          /\ \A k \in 1 .. Len(blocks) : blocks'[k] = IF k = n THEN new ELSE blocks[k]
      BY <1>2, <1>4, <2>1, ExceptSeq DEF ReplaceAt
    <3>2. new.size = blocks[n].size
      BY <2>1 DEF SizeOf
    <3> HIDE DEF n, new
    <3>3. RunHanded(Extent(new), blocks[n].process_name, new.process_name)
      BY <1>2, <1>4, <3>1, <3>2, ReplacedHands
    <3> QED BY <1>2, <1>4, <3>3
  <2>2. CASE SizeOf(n) # size /\ blocks' = InsertAt(ReplaceAt(blocks, n, rem), n, new)
    <3>1. blocks[n].size - size \in Nat
      BY <1>3
    <3>2. /\ rem \in Block /\ rem.start_address = blocks[n].start_address + size
          /\ rem.size = blocks[n].size - size
      BY <1>3, <3>1, RemainderFacts DEF Remainder
    <3>3. rem.process_name = blocks[n].process_name
      BY <1>3 DEF Remainder, Block
    <3>4. rem.start_address = Stop(new) /\ Stop(rem) = Stop(blocks[n])
      BY <1>3, <1>4, <3>2 DEF Stop
    <3> HIDE DEF n, new, rem
    <3>5. SplitInto(blocks', blocks, n, new, rem)
      BY <1>2, <1>4, <2>2, <3>2, SplitFacts
    <3>6. RunHanded(Extent(new), blocks[n].process_name, new.process_name)
      BY <1>2, <1>4, <3>2, <3>3, <3>4, <3>5, SplitHands
    <3> QED BY <1>2, <1>4, <3>6
  <2> QED BY <2>1, <2>2 DEF allocateMemory
<1>6. Extent(new) = blocks[n].start_address .. blocks[n].start_address + size - 1
  BY <1>4 DEF Extent
<1>7. blocks[n].start_address + size <= max_memory_size
  BY <1>3
<1> HIDE DEF n, new, rem
<1>8. FREE \in Names
  BY DEF Names
<1> QED BY <1>3, <1>5, <1>6, <1>7, <1>8, HandedStep

LEMMA SpaceRelease ==
  ASSUME Inv, Inv', NEW process \in Names, releaseMemory(process)
  PROVE  [Space!Next]_AddressOwner
<1> DEFINE n == Least(BlocksOf(process))
           b == [blocks[n] EXCEPT !.process_name = FREE]
<1>1. /\ blocks \in Seq(Block) /\ Tiles(blocks) /\ Len(blocks) \in Nat
      /\ DOMAIN blocks = 1 .. Len(blocks)
  BY DEF Inv, Tiles
<1>2. BlocksOf(process) \in SUBSET Nat /\ BlocksOf(process) # {}
  BY <1>1 DEF releaseMemory, BlocksOf
<1>3. n \in 1 .. Len(blocks) /\ blocks[n].process_name = process
  BY <1>1, <1>2, LeastFacts DEF BlocksOf
<1>4. blocks[n] \in Block
  BY <1>1, <1>3, ElementOfSeq
<1>5. /\ b \in Block /\ b.start_address = blocks[n].start_address
      /\ b.size = blocks[n].size /\ b.process_name = FREE
  BY <1>4 DEF Block, Names
<1>6. blocks' = [blocks EXCEPT ![n] = b]
  BY DEF releaseMemory
<1> HIDE DEF n, b
<1>7. /\ Len(blocks') = Len(blocks)
      /\ \A k \in 1 .. Len(blocks) : blocks'[k] = IF k = n THEN b ELSE blocks[k]
  BY <1>1, <1>3, <1>5, <1>6, ExceptSeq
<1>8. RunHanded(Extent(b), process, FREE)
  <2>1. RunHanded(Extent(b), blocks[n].process_name, b.process_name)
    BY <1>3, <1>5, <1>7, ReplacedHands
  <2> QED BY <1>3, <1>5, <2>1
<1>9. /\ b.start_address \in Nat /\ b.size \in Nat
      /\ b.start_address + b.size <= max_memory_size
  BY <1>1, <1>3, <1>5, BlockFacts DEF Tiles, Stop
<1>10. FREE \in Names
  BY DEF Names
<1> QED BY <1>8, <1>9, <1>10, HandedStep DEF Extent

LEMMA SpaceCompact == Inv /\ Inv' /\ (CompactBegin \/ compactStep) => [Space!Next]_AddressOwner
<1> SUFFICES ASSUME Inv, Inv', CompactBegin \/ compactStep PROVE [Space!Next]_AddressOwner
  OBVIOUS
<1>1. CASE MergeNext
  <2>1. /\ 0 \in Nat /\ 0 + 0 <= max_memory_size /\ FREE \in Names
    BY MemoryAssumption DEF Names
  <2> QED BY <1>1, <2>1, MergedHands, HandedStep
<1>2. CASE blocks' = blocks
  BY <1>2 DEF AddressOwner, End
<1> QED BY <1>1, <1>2 DEF compactStep, CompactBegin, StepOver, NextPass, CompactEnd

LEMMA SpaceInit == Init => Space!Init
<1> SUFFICES ASSUME Init PROVE Space!Init
  OBVIOUS
<1>1. Inv /\ OwnersTold
  BY InvInit, OwnersToldHolds
<1>2. Len(blocks) = 1 /\ blocks[1].process_name = FREE
  BY DEF Init
<1>3. ASSUME NEW x \in 0 .. max_memory_size - 1 PROVE AddressOwner[x] = FREE
  <2>1. PICK n \in 1 .. Len(blocks) : Covers(blocks, n, x)
    BY <1>1, CoveredSomewhere DEF Inv
  <2>2. n = 1
    BY <1>2
  <2> QED BY <1>1, <1>2, <2>1, <2>2 DEF OwnersTold
<1>4. AddressOwner = [x \in 0 .. max_memory_size - 1 |-> AddressOwner[x]]
  BY DEF AddressOwner
<1> QED BY <1>3, <1>4 DEF Space!Init, Space!Addresses

LEMMA SpaceStep == Inv /\ Inv' /\ [Next]_vars => [Space!Next]_AddressOwner
<1>1. UNCHANGED vars => AddressOwner' = AddressOwner
  BY DEF vars, AddressOwner, End
<1> QED BY <1>1, SpaceAllocate, SpaceRelease, SpaceCompact DEF Next

\* The allocator implements the address space, for every size of the memory and
\* all requests: a request by any strategy takes consecutive free addresses, RL
\* frees those of one block of the process, and compactMemory() changes no owner.
THEOREM MemoryIsAddressSpace == Spec => ImplementsAddressSpace
<1> QED BY InvInit, InvStep, SpaceInit, SpaceStep, PTL
        DEF Spec, ImplementsAddressSpace, Space!Spec

-----------------------------------------------------------------------------
(* Compaction.                                                             *)

\* A pass that has merged nothing has found no two free neighbours so far.
PassInv ==
  pc = "compact" /\ ~ f =>
    \A i \in 1 .. Len(blocks) - 1 : i < current => ~ (IsFree(i) /\ IsFree(i + 1))

LEMMA PassInit == Init => PassInv
BY DEF Init, PassInv

LEMMA PassStep == Inv /\ PassInv /\ [Next]_vars => PassInv'
<1> SUFFICES ASSUME Inv, PassInv, [Next]_vars PROVE PassInv'
  OBVIOUS
<1>1. CASE pc' = "command" \/ f' = TRUE
  BY <1>1 DEF PassInv
<1>2. CASE CompactBegin \/ NextPass
  BY <1>2 DEF CompactBegin, NextPass, PassInv
<1>3. CASE StepOver
  <2>1. current \in Nat /\ blocks' = blocks /\ pc' = pc /\ f' = f /\ current' = current + 1
    BY <1>3 DEF StepOver, Inv
  <2>2. ASSUME pc = "compact", ~ f, NEW i \in 1 .. Len(blocks) - 1, i < current + 1
        PROVE  ~ (IsFree(i) /\ IsFree(i + 1))
    <3>1. i < current \/ i = current
      BY <2>1, <2>2
    <3> QED BY <1>3, <2>2, <3>1 DEF PassInv, StepOver, Mergeable
  <2> QED BY <2>1, <2>2 DEF PassInv, IsFree
<1>4. CASE UNCHANGED vars
  BY <1>4 DEF vars, PassInv, IsFree
<1>5. ASSUME NEW process \in Names, NEW size \in Sizes, NEW strategy \in Strategies,
             allocateMemory(process, size, strategy)
      PROVE  pc' # "compact"
  BY <1>5 DEF allocateMemory
<1>6. ASSUME NEW process \in Names, releaseMemory(process)
      PROVE  pc' # "compact"
  BY <1>6 DEF releaseMemory
<1>7. CASE MergeNext \/ CompactEnd
  BY <1>1, <1>7 DEF MergeNext, CompactEnd
<1>8. pc' # "compact" => PassInv'
  BY DEF PassInv
<1> QED BY <1>2, <1>3, <1>4, <1>5, <1>6, <1>7, <1>8 DEF Next, compactStep

LEMMA CompleteStep ==
  Inv /\ PassInv /\ [Next]_vars => (pc = "compact" /\ pc' = "command" => NoFreeNeighbours')
<1> SUFFICES ASSUME Inv, PassInv, [Next]_vars, pc = "compact", pc' = "command"
             PROVE  NoFreeNeighbours'
  OBVIOUS
<1>1. CompactEnd
  BY DEF Next, vars, allocateMemory, releaseMemory, CompactBegin, compactStep,
         MergeNext, StepOver, NextPass
<1>2. Len(blocks) \in Nat /\ current \in Nat /\ blocks' = blocks
  BY <1>1 DEF Inv, Tiles, CompactEnd
<1>3. ~ f /\ \A i \in 1 .. Len(blocks) - 1 : i < current
  BY <1>1, <1>2 DEF CompactEnd, InPass
<1>4. NoFreeNeighbours
  BY <1>3 DEF PassInv, NoFreeNeighbours
<1> QED BY <1>2, <1>4 DEF NoFreeNeighbours, IsFree

\* When compactMemory() returns, no two free blocks are neighbours, however many
\* blocks there are: its last pass has merged nothing, so every pair that it
\* looked at is still as it was then.
THEOREM CompactionLeavesNoNeighbours == Spec => CompactionComplete
<1>1. Spec => [](Inv /\ PassInv)
  BY InvInit, PassInit, InvStep, PassStep, PTL DEF Spec
<1> QED BY <1>1, CompleteStep, PTL DEF Spec, CompactionComplete

=============================================================================
