------------------------ MODULE VirtualMemoryProofs ------------------------
(***************************************************************************)
(* Proofs about the two virtual memory managers of lab05, for every number *)
(* of pages and every size of the buffer and the table.                    *)
(*                                                                         *)
(* VirtualMemory: the frames in use are counted by the pages that are      *)
(* loaded, and an entry of the page table is either one of the initial     *)
(* zeros or maps its own page to a frame that holds it.                    *)
(*                                                                         *)
(* VirtualMemoryFIFO: the counts order the entries by age, and stale       *)
(* entries still map to a frame with the right page, because frames are    *)
(* never used again.                                                       *)
(***************************************************************************)
EXTENDS VirtualMemoryFIFO, FiniteSetTheorems, WellFoundedInduction, TLAPS

\* A set of naturals that is not empty has a least member.
LEMMA LeastProperties ==
  ASSUME NEW S, S \subseteq Nat, S # {}
  PROVE  Least(S) \in S /\ \A y \in S : Least(S) <= y
<1> DEFINE R == OpToRel(<, Nat)
<1>1. IsWellFoundedOn(R, Nat)
  BY NatLessThanWellFounded
<1>2. \E x \in S : \A y \in S : <<y, x>> \notin R
  <2> HIDE DEF R
  <2> QED BY <1>1, WFMin
<1>3. \A x, y \in Nat : <<y, x>> \in R <=> y < x
  BY DEF OpToRel
<1>4. \E x \in S : \A y \in S : x <= y
  <2> HIDE DEF R
  <2>1. PICK x \in S : \A y \in S : <<y, x>> \notin R
    BY <1>2
  <2>2. \A y \in S : ~ (y < x)
    BY <2>1, <1>3, Zenon
  <2>3. \A y \in S : x <= y
    BY <2>2, SMT
  <2> QED BY <2>3
<1> QED BY <1>4, Zenon DEF Least

\* The constants and the sets made of them.
LEMMA ConstantFacts ==
  /\ PAGES \in Nat /\ PAGES > 1
  /\ TLB_SIZE \in Nat /\ TLB_SIZE > 0
  /\ 0 \in Pages /\ Pages \subseteq Nat
  /\ 0 \in TlbSlots /\ TlbSlots \subseteq Nat
  /\ ZEROS \notin Pages
BY PagesAssumption DEF Pages, TlbSlots

-----------------------------------------------------------------------------
(* The inductive invariant.                                                *)

\* the pages that were loaded by a fault
LoadedPages == {p \in Pages \ {0} : page_table[p].page = p}

Types ==
  /\ tlb \in [TlbSlots -> Entry]
  /\ tlbindex \in TlbSlots
  /\ page_table \in [Pages -> Entry]
  /\ main_memory \in [Frames -> Pages \union {ZEROS}]
  /\ output \in [page : Pages, frame : Frames, content : Pages \union {ZEROS}]

\* an entry for page p is unused, or maps p to a frame that holds it
Sound(p) ==
  \/ page_table[p] = ZeroEntry
  \/ /\ p # 0
     /\ page_table[p].page = p
     /\ page_table[p].frame < init
     /\ main_memory[page_table[p].frame] = p

FramesCounted == init = Cardinality(LoadedPages)

Inv ==
  /\ Types
  /\ FramesCounted
  /\ \A p \in Pages : Sound(p)
  /\ TlbAgreesWithTable
  /\ ReadsOtherPages

\* Page 0 is never loaded, so one frame at least is left.
LEMMA FramesLeft ==
  IsFiniteSet(LoadedPages) /\ Cardinality(LoadedPages) \in 0 .. PAGES - 1
<1>1. /\ IsFiniteSet(1 .. PAGES - 1)
      /\ Cardinality(1 .. PAGES - 1) = PAGES - 1
  BY FS_Interval, ConstantFacts
<1>2. LoadedPages \in SUBSET (1 .. PAGES - 1)
  BY ConstantFacts DEF LoadedPages, Pages
<1>3. IsFiniteSet(LoadedPages) /\ Cardinality(LoadedPages) <= Cardinality(1 .. PAGES - 1)
  BY <1>1, <1>2, FS_Subset
<1>4. Cardinality(LoadedPages) \in Nat
  BY <1>3, FS_CardinalityType
<1> QED BY <1>1, <1>3, <1>4, ConstantFacts

LEMMA InvImpliesTypeOK == Inv => TypeOK
BY FramesLeft DEF Inv, Types, FramesCounted, TypeOK

LEMMA InvInit == Init => Inv
<1> SUFFICES ASSUME Init PROVE Inv
  OBVIOUS
<1> USE ConstantFacts DEF Init, ZeroEntry
<1>1. Types
  BY DEF Types, Entry, Frames
<1>2. FramesCounted
  <2>1. LoadedPages = {}
    BY DEF LoadedPages
  <2> QED BY <2>1, FS_EmptySet DEF FramesCounted
<1>3. \A p \in Pages : Sound(p)
  BY DEF Sound
<1>4. TlbAgreesWithTable
  BY DEF TlbAgreesWithTable
<1>5. ReadsOtherPages
  BY DEF ReadsOtherPages
<1> QED BY <1>1, <1>2, <1>3, <1>4, <1>5 DEF Inv

-----------------------------------------------------------------------------
(* The searches.                                                           *)

\* The entry of the buffer that a search stops at.
LEMMA TlbEntry ==
  ASSUME NEW page \in Pages, TlbMatches(page) # {}
  PROVE  /\ Least(TlbMatches(page)) \in TlbSlots
         /\ tlb[Least(TlbMatches(page))].page = page
<1>1. TlbMatches(page) \subseteq Nat
  BY ConstantFacts DEF TlbMatches
<1>2. Least(TlbMatches(page)) \in TlbMatches(page)
  BY <1>1, LeastProperties
<1> QED BY <1>2 DEF TlbMatches

\* The entry of the table that a search stops at is equal to the one of the page.
LEMMA TableEntry ==
  ASSUME NEW page \in Pages, Types, \A p \in Pages : Sound(p), TableMatches(page) # {}
  PROVE  /\ page_table[Least(TableMatches(page))] = page_table[page]
         /\ page_table[page].page = page
<1> DEFINE m == Least(TableMatches(page))
<1>1. TableMatches(page) \subseteq Nat
  BY ConstantFacts DEF TableMatches
<1>2. m \in Pages /\ page_table[m].page = page
  <2>1. m \in TableMatches(page)
    BY <1>1, LeastProperties
  <2> QED BY <2>1 DEF TableMatches
<1>3. Sound(m) /\ Sound(page) /\ Sound(0)
  BY <1>2, ConstantFacts
<1>4. page_table[0] = ZeroEntry
  BY <1>3 DEF Sound
<1> HIDE DEF m
<1>5. CASE page = 0
  <2>1. page_table[m] = ZeroEntry
    BY <1>2, <1>3, <1>5 DEF Sound
  <2> QED BY <2>1, <1>4, <1>5 DEF ZeroEntry, m
<1>6. CASE page # 0
  <2>1. page_table[m].page = m
    BY <1>2, <1>3, <1>6 DEF Sound, ZeroEntry
  <2> QED BY <2>1, <1>2 DEF m
<1> QED BY <1>5, <1>6

\* What is remembered in the buffer agrees with the table, if it did before and
\* the new entry does.
LEMMA RememberAgrees ==
  ASSUME Types, TlbAgreesWithTable, NEW e \in Entry, Remember(e),
         page_table'[e.page] = e,
         \A i \in TlbSlots : page_table'[tlb[i].page] = page_table[tlb[i].page]
  PROVE  /\ tlb' \in [TlbSlots -> Entry]
         /\ tlbindex' \in TlbSlots
         /\ TlbAgreesWithTable'
<1>1. tlb' \in [TlbSlots -> Entry]
  BY DEF Remember, Types
<1>2. tlbindex' \in TlbSlots
  BY ConstantFacts DEF Remember, Types, TlbSlots
<1>3. ASSUME NEW i \in TlbSlots
      PROVE  page_table'[tlb'[i].page] = tlb'[i]
  <2>1. tlb'[i] = IF i = tlbindex THEN e ELSE tlb[i]
    BY DEF Remember, Types
  <2> QED BY <2>1, <1>3 DEF TlbAgreesWithTable
<1> QED BY <1>1, <1>2, <1>3 DEF TlbAgreesWithTable

-----------------------------------------------------------------------------
(* The steps.                                                              *)

LEMMA InvStep == Inv /\ [Next]_vars => Inv'
<1> SUFFICES ASSUME Inv, [Next]_vars PROVE Inv'
  OBVIOUS
<1> USE ConstantFacts
<1>0. /\ Types /\ FramesCounted /\ TlbAgreesWithTable /\ ReadsOtherPages
      /\ \A p \in Pages : Sound(p)
  BY DEF Inv
<1>1. ASSUME NEW page \in Pages, TlbHit(page) PROVE Inv'
  <2> DEFINE k == Least(TlbMatches(page))
  <2>1. k \in TlbSlots /\ tlb[k].page = page
    BY <1>1, TlbEntry DEF TlbHit
  <2>2. UNCHANGED <<tlb, tlbindex, page_table, main_memory, init>>
    BY <1>1 DEF TlbHit
  <2>3. output' = [page |-> page, frame |-> tlb[k].frame, content |-> main_memory[tlb[k].frame]]
    BY <1>1 DEF TlbHit, WriteLine
  <2> HIDE DEF k
  <2>4. tlb[k] \in Entry /\ page_table[page] = tlb[k] /\ Sound(page)
    BY <2>1, <1>0 DEF Types, TlbAgreesWithTable
  <2>5. Types'
    BY <2>2, <2>3, <2>4, <1>0 DEF Types, Entry, Frames
  <2>6. ReadsOtherPages'
    BY <2>1, <2>3, <2>4 DEF ReadsOtherPages, Sound, ZeroEntry
  <2>7. /\ FramesCounted' /\ TlbAgreesWithTable'
        /\ \A p \in Pages : Sound(p)'
    BY <2>2, <1>0 DEF FramesCounted, LoadedPages, TlbAgreesWithTable, Sound
  <2> QED BY <2>5, <2>6, <2>7 DEF Inv
<1>2. ASSUME NEW page \in Pages, TableHit(page) PROVE Inv'
  <2> DEFINE e == page_table[page]
  <2>1. page_table[Least(TableMatches(page))] = e /\ e.page = page
    BY <1>0, <1>2, TableEntry DEF TableHit
  <2>2. e \in Entry /\ e = [page |-> page, frame |-> e.frame]
    BY <2>1, <1>0 DEF Types, Entry
  <2>3. Remember(e) /\ UNCHANGED <<page_table, main_memory, init>>
    BY <1>2, <2>1, <2>2 DEF TableHit
  <2>4. output' = [page |-> page, frame |-> e.frame, content |-> main_memory[e.frame]]
    BY <1>2, <2>1 DEF TableHit, WriteLine
  <2>5. Sound(page)
    BY <1>0
  <2>6. page_table'[e.page] = e
    BY <2>1, <2>3
  <2> HIDE DEF e
  <2>7. /\ tlb' \in [TlbSlots -> Entry]
        /\ tlbindex' \in TlbSlots
        /\ TlbAgreesWithTable'
    BY <1>0, <2>2, <2>3, <2>6, RememberAgrees
  <2>8. Types'
    BY <2>2, <2>3, <2>4, <2>7, <1>0 DEF Types, Entry, Frames
  <2>9. ReadsOtherPages'
    BY <2>1, <2>4, <2>5 DEF ReadsOtherPages, Sound, ZeroEntry, e
  <2>10. FramesCounted' /\ \A p \in Pages : Sound(p)'
    BY <2>3, <1>0 DEF FramesCounted, LoadedPages, Sound
  <2> QED BY <2>7, <2>8, <2>9, <2>10 DEF Inv
<1>3. ASSUME NEW page \in Pages, PageFault(page) PROVE Inv'
  <2> DEFINE e == [page |-> page, frame |-> init]
  <2>1. page # 0 /\ page \notin LoadedPages /\ page_table[page] = ZeroEntry
    <3>1. \A i \in Pages : page_table[i].page # page
      BY <1>3 DEF PageFault, TableMatches
    <3>2. Sound(0) /\ Sound(page)
      BY <1>0
    <3>3. page_table[0] = ZeroEntry
      BY <3>2 DEF Sound
    <3> QED BY <3>1, <3>2, <3>3 DEF Sound, LoadedPages, ZeroEntry
  <2>2. page_table' = [page_table EXCEPT ![page] = e]
    BY <1>3 DEF PageFault
  <2>3. \A p \in Pages : page_table'[p] = IF p = page THEN e ELSE page_table[p]
    BY <2>2, <1>0 DEF Types
  <2>4. LoadedPages' = LoadedPages \union {page}
    <3>1. LoadedPages' = {p \in Pages \ {0} : page_table'[p].page = p}
      BY DEF LoadedPages
    <3>2. \A p \in Pages : page_table'[p].page = p <=> p = page \/ page_table[p].page = p
      <4>1. e.page = page
        OBVIOUS
      <4> HIDE DEF e
      <4> QED BY <2>3, <4>1
    <3> QED BY <3>1, <3>2, <2>1 DEF LoadedPages
  <2>5. /\ init \in Nat
        /\ init' = init + 1
        /\ Cardinality(LoadedPages') = init + 1
    <3>1. Cardinality(LoadedPages \union {page}) = Cardinality(LoadedPages) + 1
      BY <2>1, FramesLeft, FS_AddElement
    <3>2. init = Cardinality(LoadedPages) /\ init' = init + 1
      BY <1>0, <1>3 DEF FramesCounted, PageFault
    <3> QED BY <3>1, <3>2, <2>4, FramesLeft
  <2>6. init + 1 <= PAGES - 1
    <3>1. LoadedPages' \in SUBSET (1 .. PAGES - 1)
      BY <2>4, <2>1 DEF LoadedPages, Pages
    <3>2. /\ IsFiniteSet(1 .. PAGES - 1)
          /\ Cardinality(1 .. PAGES - 1) = PAGES - 1
      BY FS_Interval
    <3>3. Cardinality(LoadedPages') <= Cardinality(1 .. PAGES - 1)
      BY <3>1, <3>2, FS_Subset
    <3> QED BY <3>2, <3>3, <2>5
  <2>7. e \in Entry /\ init \in Frames
    BY <2>5, <2>6 DEF Entry, Frames, Pages
  <2>8. main_memory' = [main_memory EXCEPT ![init] = page]
    BY <1>3 DEF PageFault
  <2>9. \A p \in Pages : Sound(p)'
    <3> SUFFICES ASSUME NEW p \in Pages PROVE Sound(p)'
      OBVIOUS
    <3>1. CASE p = page
      <4>1. page_table'[p] = e
        BY <3>1, <2>3
      <4>2. main_memory'[init] = p
        BY <3>1, <2>7, <2>8, <1>0 DEF Types
      <4> QED BY <4>1, <4>2, <3>1, <2>1, <2>5 DEF Sound
    <3>2. CASE p # page
      <4>1. page_table'[p] = page_table[p] /\ page_table[p] \in Entry /\ Sound(p)
        BY <3>2, <2>3, <1>0 DEF Types
      <4>2. CASE page_table[p] = ZeroEntry
        BY <4>1, <4>2 DEF Sound
      <4>3. CASE page_table[p] # ZeroEntry
        <5>1. page_table[p].frame \in Frames /\ page_table[p].frame # init
          BY <4>1, <4>3, <2>5 DEF Sound, Entry
        <5>2. main_memory'[page_table[p].frame] = main_memory[page_table[p].frame]
          BY <5>1, <2>8, <1>0 DEF Types
        <5>3. page_table[p].frame < init'
          <6>1. page_table[p].frame \in Nat
            BY <5>1 DEF Frames
          <6>2. page_table[p].frame < init
            BY <4>1, <4>3 DEF Sound
          <6> QED BY <6>1, <6>2, <2>5
        <5> QED BY <4>1, <4>3, <5>2, <5>3 DEF Sound
      <4> QED BY <4>2, <4>3
    <3> QED BY <3>1, <3>2
  <2>10. output' = [page |-> page, frame |-> init, content |-> page]
    BY <1>3 DEF PageFault, WriteLine
  <2>11. Remember(e)
    BY <1>3 DEF PageFault
  <2>12. page_table'[e.page] = e
    BY <2>3
  <2>13. \A i \in TlbSlots : page_table'[tlb[i].page] = page_table[tlb[i].page]
    <3> SUFFICES ASSUME NEW i \in TlbSlots
                 PROVE  page_table'[tlb[i].page] = page_table[tlb[i].page]
      OBVIOUS
    <3>1. tlb[i].page # page
      BY <1>3 DEF PageFault, TlbMatches
    <3>2. tlb[i].page \in Pages
      BY <1>0 DEF Types, Entry
    <3> QED BY <3>1, <3>2, <2>3
  <2>14. page_table' \in [Pages -> Entry]
    BY <2>2, <2>7, <1>0 DEF Types
  <2>15. main_memory' \in [Frames -> Pages \union {ZEROS}]
    BY <2>7, <2>8, <1>0 DEF Types
  <2>16. /\ tlb' \in [TlbSlots -> Entry]
         /\ tlbindex' \in TlbSlots
         /\ TlbAgreesWithTable'
    <3> HIDE DEF e
    <3> QED BY <1>0, <2>7, <2>11, <2>12, <2>13, RememberAgrees
  <2>17. Types'
    BY <2>7, <2>10, <2>14, <2>15, <2>16 DEF Types
  <2>18. FramesCounted' /\ ReadsOtherPages'
    BY <2>5, <2>10 DEF FramesCounted, ReadsOtherPages
  <2> QED BY <2>9, <2>16, <2>17, <2>18 DEF Inv
<1>4. ASSUME UNCHANGED vars PROVE Inv'
  BY <1>0, <1>4
     DEF vars, Inv, Types, FramesCounted, LoadedPages, Sound, TlbAgreesWithTable, ReadsOtherPages
<1> QED BY <1>1, <1>2, <1>3, <1>4 DEF Next

LEMMA InvAlways == Spec => []Inv
BY InvInit, InvStep, PTL DEF Spec

-----------------------------------------------------------------------------
(* The theorems.                                                           *)

\* Every variable keeps its type; in particular the frame counter never runs out
\* of main_memory, though no test in the code keeps it from doing so.
THEOREM TypeCorrect == Spec => []TypeOK
BY InvAlways, InvImpliesTypeOK, PTL

\* An entry of the buffer is always the one the page table has for its page.
THEOREM TlbNeverStale == Spec => []TlbAgreesWithTable
<1>1. Inv => TlbAgreesWithTable
  BY DEF Inv
<1> QED BY InvAlways, <1>1, PTL

\* Any page but page 0 is read from a frame that holds it.
THEOREM OtherPagesRead == Spec => []ReadsOtherPages
<1>1. Inv => ReadsOtherPages
  BY DEF Inv
<1> QED BY InvAlways, <1>1, PTL

\* Two pages that were loaded are in two frames.
THEOREM OnePagePerFrame == Spec => []FramesNotShared
<1>1. Inv => FramesNotShared
  BY DEF Inv, FramesNotShared, Sound, ZeroEntry
<1> QED BY InvAlways, <1>1, PTL

-----------------------------------------------------------------------------
(* The small page table.                                                   *)

\* The constants and the sets made of them.
LEMMA FIFOConstants ==
  /\ PAGES \in Nat /\ PAGES > 1
  /\ 0 \in Pages /\ LastPage \in Pages /\ Pages \subseteq Nat
  /\ TLB_SIZE \in Nat /\ TLB_SIZE > 0
  /\ 0 \in TlbSlots /\ TlbSlots \subseteq Nat
  /\ 0 \in TableSlots /\ TableSlots \subseteq Nat
  /\ MAX_TIME \in Nat
  /\ ZEROS \notin Pages
BY PagesAssumption, EntriesAssumption DEF Pages, LastPage, TlbSlots, TableSlots

\* The entry that a fault replaces has the highest count, and is the first of
\* those that have it.
LEMMA MaxIndexProperties ==
  ASSUME NEW times \in [TableSlots -> 0 .. MAX_TIME]
  PROVE  /\ MaxIndex(times) \in TableSlots
         /\ \A j \in TableSlots : times[j] <= times[MaxIndex(times)]
         /\ \A j \in TableSlots : times[j] = times[MaxIndex(times)] => MaxIndex(times) <= j
<1> USE FIFOConstants
<1> DEFINE Left    == {MAX_TIME - times[k] : k \in TableSlots}
           Highest == {k \in TableSlots : \A j \in TableSlots : times[j] <= times[k]}
<1>1. Left \subseteq Nat /\ Left # {}
  OBVIOUS
<1>2. PICK m \in TableSlots : \A j \in TableSlots : MAX_TIME - times[m] <= MAX_TIME - times[j]
  <2>1. Least(Left) \in Left /\ \A y \in Left : Least(Left) <= y
    BY <1>1, LeastProperties
  <2> QED BY <2>1
<1>3. Highest \subseteq Nat /\ Highest # {}
  <2>1. \A j \in TableSlots : times[j] <= times[m]
    BY <1>2
  <2> QED BY <2>1
<1>4. Least(Highest) \in Highest /\ \A y \in Highest : Least(Highest) <= y
  <2> HIDE DEF Highest
  <2> QED BY <1>3, LeastProperties
<1>5. MaxIndex(times) = Least(Highest)
  BY DEF MaxIndex
<1> QED BY <1>4, <1>5

-----------------------------------------------------------------------------
(* The inductive invariant.                                                *)

FIFOTypes ==
  /\ tlb \in [TlbSlots -> Entry]
  /\ tlbindex \in TlbSlots
  /\ page_table \in [TableSlots -> Entry]
  /\ page_table_time \in [TableSlots -> Nat]
  /\ main_memory \in [Frames -> Pages \union {ZEROS}]
  /\ init \in 0 .. PAGES

\* an entry for a page in the middle was made by a fault, and its frame has not
\* been written to since, because frames are handed out once
Holds(e) == e.page \notin {0, LastPage} => e.frame < init /\ main_memory[e.frame] = e.page

FIFOSound ==
  /\ \A k \in TlbSlots : Holds(tlb[k])
  /\ \A k \in TableSlots : Holds(page_table[k])

\* The counts order the entries that were loaded by their frames, and those that
\* were not are all of the same age, the highest.  The last frame may go to the
\* last page, whose entry looks like an unused one, but nothing is replaced then.
ByAge ==
  /\ \A k \in TableSlots : Loaded(k) => page_table[k].frame < init
  /\ init < PAGES =>
       \A k, m \in TableSlots :
         /\ Loaded(k) /\ Loaded(m) /\ page_table[k].frame < page_table[m].frame
              => page_table_time[m] < page_table_time[k]
         /\ Loaded(k) /\ ~ Loaded(m) => page_table_time[k] < page_table_time[m]
         /\ ~ Loaded(k) /\ ~ Loaded(m) => page_table_time[k] = page_table_time[m]

FIFOInv == FIFOTypes /\ FIFOSound /\ ByAge /\ ReadsMiddlePages

LEMMA FIFOInvInit == FIFOInit => FIFOInv
<1> SUFFICES ASSUME FIFOInit PROVE FIFOInv
  OBVIOUS
<1> USE FIFOConstants DEF FIFOInit, ZeroEntry, UnusedEntry
<1>1. FIFOTypes
  BY DEF FIFOTypes, Entry, Frames
<1>2. FIFOSound
  BY DEF FIFOSound, Holds
<1>3. ByAge
  BY DEF ByAge, Loaded
<1>4. ReadsMiddlePages
  BY DEF ReadsMiddlePages
<1> QED BY <1>1, <1>2, <1>3, <1>4 DEF FIFOInv

\* The searches stop at an entry for the page.
LEMMA FIFOTlbEntry ==
  ASSUME NEW page \in Pages, TlbMatches(page) # {}
  PROVE  /\ Least(TlbMatches(page)) \in TlbSlots
         /\ tlb[Least(TlbMatches(page))].page = page
<1>1. TlbMatches(page) \subseteq Nat
  BY FIFOConstants DEF TlbMatches
<1>2. Least(TlbMatches(page)) \in TlbMatches(page)
  BY <1>1, LeastProperties
<1> QED BY <1>2 DEF TlbMatches

LEMMA SlotEntry ==
  ASSUME NEW page \in Pages, SlotMatches(page) # {}
  PROVE  /\ Least(SlotMatches(page)) \in TableSlots
         /\ page_table[Least(SlotMatches(page))].page = page
<1>1. SlotMatches(page) \subseteq Nat
  BY FIFOConstants DEF SlotMatches
<1>2. Least(SlotMatches(page)) \in SlotMatches(page)
  BY <1>1, LeastProperties
<1> QED BY <1>2 DEF SlotMatches

\* Ageing keeps the counts in bounds, and their order.
LEMMA AgedFacts ==
  ASSUME FIFOTypes, Reading
  PROVE  /\ Aged \in [TableSlots -> Nat]
         /\ Aged \in [TableSlots -> 0 .. MAX_TIME]
         /\ \A k \in TableSlots : Aged[k] = page_table_time[k] + 1
BY FIFOConstants DEF FIFOTypes, Reading, Aged

\* Ageing alone, with the table as it is.
LEMMA AgeingKeepsOrder ==
  ASSUME FIFOInv, Reading, page_table_time' = Aged, UNCHANGED <<page_table, init>>
  PROVE  ByAge' /\ page_table_time' \in [TableSlots -> Nat]
<1>1. Aged \in [TableSlots -> Nat] /\ \A k \in TableSlots : Aged[k] = page_table_time[k] + 1
  BY AgedFacts DEF FIFOInv
<1>2. page_table_time \in [TableSlots -> Nat]
  BY DEF FIFOInv, FIFOTypes
<1>3. \A k \in TableSlots : Loaded(k)' <=> Loaded(k)
  BY DEF Loaded, UnusedEntry
<1> QED BY <1>1, <1>2, <1>3 DEF FIFOInv, ByAge

\* The buffer keeps its type when an entry is remembered.
LEMMA RememberTypes ==
  ASSUME FIFOTypes, NEW e \in Entry, Remember(e)
  PROVE  /\ tlb' \in [TlbSlots -> Entry] /\ tlbindex' \in TlbSlots
         /\ \A k \in TlbSlots : tlb'[k] = e \/ tlb'[k] = tlb[k]
BY FIFOConstants DEF FIFOTypes, Remember, TlbSlots

-----------------------------------------------------------------------------
(* A page fault: the facts about the entry that is replaced.               *)

LEMMA FaultFacts ==
  ASSUME FIFOInv, NEW page \in Pages, Replacement(page)
  PROVE  \E m \in TableSlots :
           /\ m = MaxIndex(Aged)
           /\ init \in Frames
           /\ page_table' = [page_table EXCEPT ![m] = [page |-> page, frame |-> init]]
           /\ page_table_time' = [Aged EXCEPT ![m] = 0]
           /\ \A j \in TableSlots : page_table_time[j] <= page_table_time[m]
           /\ \A j \in TableSlots : page_table_time[j] = page_table_time[m] => m <= j
<1> DEFINE m == MaxIndex(Aged)
<1>1. FIFOTypes /\ Reading /\ init < PAGES
  BY DEF FIFOInv, Replacement
<1>2. /\ Aged \in [TableSlots -> 0 .. MAX_TIME]
      /\ \A k \in TableSlots : Aged[k] = page_table_time[k] + 1
  BY <1>1, AgedFacts
<1>3. /\ m \in TableSlots
      /\ \A j \in TableSlots : Aged[j] <= Aged[m]
      /\ \A j \in TableSlots : Aged[j] = Aged[m] => m <= j
  BY <1>2, MaxIndexProperties
<1>4. init \in Frames
  BY <1>1, FIFOConstants DEF FIFOTypes, Frames, Pages
<1>5. /\ page_table' = [page_table EXCEPT ![m] = [page |-> page, frame |-> init]]
      /\ page_table_time' = [Aged EXCEPT ![m] = 0]
  BY DEF Replacement
<1> HIDE DEF m
<1>6. /\ \A j \in TableSlots : page_table_time[j] <= page_table_time[m]
      /\ \A j \in TableSlots : page_table_time[j] = page_table_time[m] => m <= j
  BY <1>1, <1>2, <1>3 DEF FIFOTypes
<1> QED BY <1>3, <1>4, <1>5, <1>6 DEF m

LEMMA FaultKeepsOrder ==
  ASSUME FIFOInv, NEW page \in Pages, Replacement(page)
  PROVE  ByAge'
<1> USE FIFOConstants
<1>1. PICK m \in TableSlots :
        /\ page_table' = [page_table EXCEPT ![m] = [page |-> page, frame |-> init]]
        /\ page_table_time' = [Aged EXCEPT ![m] = 0]
  BY FaultFacts
<1>2. FIFOTypes /\ Reading /\ init < PAGES /\ init' = init + 1 /\ init \in Nat
  BY DEF FIFOInv, FIFOTypes, Replacement
<1>3. \A k \in TableSlots : Aged[k] = page_table_time[k] + 1
  BY <1>2, AgedFacts
<1>4. \A k \in TableSlots \ {m} :
        /\ page_table'[k] = page_table[k]
        /\ page_table_time'[k] = page_table_time[k] + 1
        /\ Loaded(k)' <=> Loaded(k)
  <2>1. Aged \in [TableSlots -> Nat]
    BY <1>2, AgedFacts
  <2> QED BY <1>1, <1>2, <1>3, <2>1 DEF FIFOTypes, Loaded, UnusedEntry
<1>5. page_table'[m] = [page |-> page, frame |-> init] /\ page_table_time'[m] = 0
  <2>1. Aged \in [TableSlots -> Nat]
    BY <1>2, AgedFacts
  <2> QED BY <1>1, <1>2, <2>1 DEF FIFOTypes
<1>6. \A k \in TableSlots : page_table_time[k] \in Nat /\ page_table[k].frame \in Nat
  BY <1>2 DEF FIFOTypes, Entry, Frames
<1>7. \A k \in TableSlots : Loaded(k)' => page_table'[k].frame < init'
  <2>1. \A k \in TableSlots \ {m} : Loaded(k)' => page_table'[k].frame < init'
    BY <1>2, <1>4, <1>6 DEF FIFOInv, ByAge
  <2> QED BY <1>2, <1>5, <2>1
<1>8. ASSUME init' < PAGES, NEW k \in TableSlots, NEW n \in TableSlots
      PROVE  /\ Loaded(k)' /\ Loaded(n)' /\ page_table'[k].frame < page_table'[n].frame
                  => page_table_time'[n] < page_table_time'[k]
             /\ Loaded(k)' /\ ~ Loaded(n)' => page_table_time'[k] < page_table_time'[n]
             /\ ~ Loaded(k)' /\ ~ Loaded(n)' => page_table_time'[k] = page_table_time'[n]
  <2>1. Loaded(m)'
    BY <1>2, <1>5, <1>8 DEF Loaded, UnusedEntry, LastPage
  <2>2. CASE k # m /\ n # m
    BY <2>2, <1>2, <1>4, <1>6 DEF FIFOInv, ByAge
  <2>3. CASE k = m /\ n = m
    BY <2>1, <2>3, <1>2, <1>5
  <2>4. CASE k = m /\ n # m
    BY <2>1, <2>4, <1>2, <1>4, <1>5, <1>6 DEF FIFOInv, ByAge
  <2>5. CASE k # m /\ n = m
    BY <2>1, <2>5, <1>2, <1>4, <1>5, <1>6 DEF FIFOInv, ByAge
  <2> QED BY <2>2, <2>3, <2>4, <2>5
<1> QED BY <1>7, <1>8 DEF ByAge

LEMMA FIFOInvFault ==
  ASSUME FIFOInv, NEW page \in Pages, Replacement(page)
  PROVE  FIFOInv'
<1> USE FIFOConstants
<1>0. FIFOTypes /\ FIFOSound
  BY DEF FIFOInv
<1>1. PICK m \in TableSlots :
        /\ init \in Frames
        /\ m = MaxIndex(Aged)
        /\ page_table' = [page_table EXCEPT ![m] = [page |-> page, frame |-> init]]
        /\ page_table_time' = [Aged EXCEPT ![m] = 0]
  BY FaultFacts
<1>2. /\ init < PAGES /\ init' = init + 1 /\ init \in Nat
      /\ main_memory' = [main_memory EXCEPT ![init] = page]
      /\ output' = [page |-> page, frame |-> init, content |-> page]
      /\ Remember([page |-> page, frame |-> init])
  BY DEF FIFOInv, FIFOTypes, Replacement, WriteLine
<1>3. PICK e \in Entry : e = [page |-> page, frame |-> init]
  BY <1>1 DEF Entry
<1>4. /\ tlb' \in [TlbSlots -> Entry] /\ tlbindex' \in TlbSlots
      /\ \A k \in TlbSlots : tlb'[k] = e \/ tlb'[k] = tlb[k]
  BY <1>0, <1>2, <1>3, RememberTypes
<1>5. FIFOTypes'
  <2>1. Aged \in [TableSlots -> Nat]
    BY <1>0, AgedFacts DEF Replacement
  <2>2. page_table' \in [TableSlots -> Entry]
    BY <1>0, <1>1, <1>3 DEF FIFOTypes
  <2>3. init' \in 0 .. PAGES /\ page_table_time' \in [TableSlots -> Nat]
    BY <1>1, <1>2, <2>1
  <2> QED BY <1>0, <1>1, <1>2, <1>4, <2>2, <2>3 DEF FIFOTypes
<1>6. ASSUME NEW d \in Entry, Holds(d) PROVE Holds(d)'
  <2>1. d.frame \in Frames /\ d.frame \in Nat
    BY DEF Entry, Frames
  <2>2. CASE d.page \in {0, LastPage}
    BY <2>2 DEF Holds
  <2>3. CASE d.page \notin {0, LastPage}
    <3>1. d.frame < init /\ main_memory[d.frame] = d.page
      BY <1>6, <2>3 DEF Holds
    <3>2. main_memory'[d.frame] = main_memory[d.frame]
      BY <1>0, <1>1, <1>2, <2>1, <3>1 DEF FIFOTypes
    <3> QED BY <1>2, <2>1, <3>1, <3>2 DEF Holds
  <2> QED BY <2>2, <2>3
<1>7. Holds(e)'
  <2>1. e.page = page /\ e.frame = init
    BY <1>3
  <2>2. main_memory'[init] = page
    BY <1>0, <1>1, <1>2 DEF FIFOTypes
  <2> QED BY <1>2, <2>1, <2>2 DEF Holds
<1>8. FIFOSound'
  <2>1. \A k \in TableSlots : page_table'[k] = e \/ page_table'[k] = page_table[k]
    BY <1>0, <1>1, <1>3 DEF FIFOTypes
  <2> QED BY <1>0, <1>4, <1>6, <1>7, <2>1 DEF FIFOSound, FIFOTypes
<1>9. ReadsMiddlePages'
  BY <1>2 DEF ReadsMiddlePages
<1> QED BY <1>5, <1>8, <1>9, FaultKeepsOrder DEF FIFOInv

\* The hits leave the table as it is.
LEMMA FIFOInvHits ==
  ASSUME FIFOInv, NEW page \in Pages, AgedTlbHit(page) \/ AgedTableHit(page)
  PROVE  FIFOInv'
<1> USE FIFOConstants
<1>0. FIFOTypes /\ FIFOSound
  BY DEF FIFOInv
<1>1. ByAge' /\ page_table_time' \in [TableSlots -> Nat]
  BY AgeingKeepsOrder DEF AgedTlbHit, TlbHit, AgedTableHit
<1>2. UNCHANGED <<page_table, main_memory, init>>
  BY DEF AgedTlbHit, TlbHit, AgedTableHit
<1>3. ASSUME NEW e \in Entry, e.page = page, Holds(e), \A k \in TlbSlots : tlb'[k] \in {e, tlb[k]},
             tlb' \in [TlbSlots -> Entry], tlbindex' \in TlbSlots,
             output' = [page |-> page, frame |-> e.frame, content |-> main_memory[e.frame]]
      PROVE  FIFOInv'
  <2>1. FIFOTypes'
    BY <1>0, <1>1, <1>2, <1>3 DEF FIFOTypes
  <2>2. \A d \in Entry : Holds(d)' <=> Holds(d)
    BY <1>2 DEF Holds
  <2>3. FIFOSound'
    BY <1>0, <1>2, <1>3, <2>2 DEF FIFOSound, FIFOTypes
  <2>4. ReadsMiddlePages'
    BY <1>3 DEF ReadsMiddlePages, Holds
  <2> QED BY <1>1, <2>1, <2>3, <2>4 DEF FIFOInv
<1>4. CASE AgedTlbHit(page)
  <2> DEFINE e == tlb[Least(TlbMatches(page))]
  <2>1. e.page = page /\ e \in Entry /\ Holds(e)
    BY <1>0, <1>4, FIFOTlbEntry DEF AgedTlbHit, TlbHit, FIFOTypes, FIFOSound
  <2>2. /\ UNCHANGED <<tlb, tlbindex>>
        /\ output' = [page |-> page, frame |-> e.frame, content |-> main_memory[e.frame]]
    BY <1>4 DEF AgedTlbHit, TlbHit, WriteLine
  <2> HIDE DEF e
  <2> QED BY <1>0, <1>3, <2>1, <2>2 DEF FIFOTypes
<1>5. CASE AgedTableHit(page)
  <2> DEFINE e == page_table[Least(SlotMatches(page))]
  <2>1. e.page = page /\ e \in Entry /\ Holds(e)
    BY <1>0, <1>5, SlotEntry DEF AgedTableHit, FIFOTypes, FIFOSound
  <2>2. /\ Remember([page |-> page, frame |-> e.frame])
        /\ output' = [page |-> page, frame |-> e.frame, content |-> main_memory[e.frame]]
    BY <1>5 DEF AgedTableHit, WriteLine
  <2> HIDE DEF e
  <2>3. [page |-> page, frame |-> e.frame] = e
    BY <2>1 DEF Entry
  <2>4. Remember(e)
    BY <2>2, <2>3
  <2>5. /\ tlb' \in [TlbSlots -> Entry] /\ tlbindex' \in TlbSlots
        /\ \A k \in TlbSlots : tlb'[k] = e \/ tlb'[k] = tlb[k]
    BY <1>0, <2>1, <2>4, RememberTypes
  <2> QED BY <1>3, <2>1, <2>2, <2>5
<1> QED BY <1>4, <1>5

LEMMA FIFOInvStep == FIFOInv /\ [FIFONext]_fifovars => FIFOInv'
<1> SUFFICES ASSUME FIFOInv, [FIFONext]_fifovars PROVE FIFOInv'
  OBVIOUS
<1>1. ASSUME NEW page \in Pages, ReplacementPastEnd(page) PROVE FIFOInv'
  BY <1>1
     DEF ReplacementPastEnd, FIFOInv, FIFOTypes, FIFOSound, Holds, ByAge, Loaded, ReadsMiddlePages
<1>2. CASE UNCHANGED fifovars
  BY <1>2 DEF fifovars, FIFOInv, FIFOTypes, FIFOSound, Holds, ByAge, Loaded, ReadsMiddlePages
<1> QED BY <1>1, <1>2, FIFOInvHits, FIFOInvFault DEF FIFONext

-----------------------------------------------------------------------------
(* The theorems.                                                           *)

\* Stale entries of the buffer do no harm: a page other than the first and the
\* last is always read from a frame that holds it.
THEOREM MiddlePagesRead == FIFOSpec => []ReadsMiddlePages
<1>1. FIFOInv => ReadsMiddlePages
  BY DEF FIFOInv
<1> QED BY <1>1, FIFOInvInit, FIFOInvStep, PTL DEF FIFOSpec

\* A fault replaces the entry that was loaded first, and replaces none while one
\* is unused, for every size of the table.
THEOREM ReplacesOldest == FIFOSpec => FirstInFirstOut
<1> DEFINE Oldest ==
      \A i \in TableSlots :
        page_table'[i] # page_table[i] =>
          \A j \in TableSlots :
            IF Loaded(i)
            THEN Loaded(j) /\ page_table[i].frame <= page_table[j].frame
            ELSE i <= j \/ Loaded(j)
<1>1. ASSUME FIFOInv, [FIFONext]_fifovars PROVE Oldest
  <2>1. CASE UNCHANGED page_table
    BY <2>1
  <2>2. ASSUME NEW page \in Pages, Replacement(page) PROVE Oldest
    <3>1. PICK m \in TableSlots :
            /\ page_table' = [page_table EXCEPT ![m] = [page |-> page, frame |-> init]]
            /\ \A j \in TableSlots : page_table_time[j] <= page_table_time[m]
            /\ \A j \in TableSlots : page_table_time[j] = page_table_time[m] => m <= j
      BY <1>1, <2>2, FaultFacts
    <3>2. /\ FIFOTypes /\ ByAge /\ init < PAGES
          /\ \A k \in TableSlots : page_table_time[k] \in Nat /\ page_table[k].frame \in Nat
      BY <1>1, <2>2, FIFOConstants DEF FIFOInv, Replacement, FIFOTypes, Entry, Frames
    <3>3. \A i \in TableSlots : page_table'[i] # page_table[i] => i = m
      BY <3>1, <3>2 DEF FIFOTypes
    <3>4. ASSUME NEW j \in TableSlots
          PROVE  IF Loaded(m) THEN Loaded(j) /\ page_table[m].frame <= page_table[j].frame
                              ELSE m <= j \/ Loaded(j)
      BY <3>1, <3>2 DEF ByAge
    <3> QED BY <3>3, <3>4
  <2> QED BY <1>1, <2>1, <2>2
          DEF FIFONext, fifovars, AgedTlbHit, TlbHit, AgedTableHit, ReplacementPastEnd
<1>2. ASSUME FIFOInv, [FIFONext]_fifovars PROVE [Oldest]_fifovars
  BY <1>1, <1>2
<1> QED BY <1>2, FIFOInvInit, FIFOInvStep, PTL DEF FIFOSpec, FirstInFirstOut

=============================================================================
