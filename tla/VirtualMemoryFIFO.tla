------------------------- MODULE VirtualMemoryFIFO --------------------------
(***************************************************************************)
(* The second virtual memory manager of lab05 (lab5_2.cpp): the page table *)
(* has fewer entries than there are pages, each entry counts the addresses *)
(* since it was set, and a fault replaces the entry with the highest       *)
(* count.  The buffer and the memory are those of VirtualMemory.           *)
(*                                                                         *)
(* The entries are set to -1, which an unsigned char keeps as 255: the     *)
(* number of the last page.  The tests `page_table[i][0] != -1' and        *)
(* `== -1' are then always true and always false, so every entry counts    *)
(* and none is found to be free.  The frame number is cut to 8 bits when   *)
(* it is stored, and counts up without end when it is used; a fault past   *)
(* the last frame writes behind main_memory, and nothing is said of the    *)
(* program from there on.                                                  *)
(***************************************************************************)
EXTENDS VirtualMemory

CONSTANTS
  ENTRIES,   \* entries of the page table
  MAX_TIME   \* bound: an instance stops before a count passes it

ASSUME EntriesAssumption ==
  /\ ENTRIES \in Nat \ {0}
  /\ ENTRIES <= PAGES
  /\ MAX_TIME \in Nat

VARIABLES
  page_table_time,  \* the counts
  overrun           \* a page was read into a frame that does not exist

fifovars == <<tlb, tlbindex, page_table, page_table_time, main_memory, init, output, overrun>>

TableSlots == 0 .. ENTRIES - 1

LastPage    == PAGES - 1
UnusedEntry == [page |-> LastPage, frame |-> LastPage]

\* the entries that the search of the table can stop at; it takes the first
SlotMatches(page) == {i \in TableSlots : page_table[i].page = page}

\* fault: the counts are not compared, the first entry is taken
FirstEntry(times) == 0

\* the first of the entries with the highest count
MaxIndex(times) == Least({i \in TableSlots : \A j \in TableSlots : times[j] <= times[i]})

\* the loop at the top: every entry ages
Aged == [i \in TableSlots |-> page_table_time[i] + 1]

\* an address can be read: the program is defined, and the bound is not reached
Reading == ~ overrun /\ \A i \in TableSlots : page_table_time[i] < MAX_TIME

-----------------------------------------------------------------------------
AgedTlbHit(page) ==
  /\ Reading
  /\ TlbHit(page)
  /\ page_table_time' = Aged
  /\ UNCHANGED overrun

AgedTableHit(page) ==
  /\ Reading
  /\ TlbMatches(page) = {}
  /\ SlotMatches(page) # {}
  /\ LET frame == page_table[Least(SlotMatches(page))].frame
     IN  /\ Remember([page |-> page, frame |-> frame])
         /\ WriteLine(page, frame, main_memory[frame])
  /\ page_table_time' = Aged
  /\ UNCHANGED <<page_table, main_memory, init, overrun>>

\* fault: the page is read into the frame its entry had before
ReplacementReusing(page) ==
  /\ Reading
  /\ TlbMatches(page) = {}
  /\ SlotMatches(page) = {}
  /\ init < PAGES
  /\ LET max_index == MaxIndex(Aged)
         entry     == [page |-> page, frame |-> page_table[max_index].frame]
     IN  /\ page_table' = [page_table EXCEPT ![max_index] = entry]
         /\ page_table_time' = [Aged EXCEPT ![max_index] = 0]
         /\ main_memory' = [main_memory EXCEPT ![entry.frame] = page]
         /\ Remember(entry)
         /\ WriteLine(page, entry.frame, page)
  /\ init' = init + 1
  /\ UNCHANGED overrun

Replacement(page) ==
  /\ Reading
  /\ TlbMatches(page) = {}
  /\ SlotMatches(page) = {}
  /\ init < PAGES
  /\ LET max_index == MaxIndex(Aged)
         entry     == [page |-> page, frame |-> init]
     IN  /\ page_table' = [page_table EXCEPT ![max_index] = entry]
         /\ page_table_time' = [Aged EXCEPT ![max_index] = 0]
         /\ Remember(entry)
  /\ main_memory' = [main_memory EXCEPT ![init] = page]
  /\ WriteLine(page, init, page)
  /\ init' = init + 1
  /\ UNCHANGED overrun

ReplacementPastEnd(page) ==
  /\ Reading
  /\ TlbMatches(page) = {}
  /\ SlotMatches(page) = {}
  /\ init = PAGES
  /\ overrun' = TRUE
  /\ UNCHANGED <<tlb, tlbindex, page_table, page_table_time, main_memory, init, output>>

-----------------------------------------------------------------------------
FIFOInit ==
  /\ tlb = [i \in TlbSlots |-> ZeroEntry]
  /\ tlbindex = 0
  /\ page_table = [i \in TableSlots |-> UnusedEntry]
  /\ page_table_time = [i \in TableSlots |-> 0]
  /\ main_memory = [f \in Frames |-> ZEROS]
  /\ init = 0
  /\ output = [page |-> 0, frame |-> 0, content |-> 0]
  /\ overrun = FALSE

FIFONext ==
  \E page \in Pages :
    AgedTlbHit(page) \/ AgedTableHit(page) \/ Replacement(page) \/ ReplacementPastEnd(page)

FIFOSpec == FIFOInit /\ [][FIFONext]_fifovars

-----------------------------------------------------------------------------
(* Properties.                                                             *)

\* The entries that hold a page loaded by a fault.
Loaded(i) == page_table[i] # UnusedEntry

\* A fault replaces the page that came in first, and replaces none as long as an
\* entry has not been used: the counts order the entries by age although every
\* entry counts from the start and the test for a free one never succeeds.
\* (Frames are handed out in the order of the faults, so they tell the age.)
FirstInFirstOut ==
  [][\A i \in TableSlots :
       page_table'[i] # page_table[i] =>
         \A j \in TableSlots :
           IF Loaded(i)
           THEN Loaded(j) /\ page_table[i].frame <= page_table[j].frame
           ELSE i <= j \/ Loaded(j)]_fifovars

\* A page that was replaced in the page table stays in the buffer for a while.
\* That is harmless: a read of a page other than the first and the last, which
\* the initial entries stand for, delivers the contents of that page.
ReadsMiddlePages == output.page \notin {0, LastPage} => output.content = output.page

=============================================================================
