--------------------------- MODULE VirtualMemory ----------------------------
(***************************************************************************)
(* The first virtual memory manager of lab05 (lab5_1.cpp): a translation   *)
(* lookaside buffer, a page table with one entry for each logical page,    *)
(* and a physical memory that pages are loaded into on a fault.  One       *)
(* action for each way in which one address of the input is translated.    *)
(*                                                                         *)
(* An address is its page: the offset is the same in the logical and the   *)
(* physical address.  What a frame holds is the page that was read into    *)
(* it, or ZEROS.  All tables are static arrays, so they start as zeros:    *)
(* every entry of the buffer, and every entry of the page table, starts as *)
(* one that maps page 0 to frame 0.                                        *)
(***************************************************************************)
EXTENDS Integers, FiniteSets

CONSTANTS
  PAGES,     \* logical pages, and frames: 256 in the code
  TLB_SIZE,  \* entries of the buffer: 16 in the code
  ZEROS      \* what a frame holds before a page is read into it

ASSUME PagesAssumption ==
  /\ PAGES \in Nat \ {0, 1}
  /\ TLB_SIZE \in Nat \ {0}
  /\ ZEROS \notin 0 .. PAGES - 1

VARIABLES
  tlb,          \* the buffer
  tlbindex,     \* the entry that is filled next (the code's tlbindex % 16)
  page_table,
  main_memory,  \* the page that each frame holds
  init,         \* the next free frame, which is also the number of faults
  output        \* the last line written: page, frame and what was read there

vars == <<tlb, tlbindex, page_table, main_memory, init, output>>

Pages    == 0 .. PAGES - 1
Frames   == Pages
TlbSlots == 0 .. TLB_SIZE - 1
Entry    == [page : Pages, frame : Frames]

ZeroEntry == [page |-> 0, frame |-> 0]

Least(S) == CHOOSE x \in S : \A y \in S : x <= y

\* the entries that the two searches can stop at; they take the first
TlbMatches(page)   == {i \in TlbSlots : tlb[i].page = page}
TableMatches(page) == {i \in Pages : page_table[i].page = page}

\* fault: the page of the entry is not written
RememberFrameOnly(entry) ==
  /\ tlb' = [tlb EXCEPT ![tlbindex].frame = entry.frame]
  /\ tlbindex' = (tlbindex + 1) % TLB_SIZE

Remember(entry) ==
  /\ tlb' = [tlb EXCEPT ![tlbindex] = entry]
  /\ tlbindex' = (tlbindex + 1) % TLB_SIZE

WriteLine(page, frame, content) == output' = [page |-> page, frame |-> frame, content |-> content]

-----------------------------------------------------------------------------
TlbHit(page) ==
  /\ TlbMatches(page) # {}
  /\ LET frame == tlb[Least(TlbMatches(page))].frame
     IN  WriteLine(page, frame, main_memory[frame])
  /\ UNCHANGED <<tlb, tlbindex, page_table, main_memory, init>>

TableHit(page) ==
  /\ TlbMatches(page) = {}
  /\ TableMatches(page) # {}
  /\ LET frame == page_table[Least(TableMatches(page))].frame
     IN  /\ Remember([page |-> page, frame |-> frame])
         /\ WriteLine(page, frame, main_memory[frame])
  /\ UNCHANGED <<page_table, main_memory, init>>

\* fault: the page table is not updated
PageFaultUnrecorded(page) ==
  /\ TlbMatches(page) = {}
  /\ TableMatches(page) = {}
  /\ init' = init + 1
  /\ main_memory' = [main_memory EXCEPT ![init] = page]
  /\ Remember([page |-> page, frame |-> init])
  /\ WriteLine(page, init, page)
  /\ UNCHANGED page_table

\* fault: the frame is not taken
PageFaultSameFrame(page) ==
  /\ TlbMatches(page) = {}
  /\ TableMatches(page) = {}
  /\ main_memory' = [main_memory EXCEPT ![init] = page]
  /\ page_table' = [page_table EXCEPT ![page] = [page |-> page, frame |-> init]]
  /\ Remember([page |-> page, frame |-> init])
  /\ WriteLine(page, init, page)
  /\ UNCHANGED init

PageFault(page) ==
  /\ TlbMatches(page) = {}
  /\ TableMatches(page) = {}
  /\ init' = init + 1
  /\ main_memory' = [main_memory EXCEPT ![init] = page]
  /\ page_table' = [page_table EXCEPT ![page] = [page |-> page, frame |-> init]]
  /\ Remember([page |-> page, frame |-> init])
  /\ WriteLine(page, init, page)

-----------------------------------------------------------------------------
Init ==
  /\ tlb = [i \in TlbSlots |-> ZeroEntry]
  /\ tlbindex = 0
  /\ page_table = [i \in Pages |-> ZeroEntry]
  /\ main_memory = [f \in Frames |-> ZEROS]
  /\ init = 0
  /\ output = [page |-> 0, frame |-> 0, content |-> 0]

Next == \E page \in Pages : TlbHit(page) \/ TableHit(page) \/ PageFault(page)

Spec == Init /\ [][Next]_vars

-----------------------------------------------------------------------------
(* Properties.                                                             *)

\* Every variable has its type; in particular there is always a frame left for
\* the next fault, because page 0 never faults and no other page faults twice.
TypeOK ==
  /\ tlb \in [TlbSlots -> Entry]
  /\ tlbindex \in TlbSlots
  /\ page_table \in [Pages -> Entry]
  /\ main_memory \in [Frames -> Pages \union {ZEROS}]
  /\ init \in 0 .. PAGES - 1
  /\ output \in [page : Pages, frame : Frames, content : Pages \union {ZEROS}]

\* The buffer never contradicts the page table, whatever was loaded and dropped
\* since the entry was made.
TlbAgreesWithTable == \A i \in TlbSlots : page_table[tlb[i].page] = tlb[i]

\* A read of any page but page 0 delivers the contents of that page, however the
\* buffer and the page table were used and replaced before.
ReadsOtherPages == output.page # 0 => output.content = output.page

\* Two loaded pages never share a frame.
FramesNotShared ==
  \A p, q \in Pages \ {0} :
    page_table[p].page = p /\ page_table[q].page = q /\ page_table[p].frame = page_table[q].frame
      => p = q

=============================================================================
