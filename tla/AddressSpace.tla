---------------------------- MODULE AddressSpace ----------------------------
(***************************************************************************)
(* What the memory allocator promises, with no list of blocks: every       *)
(* address is free or belongs to a process; a request takes consecutive    *)
(* addresses that are all free, and a release gives back consecutive ones. *)
(***************************************************************************)
EXTENDS Integers

CONSTANTS
  MAX_MEMORY,  \* how many addresses there are
  Processes,
  FREE         \* the owner of an address that is free

VARIABLE owner

Addresses == 0 .. MAX_MEMORY - 1

Init == owner = [x \in Addresses |-> FREE]

\* the addresses of run go from one owner to another
Pass(run, from, to) ==
  /\ \A x \in run : owner[x] = from
  /\ owner' = [x \in Addresses |-> IF x \in run THEN to ELSE owner[x]]

Next ==
  \E first, last \in Addresses, p \in Processes :
    \/ Pass(first .. last, FREE, p)
    \/ Pass(first .. last, p, FREE)

Spec == Init /\ [][Next]_owner

=============================================================================
