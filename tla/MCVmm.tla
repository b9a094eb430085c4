------------------------------- MODULE MCVmm -------------------------------
(***************************************************************************)
(* A machine of 81 pages, three entries to a table: a page table spans 3   *)
(* pages, a page directory 9, a PDPT 27.  vmm_init maps 12 pages, which    *)
(* takes at least seven tables.                                            *)
(***************************************************************************)
EXTENDS Vmm

Usable(b, n) == [usable |-> TRUE, base |-> b, nPages |-> n]
Other(b, n) == [usable |-> FALSE, base |-> b, nPages |-> n]

MCPage == 0 .. 80

MCMemoryMaps ==
    { << Other(0, 2), Usable(3, 9), Other(30, 40) >>,   \* all below Limit
      << Usable(3, 2), Usable(6, 14), Usable(24, 14) >>, \* straddles Limit; a tie
      << Other(0, 2), Usable(5, 1), Usable(26, 12) >>,   \* beyond Limit, across PDPTs
      << Usable(3, 6) >>,                                \* too small
      << Other(0, 60), Usable(30, 0) >>,                 \* nothing usable
      << >> }

MCClientPages == {2, 23, 60}
MCClientFlags == {{"W"}, {}}
=============================================================================
