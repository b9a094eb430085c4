--------------------------- MODULE MCKernelStart ----------------------------
(***************************************************************************)
(* Exceptions with a gate (a division by zero, a fault), an NMI and a      *)
(* vector without one; words of five bits and a header of two entries'     *)
(* size; lengths below the header's, at it, between entries and at the end *)
(* of the longest table.                                                   *)
(***************************************************************************)
EXTENDS KernelStart
MCVectors == {0, 2, 9, 14}
MCLengths == {0, 5, 8, 11, 12, 19, 20}
=============================================================================
