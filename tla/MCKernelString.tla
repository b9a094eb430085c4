--------------------------- MODULE MCKernelString ---------------------------
(***************************************************************************)
(* An int of 12 bits; its ends, and numbers about each power of the bases. *)
(***************************************************************************)
EXTENDS KernelString
MCNumbers ==
    {-2048, -2047, -1000, -101, -10, -9, -1, 0, 1, 7, 10, 99, 100, 120, 999, 1000, 2047}
MCWords == {0, 1, 15, 16, 17, 160, 255, 256, 2571, 4094, 4095}
=============================================================================
