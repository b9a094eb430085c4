---------------------------- MODULE MCBootLoader ----------------------------
(***************************************************************************)
(* Seven pages, the firmware on page 0 and the kernel on pages 1 and 2: a  *)
(* segment of one page, a header that is not PT_LOAD, a page of .bss. Page *)
(* 1 is one that AllocatePool may take, so that the program headers or the *)
(* firmware may lie in the kernel's way; page 2 only the firmware may.     *)
(***************************************************************************)
EXTENDS BootLoader
MCSegments ==
    << [load |-> TRUE, first |-> 1, file |-> 1, mem |-> 1],
       [load |-> FALSE, first |-> 0, file |-> 1, mem |-> 1],
       [load |-> TRUE, first |-> 2, file |-> 0, mem |-> 1] >>
MCInitial ==
    {[p \in 0 .. (Pages - 1) |-> IF p \in taken THEN "firmware" ELSE "free"] :
        taken \in {{0}}}
MCConfigTables ==
    {<< [guid |-> "other", signed |-> FALSE], [guid |-> "ACPI_20_TABLE_GUID", signed |-> TRUE],
        [guid |-> "ACPI_TABLE_GUID", signed |-> TRUE] >>,
     << [guid |-> "other", signed |-> FALSE], [guid |-> "ACPI_TABLE_GUID", signed |-> TRUE],
        [guid |-> "other", signed |-> FALSE] >>,
     << [guid |-> "ACPI_TABLE_GUID", signed |-> TRUE],
        [guid |-> "ACPI_20_TABLE_GUID", signed |-> TRUE] >>}
=============================================================================
