----------------------------- MODULE RsdpSearch -----------------------------
(***************************************************************************)
(* The boot loader's search of the firmware's configuration table for the  *)
(* RSDP, an iteration per step. The loop indexes configTable by i and      *)
(* advances it too, and CompareGuid is 0 for equal GUIDs.                  *)
(*                                                                         *)
(* Entries are numbered from 0. What lies beyond the table is arbitrary.   *)
(***************************************************************************)
EXTENDS Integers, Sequences

CONSTANT MaxEntries   \* bound: entries of the table

VARIABLES
    table,  \* the configuration table
    i,      \* iterations done, by which configTable has advanced
    rsdp    \* the entry whose VendorTable it is, or NULL

vars == << table, i, rsdp >>

NULL == -1
Guids == {"ACPI_20_TABLE_GUID", "ACPI_TABLE_GUID", "other"}

\* An entry's GUID and whether its table starts with "RSD PTR ".  The RSDP of
\* an ACPI entry does; a GUID occurs once.
Tables ==
    {t \in UNION {[1 .. n -> [guid : Guids, signed : BOOLEAN]] : n \in 0 .. MaxEntries} :
        /\ \A e \in DOMAIN t : t[e].signed <=> t[e].guid # "other"
        /\ \A e, f \in DOMAIN t : t[e].guid = t[f].guid => (e = f \/ t[e].guid = "other")}

\* GUIDs the read of entry e may find.
GuidAt(e) == IF e + 1 \in DOMAIN table THEN {table[e + 1].guid} ELSE Guids

\* 0 if the GUIDs are equal.
CompareGuid(g, h) == IF g = h THEN 0 ELSE 1

Init == table \in Tables /\ i = 0 /\ rsdp = NULL

\* Mutant: the signature is not compared.
IterateUnsigned ==
    /\ i < Len(table)
    /\ \E guid \in GuidAt(i + i) :
        rsdp' = IF CompareGuid(guid, "ACPI_20_TABLE_GUID") # 0 THEN i ELSE rsdp
    /\ i' = i + 1
    /\ UNCHANGED table

\* configTable points to entry i, so configTable[i] is entry i + i.
Iterate ==
    /\ i < Len(table)
    /\ \E guid \in GuidAt(i + i) :
        rsdp' = IF CompareGuid(guid, "ACPI_20_TABLE_GUID") # 0 /\ table[i + 1].signed
                THEN i ELSE rsdp
    /\ i' = i + 1
    /\ UNCHANGED table

Spec == Init /\ [][Iterate]_vars
-----------------------------------------------------------------------------
(***************************************************************************)
(* Properties                                                              *)
(***************************************************************************)
Entry(guid) == {e \in 0 .. (Len(table) - 1) : table[e + 1].guid = guid}

\* The kernel never gets a pointer to anything but an RSDP: the signature saves
\* the search from the entries its GUID test lets through (main.c:371-373).
OnlyRsdp ==
    rsdp # NULL => rsdp \in Entry("ACPI_20_TABLE_GUID") \cup Entry("ACPI_TABLE_GUID")

\* An RSDP is found whenever the firmware has one in an entry e such that entry
\* 2e exists and is not ACPI 2.0's: in the first entry that one is e itself
\* (main.c:370-378).
FoundIfElsewhere ==
    \A e \in Entry("ACPI_20_TABLE_GUID") \cup Entry("ACPI_TABLE_GUID") :
        (i = Len(table) /\ e + e < Len(table) /\ e + e \notin Entry("ACPI_20_TABLE_GUID"))
            => rsdp # NULL

\* main.c:365-367, "Look for RSDP." by ACPI_20_TABLE_GUID: the search ends with
\* ACPI 2.0's RSDP if the firmware has one.
FindsAcpi20 ==
    i = Len(table) =>
        \A e \in Entry("ACPI_20_TABLE_GUID") : rsdp = e
=============================================================================
