-------------------------------- MODULE Acpi --------------------------------
(***************************************************************************)
(* acpi_init: the RSDP's signature, the RSDT's checksum and the search for *)
(* the MADT among the RSDT's entries, with the two bits of kern_flags.     *)
(*                                                                         *)
(* The RSDT is what the code reads of it: its length field, whether its    *)
(* bytes add up to 0, and the signature behind each entry. What lies       *)
(* behind an entry beyond the table is arbitrary.                          *)
(*                                                                         *)
(* strncmp finds two texts equal as soon as one of its arguments is NULL:  *)
(* a NULL RSDP and a NULL entry both pass for what is looked for.          *)
(***************************************************************************)
EXTENDS Integers, Sequences

CONSTANTS
    HeaderSize,  \* bytes of acpi_header_t, 36
    EntrySize,   \* bytes of an entry, 4
    Word32,      \* values of uint32_t, a power of 2
    Lengths,     \* values of the length field
    MaxEntries   \* entries an RSDT has

ASSUME AcpiAssumption ==
    /\ HeaderSize \in Nat /\ EntrySize \in Nat \ {0}
    /\ Word32 \in Nat /\ HeaderSize < Word32
    /\ Lengths \subseteq 0 .. (Word32 - 1)
    /\ MaxEntries \in Nat

VARIABLES
    rsdp,       \* what the pointer _start got leads to
    rsdt,       \* what is read as the RSDT
    apc,        \* where acpi_init is
    i,          \* find_madt's loop counter
    usingAcpi,  \* kern_flags & USING_ACPI
    usingApic,  \* kern_flags & USING_APIC
    apic_madt   \* the index of the entry it points to, NULL or JUNK

acpiVars == << rsdp, rsdt, apc, i, usingAcpi, usingApic, apic_madt >>

NULL == -1
JUNK == -2
Rsdps == {"good", "null", "overwritten"}

\* The signature behind an entry; "null" is an entry of 0.
Signature == {"APIC", "other", "null"}

\* An empty sum is 0, so a table of length 0 passes the checksum.
Rsdt ==
    {t \in [length : Lengths, sumsToZero : BOOLEAN,
            tables : UNION {[1 .. n -> Signature] : n \in 0 .. MaxEntries}] :
        t.length = 0 => t.sumsToZero}

\* The entries that lie within the table.
InTable(t) == {e \in 0 .. (Word32 - 1) : HeaderSize + EntrySize * (e + 1) <= t.length}

\* The tables a good RSDP leads to: the entries within the length are there, but
\* the length itself is not checked against anything.
WellFormed(t) == \A e \in InTable(t) : e + 1 \in DOMAIN t.tables

\* The loader passes NULL or a pointer whose signature it has compared; what the
\* pointer leads to may have been free memory and hold one of vmm_init's tables
\* by now.  The RSDT of NULL is whatever the low memory it is read from says.
\* apic_madt is initialised to NULL and so lies in .bss, which the loader does
\* not zero.
AcpiInit ==
    /\ rsdp \in Rsdps
    /\ rsdt \in {t \in Rsdt : rsdp = "good" => WellFormed(t)}
    /\ apc = "start" /\ i = 0
    /\ usingAcpi = TRUE /\ usingApic = FALSE
    /\ apic_madt \in {NULL, JUNK}

\* Mutant: the header is counted as entries.
EntryCountHeader(t) == t.length \div EntrySize

\* Of size_t, so twice the bits; the result is cut to uint32_t.
EntryCount(t) ==
    (((t.length - HeaderSize) % (Word32 * Word32)) \div EntrySize) % Word32
-----------------------------------------------------------------------------
\* NULL passes.
VerifyRsdp ==
    /\ apc = "start"
    /\ \/ rsdp # "overwritten" /\ apc' = "sum" /\ UNCHANGED usingAcpi
       \/ rsdp = "overwritten" /\ apc' = "done" /\ usingAcpi' = FALSE
    /\ UNCHANGED << rsdp, rsdt, i, usingApic, apic_madt >>

\* The address low memory gives for an RSDT, or a byte of that, is not mapped.
SumFaults ==
    /\ apc = "sum" /\ rsdp = "null"
    /\ apc' = "fault"
    /\ UNCHANGED << rsdp, rsdt, i, usingAcpi, usingApic, apic_madt >>

\* verify_rsdt and the test of the bit after it.
\* Mutant: a bad checksum is logged only.
VerifyRsdtLog ==
    /\ apc = "sum" /\ apc' = "scan"
    /\ UNCHANGED << rsdp, rsdt, i, usingAcpi, usingApic, apic_madt >>
VerifyRsdt ==
    /\ apc = "sum"
    /\ usingAcpi' = (usingAcpi /\ rsdt.sumsToZero)
    /\ apc' = IF usingAcpi' THEN "scan" ELSE "done"
    /\ UNCHANGED << rsdp, rsdt, i, usingApic, apic_madt >>

\* The signature behind entry e, whatever lies there if e is beyond the table.
Behind(e) ==
    IF e + 1 \in DOMAIN rsdt.tables THEN {rsdt.tables[e + 1]} ELSE Signature

\* Mutant: the search goes on after a match.
FindMadtLast ==
    /\ apc = "scan" /\ i < EntryCount(rsdt)
    /\ \E s \in Behind(i) :
        /\ usingApic' = (usingApic \/ s # "other")
        /\ apic_madt' = CASE s = "APIC" -> i [] s = "null" -> NULL [] OTHER -> apic_madt
    /\ i' = i + 1
    /\ UNCHANGED << rsdp, rsdt, apc, usingAcpi >>

\* An iteration of find_madt.
FindMadt ==
    /\ apc = "scan" /\ i < EntryCount(rsdt)
    /\ \E s \in Behind(i) :
        \/ /\ s # "other"
           /\ usingApic' = TRUE /\ apic_madt' = IF s = "APIC" THEN i ELSE NULL
           /\ apc' = "done" /\ UNCHANGED i
        \/ /\ s = "other"
           /\ i' = i + 1 /\ UNCHANGED << apc, usingApic, apic_madt >>
    /\ UNCHANGED << rsdp, rsdt, usingAcpi >>

\* A word read beyond the table may point where nothing is mapped.
ScanFaults ==
    /\ apc = "scan" /\ i < EntryCount(rsdt) /\ i + 1 \notin DOMAIN rsdt.tables
    /\ apc' = "fault"
    /\ UNCHANGED << rsdp, rsdt, i, usingAcpi, usingApic, apic_madt >>

ScanEnds ==
    /\ apc = "scan" /\ i >= EntryCount(rsdt)
    /\ apc' = "done"
    /\ UNCHANGED << rsdp, rsdt, i, usingAcpi, usingApic, apic_madt >>

AcpiNext == VerifyRsdp \/ SumFaults \/ VerifyRsdt \/ FindMadt \/ ScanFaults \/ ScanEnds
-----------------------------------------------------------------------------
(***************************************************************************)
(* Properties                                                              *)
(***************************************************************************)
AcpiTypeOK ==
    /\ rsdp \in Rsdps
    /\ rsdt \in Rsdt
    /\ apc \in {"start", "sum", "scan", "fault", "done"}
    /\ i \in 0 .. (Word32 - 1)
    /\ usingAcpi \in BOOLEAN /\ usingApic \in BOOLEAN
    /\ apic_madt \in {NULL, JUNK} \cup 0 .. (Word32 - 1)

\* From a good RSDP the search reads an entry beyond the table only if the length
\* field is less than the header's size: rsdt_entry_count then wraps (acpi.c:35,
\* :42).
ScanInTable ==
    (rsdp = "good" /\ apc \in {"scan", "fault"} /\ rsdt.length >= HeaderSize) =>
        /\ apc = "scan"
        /\ \A e \in 0 .. (Word32 - 1) : e < i => e \in InTable(rsdt)

\* The kernel goes on with ACPI unless the signature or the sum is wrong, a NULL
\* RSDP counting as one with its signature; USING_APIC is set by a table that
\* sums to zero only, and apic_madt then never is what .bss held: it points to
\* an entry's table, or is NULL if low memory was searched or the entry is 0
\* (acpi.c:16, :26-30, :44-46, :62-64, string.c:107).
OnlySummedTables ==
    /\ usingApic => /\ usingAcpi /\ rsdt.sumsToZero
                    /\ apic_madt # JUNK
                    /\ (apic_madt = NULL /\ rsdp = "good" /\ rsdt.length >= HeaderSize) =>
                        \E e \in InTable(rsdt) : rsdt.tables[e + 1] = "null"
    /\ apc = "done" => (usingAcpi <=> (rsdp # "overwritten" /\ rsdt.sumsToZero))

\* On the table of a good RSDP, no shorter than its header, the search ends at the
\* first entry that is a MADT or 0: apic_madt is the MADT, or NULL, and as it was
\* if there is neither (acpi.c:40-55).
Taken == {e \in InTable(rsdt) : rsdt.tables[e + 1] # "other"}
FirstTaken ==
    (rsdp = "good" /\ apc = "done" /\ usingAcpi /\ rsdt.length >= HeaderSize) =>
        IF Taken = {} THEN apic_madt \in {NULL, JUNK}
        ELSE \E e \in Taken :
                /\ \A f \in Taken : e <= f
                /\ apic_madt = IF rsdt.tables[e + 1] = "APIC" THEN e ELSE NULL
=============================================================================
