------------------------- MODULE KernelStartProofs --------------------------
(***************************************************************************)
(* The kernel start's properties hold for every RSDT, set of exceptions    *)
(* and vector of the firmware's interrupts.  AcpiInv is the invariant of   *)
(* acpi_init, StartInv that of the whole.                                  *)
(***************************************************************************)
EXTENDS KernelStart, TLAPS

-----------------------------------------------------------------------------
(***************************************************************************)
(* The count of the RSDT's entries                                         *)
(***************************************************************************)
\* The assumptions of Acpi, in the form the lemmas below use.
LEMMA Constants ==
    /\ HeaderSize \in Nat /\ EntrySize \in Nat \ {0}
    /\ Word32 \in Nat \ {0} /\ HeaderSize < Word32
    /\ Lengths \subseteq 0 .. (Word32 - 1)
  BY AcpiAssumption

\* A number below the modulus is its own remainder.
LEMMA ModSmall ==
    ASSUME NEW a \in Nat, NEW b \in Nat \ {0}, a < b
    PROVE  a % b = a
  OBVIOUS

\* A remainder is below its divisor.
LEMMA ModRange ==
    ASSUME NEW a \in Int, NEW b \in Nat \ {0}
    PROVE  a % b \in 0 .. (b - 1)
  OBVIOUS

\* What a quotient is.
LEMMA DivDef ==
    ASSUME NEW a \in Int, NEW d \in Nat \ {0}
    PROVE  a \div d \in Int /\ d * (a \div d) <= a /\ a < d * (a \div d) + d
  OBVIOUS

\* A quotient of a natural is one too and no greater.
LEMMA QuotientRange ==
    ASSUME NEW a \in Nat, NEW d \in Nat \ {0}, NEW q \in Int,
           d * q <= a, a < d * q + d
    PROVE  q \in 0 .. a
  <1>1. q >= 0
    <2>1. SUFFICES ASSUME q <= -1 PROVE FALSE
      OBVIOUS
    <2>2. d * q <= d * (-1)
      BY <2>1
    <2> QED
      BY <2>2
  <1>2. q <= d * q
    BY <1>1
  <1> QED
    BY <1>1, <1>2

\* e entries and one more fit in a bytes iff e is below the quotient.
LEMMA EntriesThatFit ==
    ASSUME NEW a \in Nat, NEW d \in Nat \ {0}, NEW q \in Int, NEW e \in Nat,
           d * q <= a, a < d * q + d
    PROVE  e < q <=> d * (e + 1) <= a
  <1>1. ASSUME e < q PROVE d * (e + 1) <= a
    <2>1. d * (e + 1) <= d * q
      BY <1>1
    <2> QED
      BY <2>1
  <1>2. ASSUME ~(e < q) PROVE ~(d * (e + 1) <= a)
    <2>1. d * q <= d * e
      BY <1>2
    <2>2. d * (e + 1) = d * e + d
      OBVIOUS
    <2> QED
      BY <2>1, <2>2
  <1> QED
    BY <1>1, <1>2

\* The fields of an RSDT.
LEMMA RsdtFields ==
    ASSUME NEW t \in Rsdt
    PROVE  t.length \in 0 .. (Word32 - 1) /\ t.sumsToZero \in BOOLEAN
  <1>1. t.length \in Lengths /\ t.sumsToZero \in BOOLEAN
    BY DEF Rsdt
  <1> QED
    BY <1>1, Constants

\* A positive number's square is positive.
LEMMA Square ==
    ASSUME NEW a \in Nat \ {0}
    PROVE  a * a \in Nat \ {0}
  OBVIOUS

\* The count has 32 bits.
LEMMA CountRange ==
    ASSUME NEW t \in Rsdt
    PROVE  EntryCount(t) \in 0 .. (Word32 - 1)
  <1> DEFINE a == (t.length - HeaderSize) % (Word32 * Word32)
  <1>1. t.length \in Int /\ Word32 * Word32 \in Nat \ {0}
    BY RsdtFields, Square, Constants
  <1>2. a \in Int
    BY <1>1, ModRange, Constants
  <1> HIDE DEF a
  <1>3. a \div EntrySize \in Int
    BY <1>2, DivDef, Constants
  <1> QED
    BY <1>3, ModRange, Constants DEF EntryCount, a

\* If the length is no less than the header's size, the entries counted are
\* those that lie in the table.
LEMMA CountExact ==
    ASSUME NEW t \in Rsdt, t.length >= HeaderSize, NEW e \in 0 .. (Word32 - 1)
    PROVE  e < EntryCount(t) <=> e \in InTable(t)
  <1> DEFINE a == t.length - HeaderSize
             q == a \div EntrySize
  <1>1. t.length \in 0 .. (Word32 - 1)
    BY RsdtFields
  <1>2. a \in Nat /\ a < Word32
    BY <1>1, Constants
  <1>3. a < Word32 * Word32 /\ Word32 * Word32 \in Nat \ {0}
    BY <1>2, Constants
  <1>4. a % (Word32 * Word32) = a
    BY <1>2, <1>3, ModSmall
  <1> HIDE DEF a
  <1>5. q \in Int /\ EntrySize * q <= a /\ a < EntrySize * q + EntrySize
    BY <1>2, DivDef, Constants
  <1> HIDE DEF q
  <1>6. q \in 0 .. a
    BY <1>2, <1>5, QuotientRange, Constants
  <1>7. q % Word32 = q
    BY <1>2, <1>6, ModSmall, Constants
  <1>8. EntryCount(t) = q
    BY <1>4, <1>7 DEF EntryCount, a, q
  <1>9. e < q <=> EntrySize * (e + 1) <= a
    BY <1>2, <1>5, EntriesThatFit, Constants
  <1>10. e \in InTable(t) <=> EntrySize * (e + 1) <= a
    <2>1. EntrySize * (e + 1) \in Int
      BY Constants
    <2> QED
      BY <1>1, <2>1, Constants DEF InTable, a
  <1> QED
    BY <1>8, <1>9, <1>10

-----------------------------------------------------------------------------
(***************************************************************************)
(* acpi_init                                                               *)
(***************************************************************************)
\* What has been checked by the time a step is reached.
Checked ==
    /\ apc \in {"start", "sum"} => usingAcpi
    /\ apc \in {"start", "sum", "scan", "fault"} =>
        ~usingApic /\ apic_madt \in {NULL, JUNK}
    /\ apc \in {"sum", "scan", "fault"} => rsdp # "overwritten"
    /\ apc = "scan" => usingAcpi /\ rsdt.sumsToZero

\* The entries the search has passed are neither MADTs nor 0.
Passed ==
    (rsdp = "good" /\ apc \in {"start", "sum", "scan"} /\ rsdt.length >= HeaderSize) =>
        \A e \in Taken : i <= e

\* What acpi_init knows at each of its places.
AcpiInv ==
    /\ AcpiTypeOK /\ (rsdp = "good" => WellFormed(rsdt))
    /\ Checked /\ Passed
    /\ apc \in {"start", "sum"} => i = 0
    /\ ScanInTable /\ OnlySummedTables /\ FirstTaken

\* The entry of acpi_init, before it has looked at anything (acpi.c:57).
LEMMA InitAcpi == AcpiInit => AcpiInv
  <1> SUFFICES ASSUME AcpiInit PROVE AcpiInv
    OBVIOUS
  <1>1. rsdt \in Rsdt /\ rsdp \in Rsdps /\ (rsdp = "good" => WellFormed(rsdt))
    BY DEF AcpiInit
  <1>2. AcpiTypeOK
    <2>1. 0 \in 0 .. (Word32 - 1)
      BY Constants
    <2> QED
      BY <1>1, <2>1 DEF AcpiInit, AcpiTypeOK
  <1>3. Checked /\ ScanInTable /\ OnlySummedTables /\ FirstTaken
    BY DEF AcpiInit, Checked, ScanInTable, OnlySummedTables, FirstTaken
  <1>4. Passed
    BY DEF AcpiInit, Passed, Taken, InTable
  <1> QED
    BY <1>1, <1>2, <1>3, <1>4 DEF AcpiInv, AcpiInit

\* A step of acpi_init.
LEMMA NextAcpi == AcpiInv /\ AcpiNext => AcpiInv'
  <1> SUFFICES ASSUME AcpiInv, AcpiNext PROVE AcpiInv'
    OBVIOUS
  <1> USE DEF AcpiInv
  <1>0. /\ rsdt \in Rsdt /\ rsdp \in Rsdps /\ i \in 0 .. (Word32 - 1)
        /\ rsdt.sumsToZero \in BOOLEAN /\ rsdt.length \in Int
        /\ rsdp' = rsdp /\ rsdt' = rsdt
    BY RsdtFields, Constants
    DEF AcpiTypeOK, AcpiNext, VerifyRsdp, SumFaults, VerifyRsdt, FindMadt, ScanFaults, ScanEnds
  <1>a. (rsdp = "good" => WellFormed(rsdt))' /\ Taken' = Taken
    BY <1>0 DEF WellFormed, InTable, Taken
  <1>1. CASE VerifyRsdp
    <2>1. /\ apc = "start" /\ apc' \in {"sum", "done"}
          /\ apc' = "sum" <=> rsdp # "overwritten"
          /\ apc' = "done" => usingAcpi' = FALSE
          /\ apc' = "sum" => usingAcpi' = usingAcpi
          /\ i' = i /\ usingApic' = usingApic /\ apic_madt' = apic_madt
      BY <1>1 DEF VerifyRsdp
    <2>2. AcpiTypeOK'
      BY <1>0, <2>1 DEF AcpiTypeOK
    <2>a. /\ usingAcpi = TRUE /\ usingApic = FALSE /\ usingAcpi' \in BOOLEAN
          /\ apic_madt \in {NULL, JUNK} /\ i = 0
      BY <2>1, <2>2 DEF Checked, AcpiTypeOK
    <2>3. Checked' /\ ScanInTable' /\ (apc \in {"start", "sum"} => i = 0)'
      BY <1>0, <2>1, <2>a DEF Checked, ScanInTable
    <2>b. OnlySummedTables'
      BY <1>0, <2>1, <2>a DEF OnlySummedTables
    <2>4. Passed' /\ FirstTaken'
      BY <1>0, <1>a, <2>1 DEF Passed, FirstTaken
    <2> QED
      BY <1>a, <2>2, <2>3, <2>b, <2>4
  <1>2. CASE VerifyRsdt
    <2>1. /\ apc = "sum" /\ usingAcpi' = (usingAcpi /\ rsdt.sumsToZero)
          /\ apc' = IF usingAcpi' THEN "scan" ELSE "done"
          /\ i' = i /\ usingApic' = usingApic /\ apic_madt' = apic_madt
      BY <1>2 DEF VerifyRsdt
    <2>2. AcpiTypeOK'
      BY <1>0, <2>1 DEF AcpiTypeOK
    <2>3. Checked' /\ ScanInTable' /\ OnlySummedTables' /\ (apc \in {"start", "sum"} => i = 0)'
      BY <1>0, <2>1 DEF Checked, ScanInTable, OnlySummedTables
    <2>4. Passed' /\ FirstTaken'
      BY <1>0, <1>a, <2>1 DEF Passed, FirstTaken
    <2> QED
      BY <1>a, <2>2, <2>3, <2>4
  <1>3. CASE SumFaults
    <2>1. /\ apc = "sum" /\ rsdp = "null" /\ apc' = "fault"
          /\ i' = i /\ usingAcpi' = usingAcpi /\ usingApic' = usingApic /\ apic_madt' = apic_madt
      BY <1>3 DEF SumFaults
    <2>2. AcpiTypeOK'
      BY <1>0, <2>1 DEF AcpiTypeOK
    <2>3. Checked' /\ ScanInTable' /\ OnlySummedTables' /\ Passed' /\ FirstTaken'
      BY <1>0, <2>1 DEF Checked, ScanInTable, OnlySummedTables, Passed, FirstTaken
    <2> QED
      BY <1>a, <2>1, <2>2, <2>3
  <1>4. CASE FindMadt
    <2>1. apc = "scan" /\ i < EntryCount(rsdt) /\ usingAcpi' = usingAcpi
      BY <1>4 DEF FindMadt
    <2>2. rsdt.length >= HeaderSize => i \in InTable(rsdt)
      BY <2>1, <1>0, CountExact
    <2>3. rsdp = "good" /\ rsdt.length >= HeaderSize => Behind(i) = {rsdt.tables[i + 1]}
      BY <2>2 DEF Behind, WellFormed
    <2>4. EntryCount(rsdt) \in 0 .. (Word32 - 1)
      BY <1>0, CountRange
    <2>5. PICK s \in Behind(i) :
            \/ /\ s # "other" /\ usingApic' = TRUE
               /\ apic_madt' = IF s = "APIC" THEN i ELSE NULL
               /\ apc' = "done" /\ i' = i
            \/ /\ s = "other" /\ i' = i + 1
               /\ apc' = apc /\ usingApic' = usingApic /\ apic_madt' = apic_madt
      BY <1>4 DEF FindMadt
    <2>6. CASE s # "other"
      <3>1. /\ usingApic' = TRUE /\ apic_madt' = IF s = "APIC" THEN i ELSE NULL
            /\ apc' = "done" /\ i' = i
        BY <2>5, <2>6
      <3>2. rsdp = "good" /\ rsdt.length >= HeaderSize => i \in Taken /\ s = rsdt.tables[i + 1]
        BY <2>6, <2>2, <2>3 DEF Taken
      <3>3. s \in Signature
        <4>1. CASE i + 1 \in DOMAIN rsdt.tables
          <5>1. \A k \in DOMAIN rsdt.tables : rsdt.tables[k] \in Signature
            BY <1>0 DEF Rsdt
          <5> QED
            BY <4>1, <5>1 DEF Behind
        <4>2. CASE i + 1 \notin DOMAIN rsdt.tables
          BY <4>2 DEF Behind
        <4> QED
          BY <4>1, <4>2
      <3>4. AcpiTypeOK'
        BY <1>0, <2>1, <3>1 DEF AcpiTypeOK
      <3>5. apic_madt' # JUNK /\ (apic_madt' = NULL => s = "null")
        BY <1>0, <2>6, <3>1, <3>3 DEF Signature, NULL, JUNK
      <3>6. rsdp = "good" /\ rsdt.length >= HeaderSize /\ apic_madt' = NULL =>
                i \in InTable(rsdt) /\ rsdt.tables[i + 1] = "null"
        BY <2>2, <3>2, <3>5
      <3>7. OnlySummedTables'
        BY <1>0, <2>1, <3>1, <3>5, <3>6 DEF OnlySummedTables, Checked, InTable
      <3>8. FirstTaken'
        <4>1. rsdp = "good" /\ rsdt.length >= HeaderSize => \A f \in Taken : i <= f
          BY <2>1 DEF Passed
        <4> QED
          BY <1>0, <1>a, <3>1, <3>2, <4>1 DEF FirstTaken
      <3>9. Checked' /\ ScanInTable' /\ Passed' /\ (apc \in {"start", "sum"} => i = 0)'
        BY <3>1 DEF Checked, ScanInTable, Passed
      <3> QED
        BY <1>a, <3>4, <3>7, <3>8, <3>9
    <2>7. CASE s = "other"
      <3>1. /\ apc' = "scan" /\ i' = i + 1
            /\ usingApic' = usingApic /\ apic_madt' = apic_madt
        BY <2>1, <2>5, <2>7
      <3>2. i' \in 0 .. (Word32 - 1)
        BY <1>0, <2>1, <2>4, <3>1, Constants
      <3>3. AcpiTypeOK'
        BY <1>0, <2>1, <3>1, <3>2 DEF AcpiTypeOK
      <3>4. \A e \in Taken : e \in Int
        BY Constants DEF Taken, InTable
      <3>5. Passed'
        <4>1. rsdp = "good" /\ rsdt.length >= HeaderSize => i \notin Taken
          BY <2>3, <2>7 DEF Taken
        <4>2. rsdp = "good" /\ rsdt.length >= HeaderSize => \A e \in Taken : i <= e
          BY <2>1 DEF Passed
        <4> QED
          BY <1>0, <1>a, <3>1, <3>4, <4>1, <4>2 DEF Passed
      <3>6. ScanInTable'
        BY <1>0, <2>1, <2>2, <3>1 DEF ScanInTable, InTable
      <3>7. Checked' /\ OnlySummedTables' /\ FirstTaken' /\ (apc \in {"start", "sum"} => i = 0)'
        BY <1>0, <2>1, <3>1 DEF Checked, OnlySummedTables, FirstTaken
      <3> QED
        BY <1>a, <3>3, <3>5, <3>6, <3>7
    <2> QED
      BY <2>6, <2>7
  <1>5. CASE ScanFaults
    <2>1. /\ apc = "scan" /\ apc' = "fault" /\ i < EntryCount(rsdt)
          /\ i + 1 \notin DOMAIN rsdt.tables
          /\ i' = i /\ usingAcpi' = usingAcpi /\ usingApic' = usingApic /\ apic_madt' = apic_madt
      BY <1>5 DEF ScanFaults
    <2>2. ~(rsdp = "good" /\ rsdt.length >= HeaderSize)
      <3>1. rsdt.length >= HeaderSize => i \in InTable(rsdt)
        BY <2>1, <1>0, CountExact
      <3> QED
        BY <2>1, <3>1 DEF WellFormed
    <2>3. AcpiTypeOK'
      BY <1>0, <2>1 DEF AcpiTypeOK
    <2>4. Checked' /\ OnlySummedTables' /\ ScanInTable' /\ FirstTaken' /\ Passed'
      BY <1>0, <2>1, <2>2 DEF Checked, OnlySummedTables, ScanInTable, FirstTaken, Passed
    <2> QED
      BY <1>a, <2>1, <2>3, <2>4
  <1>6. CASE ScanEnds
    <2>1. /\ apc = "scan" /\ apc' = "done" /\ i >= EntryCount(rsdt)
          /\ i' = i /\ usingAcpi' = usingAcpi /\ usingApic' = usingApic /\ apic_madt' = apic_madt
      BY <1>6 DEF ScanEnds
    <2>2. AcpiTypeOK'
      BY <1>0, <2>1 DEF AcpiTypeOK
    <2>3. Checked' /\ OnlySummedTables' /\ ScanInTable' /\ Passed'
      BY <1>0, <2>1 DEF Checked, OnlySummedTables, ScanInTable, Passed
    <2>4. rsdp = "good" /\ rsdt.length >= HeaderSize => Taken = {}
      <3>1. SUFFICES ASSUME rsdp = "good", rsdt.length >= HeaderSize, NEW e \in Taken PROVE FALSE
        OBVIOUS
      <3>2. e \in InTable(rsdt) /\ e \in 0 .. (Word32 - 1)
        BY DEF Taken, InTable
      <3>3. e < EntryCount(rsdt)
        BY <3>1, <3>2, <1>0, CountExact
      <3>4. i <= e
        BY <3>1, <2>1 DEF Passed
      <3> QED
        BY <3>2, <3>3, <3>4, <2>1, <1>0, CountRange
    <2>5. apic_madt' \in {NULL, JUNK}
      BY <2>1 DEF Checked
    <2>6. FirstTaken'
      BY <1>0, <1>a, <2>4, <2>5 DEF FirstTaken
    <2> QED
      BY <1>a, <2>1, <2>2, <2>3, <2>6
  <1> QED
    BY <1>1, <1>2, <1>3, <1>4, <1>5, <1>6 DEF AcpiNext

\* acpi_init's invariant does not depend on the rest of the kernel.
LEMMA SameAcpi == AcpiInv /\ UNCHANGED acpiVars => AcpiInv'
  BY DEF AcpiInv, acpiVars, AcpiTypeOK, WellFormed, InTable, Checked, Passed, ScanInTable,
         OnlySummedTables, FirstTaken, Taken

-----------------------------------------------------------------------------
(***************************************************************************)
(* The whole start                                                         *)
(***************************************************************************)
\* The fourteen vectors init sets, by index and as a set (kernel.c:123-141).
LEMMA GateFacts ==
    /\ Len(Gates) = 14
    /\ \A g \in 1 .. 14 : Gates[g] \in 0 .. 255
    /\ GateVectors = {Gates[g] : g \in 1 .. 14}
    /\ GateVectors \subseteq 0 .. 255
    /\ NP \in GateVectors /\ Irq0 \in GateVectors /\ 14 \in GateVectors
  <1>1. Len(Gates) = 14 /\ DOMAIN Gates = 1 .. 14
    BY DEF Gates
  <1>2. \A g \in 1 .. 14 : Gates[g] \in 0 .. 255
    BY DEF Gates, Irq0
  <1>3. Gates[10] = NP /\ Gates[13] = 14 /\ Gates[14] = Irq0
    BY DEF Gates, NP, Irq0
  <1> QED
    BY <1>1, <1>2, <1>3 DEF GateVectors

\* idt_set_vec leaves a table of 256 vectors.
LEMMA GateWritten ==
    ASSUME NEW t \in [0 .. 255 -> {"absent", "junk", "gate", "stray"}], NEW a \in 0 .. 255,
           NEW s \in {"gate", "stray"}
    PROVE  [t EXCEPT ![a] = s] \in [0 .. 255 -> {"absent", "junk", "gate", "stray"}]
  OBVIOUS

Early == {"welcome", "gdt"}

\* What each call of init leaves behind for the ones after it.
Sequence ==
    /\ gdtr = (IF pc \in Early THEN "firmware" ELSE "kernel")
    /\ idtr = (IF pc \in Early \cup {"gates"} THEN "firmware" ELSE "kernel")
    /\ ief => pc \in Early \cup {"on"}
    /\ pic = (IF pc \in {"sti", "on"} THEN "kernel" ELSE "firmware")
    /\ pc \in {"controller", "sti", "on"} => ~usingApic /\ apc = "done"

\* The gates set so far: all of them when the table is installed, and all of one
\* kind, as the memory of idt was zero or was not.
GatesSet ==
    /\ Zeroed \/ \A v \in 0 .. 255 : idt[v] \in {"junk", "stray"}
    /\ \A g \in 1 .. 14 : g <= n => idt[Gates[g]] \in {"gate", "stray"}
    /\ idtr = "kernel" => n = 14

\* No interrupt of the firmware's ends the kernel, and no tick through a gate
\* whose ist was zero.
InterruptsReturn ==
    fate \in {"panic", "reset", "wild"} =>
        fired # FirmwareIrq /\ (fired = Irq0 => idt[Irq0] = "stray")

StartInv ==
    /\ TypeOK /\ AcpiInv
    /\ Sequence /\ GatesSet /\ InterruptsReturn /\ FaultsReported

\* Nothing has struck a kernel that runs, or that halted itself, that would have
\* ended it.
LEMMA WhileRunning ==
    ASSUME fate' \in {"running", "halted"}
    PROVE  InterruptsReturn' /\ FaultsReported'
  BY DEF InterruptsReturn, FaultsReported

\* What a call that leaves the table of gates alone keeps.
LEMMA SameGates ==
    ASSUME GatesSet, UNCHANGED << n, idt, idtr >>
    PROVE  GatesSet'
  BY DEF GatesSet, Zeroed

\* The state in which the boot loader enters _start.
LEMMA InitStart == Init => StartInv
  <1> SUFFICES ASSUME Init PROVE StartInv
    OBVIOUS
  <1>1. AcpiInv
    BY InitAcpi DEF Init
  <1>2. TypeOK
    BY <1>1, GateFacts DEF Init, TypeOK, AcpiInv, None
  <1>3. GatesSet
    BY DEF Init, GatesSet, Zeroed
  <1>4. Sequence
    BY DEF Init, Sequence, Early
  <1>5. InterruptsReturn /\ FaultsReported
    <2>1. fate = "running"
      BY DEF Init
    <2> QED
      BY <2>1 DEF InterruptsReturn, FaultsReported
  <1> QED
    BY <1>1, <1>2, <1>3, <1>4, <1>5 DEF StartInv

\* With the kernel's table installed each vector in Gates has its gate.
LEMMA Installed ==
    ASSUME StartInv, idtr = "kernel"
    PROVE  /\ \A v \in GateVectors : idt[v] \in {"gate", "stray"}
           /\ \A v \in 0 .. 255 : idt[v] = "absent" => idt[NP] = "gate"
           /\ \A v \in 0 .. 255 : idt[v] \in {"junk", "stray"} => ~Zeroed
  <1>1. \A v \in GateVectors : idt[v] \in {"gate", "stray"}
    BY GateFacts DEF StartInv, GatesSet
  <1>2. ASSUME NEW v \in 0 .. 255, idt[v] = "absent" PROVE idt[NP] = "gate"
    <2>1. Zeroed
      BY <1>2 DEF StartInv, GatesSet
    <2> QED
      BY <1>1, <2>1, GateFacts DEF Zeroed
  <1>3. ASSUME NEW v \in 0 .. 255, idt[v] \in {"junk", "stray"} PROVE ~Zeroed
    BY <1>3 DEF Zeroed
  <1> QED
    BY <1>1, <1>2, <1>3

\* What an exception or interrupt does to the kernel.
LEMMA DispatchFate ==
    ASSUME StartInv, fate = "running", NEW v \in 0 .. 255, Dispatch(v)
    PROVE  /\ fired' = v /\ shown' \in {None} \cup 0 .. 255
           /\ fate' \in {"running", "panic", "reset", "wild", "firmware"}
           /\ fate' = "reset" => (gdtr = "kernel" /\ (idtr = "firmware" \/ ~Zeroed))
           /\ fate' = "wild" => (idtr = "kernel" /\ ~Zeroed)
           /\ fate' = "panic" => \/ shown' = v
                                \/ (shown' = NP /\ idt[v] = "absent")
           /\ (idtr = "firmware" /\ gdtr = "firmware" /\ v = FirmwareIrq) => fate' = "running"
           /\ (idtr = "kernel" /\ v = Irq0) => (fate' = "running" \/ idt[v] = "stray")
  <1>1. idtr \in {"firmware", "kernel"} /\ gdtr \in {"firmware", "kernel"}
        /\ idt[v] \in {"absent", "junk", "gate", "stray"}
        /\ (idtr = "kernel" => gdtr = "kernel")
    <2>1. TypeOK /\ Sequence
      BY DEF StartInv
    <2>2. /\ idtr \in {"firmware", "kernel"} /\ gdtr \in {"firmware", "kernel"}
          /\ idt[v] \in {"absent", "junk", "gate", "stray"}
      BY <2>1 DEF TypeOK
    <2>3. idtr = "kernel" => gdtr = "kernel"
      BY <2>1 DEF Sequence
    <2> QED
      BY <2>2, <2>3
  <1>2. CASE idtr = "kernel"
    <2>1. \A w \in GateVectors : idt[w] \in {"gate", "stray"}
      BY <1>2, Installed
    <2>2. v = Irq0 => idt[v] \in {"gate", "stray"}
      BY <2>1, GateFacts
    <2>3. CASE idt[v] = "absent"
      <3>1. idt[NP] = "gate"
        BY <1>2, <2>3, Installed
      <3>2. fired' = v /\ fate' = "panic" /\ shown' = NP
        BY <1>2, <2>3, <3>1 DEF Dispatch, Outcomes, NP, Irq0
      <3> QED
        BY <1>2, <2>2, <2>3, <3>2 DEF NP
    <2>4. CASE idt[v] = "gate"
      BY <1>2, <2>4 DEF Dispatch, Outcomes
    <2>5. CASE idt[v] = "stray"
      <3>1. ~Zeroed
        BY <1>2, <2>5, Installed
      <3>2. /\ fired' = v /\ fate' \in {"running", "panic", "wild", "reset"}
            /\ shown' \in {v, None} /\ (fate' = "panic" => shown' = v)
        BY <1>2, <2>5 DEF Dispatch, Outcomes
      <3> QED
        BY <1>1, <1>2, <2>5, <3>1, <3>2
    <2>6. CASE idt[v] = "junk"
      <3>1. ~Zeroed
        BY <1>2, <2>6, Installed
      <3>2. fired' = v /\ fate' = "wild" /\ shown' = None
        BY <1>2, <2>6 DEF Dispatch, Outcomes
      <3> QED
        BY <1>2, <2>2, <2>6, <3>1, <3>2
    <2> QED
      BY <1>1, <2>3, <2>4, <2>5, <2>6
  <1>3. CASE idtr = "firmware" /\ gdtr = "firmware"
    BY <1>3 DEF Dispatch, Outcomes
  <1>4. CASE idtr = "firmware" /\ gdtr = "kernel"
    BY <1>4 DEF Dispatch, Outcomes
  <1> QED
    BY <1>1, <1>2, <1>3, <1>4

\* A step that only strikes.
LEMMA StrikeKeeps ==
    ASSUME StartInv, fate = "running", NEW v \in 0 .. 255, Dispatch(v),
           v = FirmwareIrq => (idtr = "firmware" /\ gdtr = "firmware"),
           v = Irq0 => idtr = "kernel",
           UNCHANGED << pc, n, idt, cpu, pic, usingApic >>, AcpiInv',
           pc \in {"controller", "sti", "on"} => apc' = apc
    PROVE  StartInv'
  <1>1. fired' = v /\ shown' \in {None} \cup 0 .. 255
        /\ fate' \in {"running", "panic", "reset", "wild", "firmware"}
    BY DispatchFate
  <1>2. TypeOK'
    <2>1. AcpiTypeOK'
      BY DEF AcpiInv
    <2>2. pc' = pc /\ n' = n /\ idt' = idt /\ idtr' = idtr /\ gdtr' = gdtr /\ ief' = ief /\ pic' = pic
      BY DEF cpu
    <2>3. fired' \in {None} \cup 0 .. 255
      BY <1>1
    <2> QED
      BY <1>1, <2>1, <2>2, <2>3 DEF StartInv, TypeOK
  <1>3. Sequence' /\ GatesSet'
    BY DEF StartInv, Sequence, GatesSet, Zeroed, cpu
  <1>4. InterruptsReturn'
    BY <1>1, DispatchFate DEF InterruptsReturn
  <1>5. FaultsReported'
    <2>1. Zeroed' = Zeroed /\ idtr' = idtr /\ gdtr' = gdtr /\ idt' = idt
      BY DEF Zeroed, cpu
    <2> QED
      BY <1>1, <2>1, DispatchFate DEF FaultsReported
  <1> QED
    BY <1>2, <1>3, <1>4, <1>5 DEF StartInv

\* Every call of _start and init, and everything that strikes.
LEMMA NextStart == StartInv /\ [Next]_vars => StartInv'
  <1> SUFFICES ASSUME StartInv, [Next]_vars PROVE StartInv'
    OBVIOUS
  <1>0. TypeOK /\ AcpiInv /\ Sequence /\ GatesSet /\ InterruptsReturn /\ FaultsReported
    BY DEF StartInv
  <1>1. CASE Welcome
    <2>1. AcpiInv'
      BY <1>0, <1>1, SameAcpi DEF Welcome
    <2>2. TypeOK'
      BY <1>0, <1>1, <2>1 DEF Welcome, At, cpu, end, TypeOK, AcpiInv
    <2>3. Sequence' /\ GatesSet'
      <3>1. Sequence'
        BY <1>0, <1>1 DEF Welcome, At, cpu, Sequence, Early, acpiVars
      <3>2. GatesSet'
        BY <1>0, <1>1, SameGates DEF Welcome, cpu
      <3> QED
        BY <3>1, <3>2
    <2>4. InterruptsReturn' /\ FaultsReported'
      <3>1. fate' = "running"
        BY <1>1 DEF Welcome, At, end
      <3> QED
        BY <3>1, WhileRunning
    <2> QED
      BY <2>1, <2>2, <2>3, <2>4 DEF StartInv
  <1>2. CASE GdtLoad
    <2>1. AcpiInv'
      BY <1>0, <1>2, SameAcpi DEF GdtLoad
    <2>2. TypeOK'
      BY <1>0, <1>2, <2>1 DEF GdtLoad, At, end, TypeOK, AcpiInv
    <2>3. Sequence' /\ GatesSet'
      <3>1. Sequence'
        BY <1>0, <1>2 DEF GdtLoad, At, Sequence, Early, acpiVars
      <3>2. GatesSet'
        BY <1>0, <1>2, SameGates DEF GdtLoad
      <3> QED
        BY <3>1, <3>2
    <2>4. InterruptsReturn' /\ FaultsReported'
      <3>1. fate' = "running"
        BY <1>2 DEF GdtLoad, At, end
      <3> QED
        BY <3>1, WhileRunning
    <2> QED
      BY <2>1, <2>2, <2>3, <2>4 DEF StartInv
  <1>3. CASE IdtSetVec
    <2>1. AcpiInv'
      BY <1>0, <1>3, SameAcpi DEF IdtSetVec
    <2>2. /\ n \in 0 .. 13 /\ n' = n + 1 /\ Gates[n + 1] \in 0 .. 255 /\ pc = "gates" /\ pc' = pc
          /\ idt \in [0 .. 255 -> {"absent", "junk", "gate", "stray"}]
          /\ idt' = [idt EXCEPT ![Gates[n + 1]] =
                        IF idt[Gates[n + 1]] \in {"absent", "gate"} THEN "gate" ELSE "stray"]
      <3>1. n \in 0 .. 14 /\ n < 14
        BY <1>0, <1>3, GateFacts DEF IdtSetVec, TypeOK
      <3>2. n + 1 \in 1 .. 14
        BY <3>1
      <3>3. Gates[n + 1] \in 0 .. 255
        BY <3>2, GateFacts
      <3> QED
        BY <1>0, <1>3, <3>1, <3>3 DEF IdtSetVec, TypeOK
    <2>3. idt' \in [0 .. 255 -> {"absent", "junk", "gate", "stray"}] /\ n' \in 0 .. Len(Gates)
      <3>2. idt' \in [0 .. 255 -> {"absent", "junk", "gate", "stray"}]
        <4>1. /\ idt \in [0 .. 255 -> {"absent", "junk", "gate", "stray"}]
              /\ Gates[n + 1] \in 0 .. 255
          BY <2>2
        <4> DEFINE g == Gates[n + 1]
                   s == IF idt[g] \in {"absent", "gate"} THEN "gate" ELSE "stray"
        <4>2. g \in 0 .. 255 /\ s \in {"gate", "stray"} /\ idt' = [idt EXCEPT ![g] = s]
          BY <2>2
        <4> HIDE DEF g, s
        <4> QED
          BY <4>1, <4>2, GateWritten
      <3>3. n' \in 0 .. Len(Gates)
        <4>1. n \in 0 .. 13 /\ n' = n + 1
          BY <2>2
        <4>2. Len(Gates) = 14
          BY GateFacts
        <4> QED
          BY <4>1, <4>2
      <3> QED
        BY <3>2, <3>3
    <2>4. TypeOK'
      <3>1. pc' \in {"welcome", "gdt", "gates", "vmm", "iopl", "acpi", "controller", "sti", "on"}
        BY <2>2
      <3>2. /\ idtr' \in {"firmware", "kernel"} /\ gdtr' \in {"firmware", "kernel"}
            /\ ief' \in BOOLEAN /\ pic' \in {"firmware", "kernel"}
            /\ fate' \in {"running", "panic", "halted", "reset", "wild", "firmware"}
            /\ fired' \in {None} \cup 0 .. 255 /\ shown' \in {None} \cup 0 .. 255
        BY <1>0, <1>3 DEF IdtSetVec, TypeOK, cpu, end
      <3> QED
        BY <2>1, <2>3, <3>1, <3>2 DEF TypeOK, AcpiInv
    <2>5. idtr' = "firmware" /\ Sequence'
      BY <1>0, <1>3, <2>2 DEF IdtSetVec, Sequence, cpu, acpiVars
    <2>6. GatesSet'
      <3> DEFINE h == Gates[n + 1]
                 s == IF idt[h] \in {"absent", "gate"} THEN "gate" ELSE "stray"
      <3>1. /\ h \in 0 .. 255 /\ s \in {"gate", "stray"}
            /\ (idt[h] \in {"absent", "gate"} => s = "gate")
            /\ (idt[h] \in {"junk", "stray"} => s = "stray")
            /\ \A w \in 0 .. 255 : idt'[w] = IF w = h THEN s ELSE idt[w]
        BY <2>2
      <3> HIDE DEF h, s
      <3>2. ASSUME NEW g \in 1 .. 14, g <= n + 1
            PROVE  idt'[Gates[g]] \in {"gate", "stray"}
        <4>1. Gates[g] \in 0 .. 255
          BY GateFacts
        <4>2. CASE g <= n
          BY <1>0, <3>1, <4>1, <4>2 DEF GatesSet
        <4>3. CASE g = n + 1
          BY <3>1, <4>3 DEF h
        <4> QED
          BY <2>2, <3>2, <4>2, <4>3
      <3>3. CASE Zeroed
        <4>1. Zeroed'
          BY <3>1, <3>3 DEF Zeroed
        <4> QED
          BY <2>2, <2>5, <3>2, <4>1 DEF GatesSet
      <3>4. CASE \A v \in 0 .. 255 : idt[v] \in {"junk", "stray"}
        <4>1. \A v \in 0 .. 255 : idt'[v] \in {"junk", "stray"}
          BY <3>1, <3>4
        <4> QED
          BY <2>2, <2>5, <3>2, <4>1 DEF GatesSet
      <3> QED
        BY <1>0, <3>3, <3>4 DEF GatesSet
    <2>7. InterruptsReturn' /\ FaultsReported'
      <3>1. fate' = "running"
        BY <1>3 DEF IdtSetVec, end
      <3> QED
        BY <3>1, WhileRunning
    <2> QED
      BY <2>1, <2>4, <2>5, <2>6, <2>7 DEF StartInv
  <1>4. CASE IdtInstall
    <2>1. AcpiInv'
      BY <1>0, <1>4, SameAcpi DEF IdtInstall
    <2>2. TypeOK'
      BY <1>0, <1>4, <2>1, GateFacts DEF IdtInstall, At, end, TypeOK, AcpiInv
    <2>3. Sequence' /\ GatesSet'
      <3>1. Sequence'
        BY <1>0, <1>4 DEF IdtInstall, At, Sequence, Early, acpiVars
      <3>2. GatesSet'
        BY <1>0, <1>4, GateFacts DEF IdtInstall, GatesSet, Zeroed, TypeOK
      <3> QED
        BY <3>1, <3>2
    <2>4. InterruptsReturn' /\ FaultsReported'
      <3>1. fate' = "running"
        BY <1>4 DEF IdtInstall, At, end
      <3> QED
        BY <3>1, WhileRunning
    <2> QED
      BY <2>1, <2>2, <2>3, <2>4 DEF StartInv
  <1>5. CASE VmmInit
    <2>1. AcpiInv'
      BY <1>0, <1>5, SameAcpi DEF VmmInit
    <2>2. TypeOK'
      BY <1>0, <1>5, <2>1 DEF VmmInit, At, cpu, TypeOK, AcpiInv
    <2>3. Sequence' /\ GatesSet'
      <3>1. Sequence'
        BY <1>0, <1>5 DEF VmmInit, At, cpu, Sequence, Early, acpiVars
      <3>2. GatesSet'
        BY <1>0, <1>5, SameGates DEF VmmInit, cpu
      <3> QED
        BY <3>1, <3>2
    <2>4. InterruptsReturn' /\ FaultsReported'
      <3>1. fate' \in {"running", "halted"}
        BY <1>5 DEF VmmInit
      <3> QED
        BY <3>1, WhileRunning
    <2> QED
      BY <2>1, <2>2, <2>3, <2>4 DEF StartInv
  <1>6. CASE ZeroIopl
    <2>1. AcpiInv'
      BY <1>0, <1>6, SameAcpi DEF ZeroIopl
    <2>2. TypeOK'
      BY <1>0, <1>6, <2>1 DEF ZeroIopl, At, cpu, end, TypeOK, AcpiInv
    <2>3. Sequence' /\ GatesSet'
      <3>1. Sequence'
        BY <1>0, <1>6 DEF ZeroIopl, At, cpu, Sequence, Early, acpiVars
      <3>2. GatesSet'
        BY <1>0, <1>6, SameGates DEF ZeroIopl, cpu
      <3> QED
        BY <3>1, <3>2
    <2>4. InterruptsReturn' /\ FaultsReported'
      <3>1. fate' = "running"
        BY <1>6 DEF ZeroIopl, At, end
      <3> QED
        BY <3>1, WhileRunning
    <2> QED
      BY <2>1, <2>2, <2>3, <2>4 DEF StartInv
  <1>7. CASE AcpiStep
    <2>1. AcpiInv'
      BY <1>0, <1>7, NextAcpi DEF AcpiStep
    <2>2. CASE apc' = "fault"
      <3>1. Dispatch(14) /\ UNCHANGED usingApic
        BY <1>7, <2>2
      DEF AcpiStep, AcpiNext, VerifyRsdp, SumFaults, VerifyRsdt, FindMadt, ScanFaults, ScanEnds
      <3>2. 14 \notin {FirmwareIrq, Irq0} /\ 14 \in 0 .. 255
        BY StartAssumption DEF Irq0
      <3> QED
        BY <1>7, <2>1, <3>1, <3>2, StrikeKeeps DEF AcpiStep
    <2>3. CASE apc' # "fault"
      <3>1. TypeOK'
        BY <1>0, <1>7, <2>1, <2>3 DEF AcpiStep, cpu, end, TypeOK, AcpiInv
      <3>2. Sequence' /\ GatesSet'
        BY <1>0, <1>7, <2>1, <2>3
        DEF AcpiStep, cpu, end, Sequence, Early, GatesSet, Zeroed, AcpiInv, TypeOK
      <3>3. InterruptsReturn' /\ FaultsReported'
        BY <1>0, <1>7, <2>1, <2>3
        DEF AcpiStep, cpu, end, InterruptsReturn, FaultsReported, Zeroed, Sequence, Early, TypeOK
      <3> QED
        BY <2>1, <3>1, <3>2, <3>3 DEF StartInv
    <2> QED
      BY <2>2, <2>3
  <1>8. CASE ClearApic
    <2>1. AcpiInv'
      BY <1>0, <1>8 DEF ClearApic, AcpiInv, AcpiTypeOK, WellFormed, InTable, Checked, Passed,
                        ScanInTable, OnlySummedTables, FirstTaken, Taken
    <2>2. TypeOK'
      BY <1>0, <1>8, <2>1 DEF ClearApic, At, cpu, end, TypeOK, AcpiInv
    <2>3. Sequence' /\ GatesSet'
      <3>1. Sequence'
        BY <1>0, <1>8 DEF ClearApic, At, cpu, Sequence, Early, acpiVars
      <3>2. GatesSet'
        BY <1>0, <1>8, SameGates DEF ClearApic, cpu
      <3> QED
        BY <3>1, <3>2
    <2>4. InterruptsReturn' /\ FaultsReported'
      <3>1. fate' = "running"
        BY <1>8 DEF ClearApic, At, end
      <3> QED
        BY <3>1, WhileRunning
    <2> QED
      BY <2>1, <2>2, <2>3, <2>4 DEF StartInv
  <1>9. CASE SetUpController
    <2>1. AcpiInv'
      BY <1>0, <1>9, SameAcpi DEF SetUpController
    <2>2. TypeOK'
      BY <1>0, <1>9, <2>1 DEF SetUpController, At, cpu, end, TypeOK, AcpiInv
    <2>3. Sequence' /\ GatesSet'
      <3>1. Sequence'
        BY <1>0, <1>9 DEF SetUpController, At, cpu, Sequence, Early, acpiVars
      <3>2. GatesSet'
        BY <1>0, <1>9, SameGates DEF SetUpController, cpu
      <3> QED
        BY <3>1, <3>2
    <2>4. InterruptsReturn' /\ FaultsReported'
      <3>1. fate' = "running"
        BY <1>9 DEF SetUpController, At, end
      <3> QED
        BY <3>1, WhileRunning
    <2> QED
      BY <2>1, <2>2, <2>3, <2>4 DEF StartInv
  <1>10. CASE Sti
    <2>1. AcpiInv'
      BY <1>0, <1>10, SameAcpi DEF Sti
    <2>2. TypeOK'
      BY <1>0, <1>10, <2>1 DEF Sti, At, end, TypeOK, AcpiInv
    <2>3. Sequence' /\ GatesSet'
      <3>1. Sequence'
        BY <1>0, <1>10 DEF Sti, At, Sequence, Early, acpiVars
      <3>2. GatesSet'
        BY <1>0, <1>10, SameGates DEF Sti
      <3> QED
        BY <3>1, <3>2
    <2>4. InterruptsReturn' /\ FaultsReported'
      <3>1. fate' = "running"
        BY <1>10 DEF Sti, At, end
      <3> QED
        BY <3>1, WhileRunning
    <2> QED
      BY <2>1, <2>2, <2>3, <2>4 DEF StartInv
  <1>11. CASE Interrupt
    <2>1. AcpiInv' /\ UNCHANGED << pc, n, idt, cpu, pic, apc, usingApic >>
      BY <1>0, <1>11, SameAcpi DEF Interrupt, acpiVars
    <2>2. CASE pic = "firmware"
      <3>1. idtr = "firmware" /\ gdtr = "firmware"
        BY <1>0, <1>11, <2>2 DEF Interrupt, Sequence, Early
      <3>2. FirmwareIrq \in 0 .. 255 /\ FirmwareIrq # Irq0
        BY StartAssumption DEF Irq0
      <3>3. fate = "running" /\ Dispatch(FirmwareIrq)
        BY <1>11, <2>2 DEF Interrupt
      <3> QED
        BY <2>1, <3>1, <3>2, <3>3, StrikeKeeps
    <2>3. CASE pic # "firmware"
      <3>1. idtr = "kernel"
        BY <1>0, <2>3 DEF Sequence, Early
      <3>2. Irq0 \in 0 .. 255 /\ FirmwareIrq # Irq0
        BY StartAssumption DEF Irq0
      <3>3. fate = "running" /\ Dispatch(Irq0)
        BY <1>11, <2>3 DEF Interrupt
      <3> QED
        BY <2>1, <3>1, <3>2, <3>3, StrikeKeeps
    <2> QED
      BY <2>2, <2>3
  <1>12. ASSUME NEW v \in Vectors, Strike(v) PROVE StartInv'
    <2>1. AcpiInv' /\ UNCHANGED << pc, n, idt, cpu, pic, apc, usingApic >>
      BY <1>0, <1>12, SameAcpi DEF Strike, acpiVars
    <2>2. v \in 0 .. 255 /\ v \notin {FirmwareIrq, Irq0}
      BY StartAssumption DEF Irq0
    <2>3. fate = "running" /\ Dispatch(v)
      BY <1>12 DEF Strike
    <2> QED
      BY <2>1, <2>2, <2>3, StrikeKeeps
  <1>13. CASE UNCHANGED vars
    <2>1. AcpiInv'
      BY <1>0, <1>13, SameAcpi DEF vars
    <2>2. TypeOK'
      BY <1>0, <1>13, <2>1 DEF vars, cpu, end, TypeOK, AcpiInv
    <2>3. Sequence' /\ GatesSet'
      <3>1. Sequence'
        BY <1>0, <1>13 DEF vars, cpu, Sequence, Early, acpiVars
      <3>2. GatesSet'
        BY <1>0, <1>13 DEF vars, cpu, GatesSet, Zeroed
      <3> QED
        BY <3>1, <3>2
    <2>4. InterruptsReturn' /\ FaultsReported'
      <3>1. UNCHANGED << idt, idtr, gdtr, fate, fired, shown >>
        BY <1>13 DEF vars, cpu, end
      <3>2. InterruptsReturn'
        BY <1>0, <3>1 DEF InterruptsReturn
      <3>3. FaultsReported'
        BY <1>0, <3>1 DEF FaultsReported, Zeroed
      <3> QED
        BY <3>2, <3>3
    <2> QED
      BY <2>1, <2>2, <2>3, <2>4 DEF StartInv
  <1> QED
    BY <1>1, <1>2, <1>3, <1>4, <1>5, <1>6, <1>7, <1>8, <1>9, <1>10, <1>11, <1>12, <1>13
    DEF Next, Kernel

\* The inductive invariant of the kernel's start.
THEOREM StartInvariant == Spec => []StartInv
  BY InitStart, NextStart, PTL DEF Spec

-----------------------------------------------------------------------------
(***************************************************************************)
(* Theorems                                                                *)
(***************************************************************************)
\* Every variable of the start and of acpi_init keeps its type: the loop
\* counter of find_madt never wraps (kernel.c:121-165, acpi.c:41).
THEOREM StartTypeCorrect == Spec => []TypeOK
  BY StartInvariant, PTL DEF StartInv

\* No interrupt is enabled without a handler, and one ends the kernel only by the
\* ist that idt_set_vec leaves in IRQ 0's gate (GDT.asm:48, IDT.c:31-44,
\* kernel.c:139-165).
THEOREM InterruptsAreHandled == Spec => []InterruptsHaveHandlers
  <1>1. StartInv => InterruptsHaveHandlers
    <2> SUFFICES ASSUME StartInv PROVE InterruptsHaveHandlers
      OBVIOUS
    <2>1. ief => (idtr = gdtr /\ (idtr = "kernel" => pic = "kernel"))
      BY DEF StartInv, Sequence, Early
    <2>2. idtr = "kernel" => idt[Irq0] \in {"gate", "stray"}
      BY Installed, GateFacts
    <2> QED
      BY <2>1, <2>2 DEF InterruptsHaveHandlers, StartInv, InterruptsReturn
  <1> QED
    BY <1>1, StartInvariant, PTL

\* Which exceptions the panic handlers report, and under which number, for zeroed
\* and for other memory of idt (kernel.c:123-141, IDT.c:8, :31-44).
THEOREM FaultsAreReported == Spec => []FaultsReported
  BY StartInvariant, PTL DEF StartInv

\* kern_flags names the controller that drives the timer (kernel.c:148-154).
THEOREM FlagNamesTheController == Spec => []FlagNamesController
  <1>1. StartInv => FlagNamesController
    BY DEF StartInv, Sequence, FlagNamesController
  <1> QED
    BY <1>1, StartInvariant, PTL

\* find_madt leaves the RSDT of a good RSDP only when its length is below the
\* header's (acpi.c:35, :42).
THEOREM SearchStaysInTable == Spec => []ScanInTable
  BY StartInvariant, PTL DEF StartInv, AcpiInv

\* USING_APIC is set by a table that sums to zero only, and apic_madt never is
\* then what .bss held; NULL passes for an RSDP (acpi.c:62-77, string.c:107).
THEOREM OnlySummedTablesUsed == Spec => []OnlySummedTables
  BY StartInvariant, PTL DEF StartInv, AcpiInv

\* The search of a good RSDP's table of proper length ends at its first MADT or 0
\* (acpi.c:40-55).
THEOREM FindsFirstTaken == Spec => []FirstTaken
  BY StartInvariant, PTL DEF StartInv, AcpiInv
=============================================================================
