-------------------------------- MODULE Vmm --------------------------------
(***************************************************************************)
(* The virtual memory manager of the kernel (arch/memory/impl/vmm.c): the  *)
(* choice of the segment page tables are taken from, the bump allocator    *)
(* over it, the recursive map_page, unmap_page with its TLB flush, and     *)
(* vmm_init, which identity maps the low addresses and loads CR3.          *)
(*                                                                         *)
(* Addresses are page numbers (addr >> 12).  The 512 entries of a          *)
(* MappingTable are Radix entries here.  A call of map_page is a stack of  *)
(* frames, one per active invocation, so every intermediate state of the   *)
(* recursion is a state of the model; one step is one level of one walk.   *)
(***************************************************************************)
EXTENDS Integers, Sequences

CONSTANTS
    Radix,        \* entries of a MappingTable
    Page,         \* page numbers four table levels can translate
    Limit,        \* vmm_init identity maps the pages below Limit
    Pml4Page,     \* the page of the static variable pml4
    MemoryMaps,   \* the memory maps the firmware may hand over
    ClientPages,  \* pages the rest of the kernel maps and unmaps
    ClientFlags   \* the flags it passes to map_page

Index == 0 .. (Radix - 1)
Level == 1 .. 4      \* 4 = PML4, 3 = PDPT, 2 = page directory, 1 = page table

\* (addr >> 12 + 9 * (l - 1)) & 0x1FF, the index into a table of level l.
Idx(l, p) == << p,
                p \div Radix,
                (p \div Radix) \div Radix,
                ((p \div Radix) \div Radix) \div Radix >>[l] % Radix

Bit == {"P", "W", "U"}      \* PRESENT, WRITABLE and USER of a table entry
Entry == [addr : Page, bits : SUBSET Bit]
Present(e) == "P" \in e.bits
Zeroed == [i \in Index |-> [addr |-> 0, bits |-> {}]]

Segment == [base : Page, nPages : Nat]
Pages(s) == {p \in Page : s.base <= p /\ p < s.base + s.nPages}
Descriptor == [usable : BOOLEAN, base : Page, nPages : Nat]

ASSUME RadixAssumption == Radix \in Nat /\ Radix > 1

\* Page numbers fit the four indices, and cover the range that is mapped.
ASSUME PageAssumption ==
    /\ Page \subseteq {p \in Nat : ((p \div Radix) \div Radix) \div Radix < Radix}
    /\ Limit \in Nat
    /\ 0 .. (Limit - 1) \subseteq Page

\* The kernel image lies below Limit.  The firmware reports physical memory,
\* and none of it as usable that holds the image.
ASSUME MemoryMapAssumption ==
    /\ Pml4Page \in 0 .. (Limit - 1)
    /\ \A mm \in MemoryMaps :
        /\ mm \in Seq(Descriptor)
        /\ \A i \in DOMAIN mm : mm[i].usable =>
            /\ mm[i].base .. (mm[i].base + mm[i].nPages - 1) \subseteq Page
            /\ Pml4Page \notin Pages(mm[i])

\* The rest of the kernel leaves the kernel image and the memory page tables
\* may be taken from alone; unmap_page itself does not check that.
ASSUME ClientAssumption ==
    /\ ClientPages \subseteq Page \ {Pml4Page}
    /\ \A mm \in MemoryMaps : \A i \in DOMAIN mm :
          mm[i].usable => Pages(mm[i]) \cap ClientPages = {}
    /\ ClientFlags \subseteq SUBSET Bit

VARIABLES
    mmap,            \* the memory map passed in meminfo
    scan,            \* loop counter of set_alloc_base
    biggestSegment,
    placement,       \* next page the allocator hands out
    segment_usable,  \* pages it has left
    table,           \* the MappingTables zeroed so far, by the page they are in
    kind,            \* level each of them was linked at; no action reads it
    addr,            \* loop counter of vmm_init
    stack,           \* active invocations of map_page, innermost last
    unmapping,       \* the page of the unmap_page call in progress, if any
    cr3,             \* TRUE once load_pml4 has run
    tlb,             \* client pages the CPU holds a cached translation of
    cr2,             \* the page of the last page fault
    mode             \* where the kernel is

bootVars == << mmap, scan, biggestSegment >>
poolVars == << placement, segment_usable >>
tableVars == << table, kind >>
cpuVars == << cr3, tlb, cr2 >>
vars == << bootVars, poolVars, tableVars, addr, stack, unmapping, cpuVars, mode >>

\* 0xDEADBEEF is not page aligned, hence the number of no page.
DeadBeef == -1

Halted == {"base_failed", "out_of_memory", "page_fault", "wild"}
Mode == {"scan", "identity", "running"} \cup Halted

\* One invocation of map_page: its arguments, the level its walk has reached,
\* and the local pointer (pml4, pdpt, pdt or pt) to the table at that level.
Frame == [page : Page, flags : SUBSET Bit, level : Level, tab : Page]
MapPage(p, f) == [page |-> p, flags |-> f \cup {"P"}, level |-> 4, tab |-> Pml4Page]

-----------------------------------------------------------------------------
(***************************************************************************)
(* The walk from pml4 to the entry that translates page p.                 *)
(***************************************************************************)
Pml4e(p) == table[Pml4Page][Idx(4, p)]
Pdpt(p) == Pml4e(p).addr
Pdpte(p) == table[Pdpt(p)][Idx(3, p)]
Pd(p) == Pdpte(p).addr
Pde(p) == table[Pd(p)][Idx(2, p)]
Pt(p) == Pde(p).addr
Pte(p) == table[Pt(p)][Idx(1, p)]

HasPdpt(p) == Pml4Page \in DOMAIN table /\ Present(Pml4e(p))
HasPd(p) == HasPdpt(p) /\ Present(Pdpte(p))
HasPt(p) == HasPd(p) /\ Present(Pde(p))
Mapped(p) == HasPt(p) /\ Present(Pte(p))

\* What the CPU can touch: before load_pml4 the firmware's tables are in use,
\* which map everything; afterwards only what the kernel's own tables map.
Accessible(p) == cr3 => Mapped(p)

-----------------------------------------------------------------------------
Init ==
    /\ mmap \in MemoryMaps
    /\ scan = 1
    /\ biggestSegment = [base |-> 0, nPages |-> 0]
    /\ placement = DeadBeef
    /\ segment_usable = 0
    /\ table = [f \in {} |-> Zeroed]
    /\ kind = [f \in {} |-> 4]
    /\ addr = 0
    /\ stack = << >>
    /\ unmapping = {}
    /\ cr3 = FALSE
    /\ tlb = {}
    /\ cr2 = 0
    /\ mode = "scan"

\* Mutant: the descriptor's type is not looked at.
ScanDescriptorAnyType ==
    /\ mode = "scan"
    /\ scan <= Len(mmap)
    /\ LET cur == mmap[scan] IN
        biggestSegment' =
            IF cur.nPages > biggestSegment.nPages
            THEN [base |-> cur.base, nPages |-> cur.nPages]
            ELSE biggestSegment
    /\ scan' = scan + 1
    /\ UNCHANGED << mmap, poolVars, tableVars, addr, stack, unmapping, cpuVars, mode >>

\* One iteration of the loop of set_alloc_base.
ScanDescriptor ==
    /\ mode = "scan"
    /\ scan <= Len(mmap)
    /\ LET cur == mmap[scan] IN
        biggestSegment' =
            IF cur.nPages > biggestSegment.nPages /\ cur.usable
            THEN [base |-> cur.base, nPages |-> cur.nPages]
            ELSE biggestSegment
    /\ scan' = scan + 1
    /\ UNCHANGED << mmap, poolVars, tableVars, addr, stack, unmapping, cpuVars, mode >>

\* The end of set_alloc_base, vmm_init's test of its result, and memzero(&pml4).
SetAllocBase ==
    /\ mode = "scan"
    /\ scan > Len(mmap)
    /\ placement' = biggestSegment.base
    /\ segment_usable' = biggestSegment.nPages
    /\ table' = [f \in {Pml4Page} |-> Zeroed]
    /\ kind' = [f \in {Pml4Page} |-> 4]
    /\ mode' = IF placement' = DeadBeef THEN "base_failed" ELSE "identity"
    /\ UNCHANGED << bootVars, addr, stack, unmapping, cpuVars >>

\* Mutant: the loop counter is not advanced.
IdentityMapSame ==
    /\ mode = "identity"
    /\ stack = << >>
    /\ addr < Limit
    /\ stack' = << MapPage(addr, {"W"}) >>
    /\ UNCHANGED << bootVars, poolVars, tableVars, addr, unmapping, cpuVars, mode >>

\* The next iteration of vmm_init's loop calls map_page.
IdentityMapNext ==
    /\ mode = "identity"
    /\ stack = << >>
    /\ addr < Limit
    /\ stack' = << MapPage(addr, {"W"}) >>
    /\ addr' = addr + 1
    /\ UNCHANGED << bootVars, poolVars, tableVars, unmapping, cpuVars, mode >>

\* Mutant: the loop stops one page short.
LoadPml4Early ==
    /\ mode = "identity"
    /\ stack = << >>
    /\ addr = Limit - 1
    /\ cr3' = TRUE
    /\ tlb' = {}
    /\ mode' = "running"
    /\ UNCHANGED << bootVars, poolVars, tableVars, addr, stack, unmapping, cr2 >>

\* The loop is done: load_pml4(&pml4).  Writing CR3 empties the TLB.
LoadPml4 ==
    /\ mode = "identity"
    /\ stack = << >>
    /\ addr = Limit
    /\ cr3' = TRUE
    /\ tlb' = {}
    /\ mode' = "running"
    /\ UNCHANGED << bootVars, poolVars, tableVars, addr, stack, unmapping, cr2 >>

-----------------------------------------------------------------------------
(***************************************************************************)
(* map_page.  The code spells the step from a table to the one below it    *)
(* three times (PML4, PDPT, PDT); here it is one action for level > 1.     *)
(***************************************************************************)
Top == stack[Len(stack)]
Slot == Idx(Top.level, Top.page)
TopEntry == table[Top.tab][Slot]
InMapPage == mode \in {"identity", "running"} /\ stack # << >>
NeedsTable == Top.level > 1 /\ ~Present(TopEntry)

\* Mutant: the walk goes down a level but keeps its old table pointer.
DescendStale ==
    /\ InMapPage
    /\ Top.level > 1
    /\ Accessible(Top.tab)
    /\ Present(TopEntry)
    /\ stack' = [stack EXCEPT ![Len(stack)] = [Top EXCEPT !.level = Top.level - 1]]
    /\ UNCHANGED << bootVars, poolVars, tableVars, addr, unmapping, cpuVars, mode >>

\* The entry is present: follow it to the table below.
Descend ==
    /\ InMapPage
    /\ Top.level > 1
    /\ Accessible(Top.tab)
    /\ Present(TopEntry)
    /\ stack' = [stack EXCEPT ![Len(stack)] =
                    [Top EXCEPT !.level = Top.level - 1, !.tab = TopEntry.addr]]
    /\ UNCHANGED << bootVars, poolVars, tableVars, addr, unmapping, cpuVars, mode >>

\* Mutants of the allocator: no test for exhaustion, no decrement of the count,
\* no advance of the placement.
TakePageUnchecked ==
    /\ segment_usable' = segment_usable - 1
    /\ placement' = placement + 1
TakePageUncounted ==
    /\ segment_usable > 0
    /\ segment_usable' = segment_usable
    /\ placement' = placement + 1
TakePageAgain ==
    /\ segment_usable > 0
    /\ segment_usable' = segment_usable - 1
    /\ placement' = placement

\* internel_alloc_page with pages left.
TakePage ==
    /\ segment_usable > 0
    /\ segment_usable' = segment_usable - 1
    /\ placement' = placement + 1

\* The page at placement becomes a zeroed table that the current entry points to.
LinkNewTable(bits) ==
    /\ table' = [f \in DOMAIN table \cup {placement} |->
                    IF f = placement THEN Zeroed
                    ELSE IF f = Top.tab
                    THEN [table[f] EXCEPT ![Slot] = [addr |-> placement, bits |-> bits]]
                    ELSE table[f]]
    /\ kind' = [f \in DOMAIN kind \cup {placement} |->
                    IF f = placement THEN Top.level - 1 ELSE kind[f]]

\* Mutant: the recursive call that maps the table's own page is missing.
AllocTableUnmapped ==
    /\ InMapPage
    /\ Accessible(Top.tab)
    /\ NeedsTable
    /\ TakePage
    /\ Accessible(placement)
    /\ LinkNewTable(Top.flags)
    /\ UNCHANGED << bootVars, stack, addr, unmapping, cpuVars, mode >>

\* Mutant: the table is linked with the PRESENT bit alone.
AllocTableReadOnly ==
    /\ InMapPage
    /\ Accessible(Top.tab)
    /\ NeedsTable
    /\ TakePage
    /\ Accessible(placement)
    /\ LinkNewTable({"P"})
    /\ stack' = Append(stack, MapPage(placement, Top.flags))
    /\ UNCHANGED << bootVars, addr, unmapping, cpuVars, mode >>

\* The entry is absent: allocate and zero a table, link it with the caller's
\* flags, and map the table's own page by a recursive call.
AllocTable ==
    /\ InMapPage
    /\ Accessible(Top.tab)
    /\ NeedsTable
    /\ TakePage
    /\ Accessible(placement)
    /\ LinkNewTable(Top.flags)
    /\ stack' = Append(stack, MapPage(placement, Top.flags))
    /\ UNCHANGED << bootVars, addr, unmapping, cpuVars, mode >>

\* internel_alloc_page with none left: log and FULL_HALT.
OutOfMemory ==
    /\ InMapPage
    /\ Accessible(Top.tab)
    /\ NeedsTable
    /\ segment_usable = 0
    /\ mode' = "out_of_memory"
    /\ UNCHANGED << bootVars, poolVars, tableVars, addr, stack, unmapping, cpuVars >>

\* A dereference of a page the tables do not map: the walk's current table, or
\* the fresh page memzero clears before map_page has been called for it.
PageFault ==
    /\ InMapPage
    /\ \E p \in {Top.tab} \cup (IF Accessible(Top.tab) /\ NeedsTable /\ segment_usable > 0
                                THEN {placement} ELSE {}) :
        /\ ~Accessible(p)
        /\ cr2' = p
        /\ IF p = Top.tab THEN UNCHANGED poolVars ELSE TakePage
    /\ mode' = "page_fault"
    /\ UNCHANGED << bootVars, tableVars, addr, stack, unmapping, cr3, tlb >>

\* Mutant: no return when the entry is present already.
MapLeafOnce ==
    /\ InMapPage
    /\ Top.level = 1
    /\ ~Present(TopEntry)
    /\ Accessible(Top.tab)
    /\ table' = IF Present(TopEntry) THEN table
                ELSE [table EXCEPT ![Top.tab][Slot] =
                        [addr |-> Top.page, bits |-> Top.flags]]
    /\ stack' = SubSeq(stack, 1, Len(stack) - 1)
    /\ UNCHANGED << bootVars, poolVars, kind, addr, unmapping, cpuVars, mode >>

\* Mutant: the entry gets the address of the table instead of the page's.
MapLeafWrongPage ==
    /\ InMapPage
    /\ Top.level = 1
    /\ Accessible(Top.tab)
    /\ table' = IF Present(TopEntry) THEN table
                ELSE [table EXCEPT ![Top.tab][Slot] =
                        [addr |-> Top.tab, bits |-> Top.flags]]
    /\ stack' = SubSeq(stack, 1, Len(stack) - 1)
    /\ UNCHANGED << bootVars, poolVars, kind, addr, unmapping, cpuVars, mode >>

\* The page table is reached: fill the entry unless it is present, and return.
MapLeaf ==
    /\ InMapPage
    /\ Top.level = 1
    /\ Accessible(Top.tab)
    /\ table' = IF Present(TopEntry) THEN table
                ELSE [table EXCEPT ![Top.tab][Slot] =
                        [addr |-> Top.page, bits |-> Top.flags]]
    /\ stack' = SubSeq(stack, 1, Len(stack) - 1)
    /\ UNCHANGED << bootVars, poolVars, kind, addr, unmapping, cpuVars, mode >>

-----------------------------------------------------------------------------
(***************************************************************************)
(* The rest of the kernel, once vmm_init has returned.  It runs one call   *)
(* at a time; the interrupt handlers call neither function.                *)
(***************************************************************************)
Idle == mode = "running" /\ stack = << >> /\ unmapping = {}

CallMapPage(p, f) ==
    /\ Idle
    /\ stack' = << MapPage(p, f) >>
    /\ UNCHANGED << bootVars, poolVars, tableVars, addr, unmapping, cpuVars, mode >>

\* unmap_page up to the store into the page table.  Calls that change nothing
\* (an unaligned address, an entry that is not present) are stuttering steps.
UnmapClear(p) ==
    /\ Idle
    /\ Mapped(p)
    /\ Accessible(Pml4Page) /\ Accessible(Pdpt(p)) /\ Accessible(Pd(p)) /\ Accessible(Pt(p))
    /\ table' = [table EXCEPT ![Pt(p)][Idx(1, p)] = [addr |-> p, bits |-> {}]]
    /\ unmapping' = {p}
    /\ UNCHANGED << bootVars, poolVars, kind, addr, stack, cpuVars, mode >>

\* Mutant: unmap_page returns without invlpg.
FlushTlbNot ==
    /\ mode = "running"
    /\ unmapping # {}
    /\ unmapping' = {}
    /\ UNCHANGED << bootVars, poolVars, tableVars, addr, stack, cpuVars, mode >>

\* flush_tlb(logical), and the return of unmap_page.
FlushTlb ==
    /\ mode = "running"
    /\ unmapping # {}
    /\ tlb' = tlb \ unmapping
    /\ unmapping' = {}
    /\ UNCHANGED << bootVars, poolVars, tableVars, addr, stack, cr3, cr2, mode >>

\* unmap_page does not test the PRESENT bit of the entries it walks: where a
\* level is missing it takes page 0 for a table, reads what is there as an
\* entry, and may store into it.  The other outcome is that nothing happens.
UnmapWild(p) ==
    /\ Idle
    /\ ~HasPt(p)
    /\ mode' = "wild"
    /\ unmapping' = {p}
    /\ UNCHANGED << bootVars, poolVars, tableVars, addr, stack, cpuVars >>

\* The CPU may cache a translation whenever the tables provide it.
TlbFill(p) ==
    /\ cr3
    /\ mode = "running"
    /\ Mapped(p)
    /\ tlb' = tlb \cup {p}
    /\ UNCHANGED << bootVars, poolVars, tableVars, addr, stack, unmapping, cr3, cr2, mode >>

KernelStep ==
    \/ ScanDescriptor \/ SetAllocBase \/ IdentityMapNext \/ LoadPml4
    \/ Descend \/ AllocTable \/ OutOfMemory \/ PageFault \/ MapLeaf
    \/ FlushTlb

Next ==
    \/ KernelStep
    \/ \E p \in ClientPages :
        \/ \E f \in ClientFlags : CallMapPage(p, f)
        \/ UnmapClear(p)
        \/ UnmapWild(p)
        \/ TlbFill(p)

\* The CPU executes the kernel's next instruction sooner or later; nothing
\* obliges the rest of the kernel to call, or the CPU to fill its TLB.
Spec == Init /\ [][Next]_vars /\ WF_vars(KernelStep)
-----------------------------------------------------------------------------
(***************************************************************************)
(* Properties                                                              *)
(***************************************************************************)
TypeOK ==
    /\ mmap \in MemoryMaps
    /\ scan \in 1 .. (Len(mmap) + 1)
    /\ biggestSegment \in Segment
    /\ placement \in Int
    /\ segment_usable \in Nat
    /\ table \in [DOMAIN table -> [Index -> Entry]]
    /\ DOMAIN table \subseteq Page
    /\ kind \in [DOMAIN table -> Level]
    /\ addr \in 0 .. Limit
    /\ stack \in Seq(Frame)
    /\ unmapping \in SUBSET ClientPages
    /\ cr3 \in BOOLEAN
    /\ tlb \in SUBSET ClientPages
    /\ cr2 \in Page
    /\ mode \in Mode

\* set_alloc_base settles on a descriptor of usable memory that no other usable
\* descriptor exceeds, if there is any (vmm.c:36-41).
LargestSegment ==
    mode # "scan" =>
        /\ \A i \in DOMAIN mmap : mmap[i].usable => mmap[i].nPages <= biggestSegment.nPages
        /\ biggestSegment.nPages > 0 =>
            \E i \in DOMAIN mmap :
                /\ mmap[i].usable
                /\ biggestSegment = [base |-> mmap[i].base, nPages |-> mmap[i].nPages]

\* The allocator hands out every page of the segment once, in order: besides
\* pml4, the tables in use are exactly the pages below placement, and
\* segment_usable counts the pages above it (vmm.c:20, 48-58).
AllocatorExact ==
    mode \in {"identity", "running"} =>
        /\ DOMAIN table = {Pml4Page} \cup
                {p \in Pages(biggestSegment) : p < placement}
        /\ placement + segment_usable = biggestSegment.base + biggestSegment.nPages

\* Every present entry above the leaves leads to a table of the next level, and
\* every table other than pml4 hangs off exactly one entry: no table is shared
\* between two address ranges, leaked, or reached at two levels, at any point
\* of the recursion (vmm.c:76-103).
Links(f, i, g) == kind[f] > 1 /\ Present(table[f][i]) /\ table[f][i].addr = g
TreeWellFormed ==
    /\ \A f \in DOMAIN table, i \in Index :
        kind[f] > 1 /\ Present(table[f][i]) =>
            /\ table[f][i].addr \in DOMAIN table
            /\ kind[table[f][i].addr] = kind[f] - 1
    /\ \A g \in DOMAIN table \ {Pml4Page} :
        \E f \in DOMAIN table, i \in Index :
            /\ Links(f, i, g)
            /\ \A ff \in DOMAIN table, ii \in Index : Links(ff, ii, g) => ff = f /\ ii = i

\* The local pointers an invocation of map_page keeps across its recursive
\* calls are still those its walk from pml4 would find (vmm.c:84-105).
LocalsFresh ==
    \A k \in DOMAIN stack : LET s == stack[k] IN
        \/ s.level = 4 /\ s.tab = Pml4Page
        \/ s.level = 3 /\ HasPdpt(s.page) /\ s.tab = Pdpt(s.page)
        \/ s.level = 2 /\ HasPd(s.page) /\ s.tab = Pd(s.page)
        \/ s.level = 1 /\ HasPt(s.page) /\ s.tab = Pt(s.page)

\* A page table is always mapped itself, or an active invocation of map_page is
\* about to map it; and once CR3 is loaded it is mapped outright, for otherwise
\* the kernel could not change it any more (vmm.c:81, 91, 102, 160).
TablesMapped ==
    /\ \A f \in DOMAIN table \ {Pml4Page} :
        Mapped(f) \/ \E k \in DOMAIN stack : stack[k].page = f
    /\ cr3 => \A f \in DOMAIN table : Mapped(f)

\* The tables stay writable after CR3 is loaded, whatever flags the rest of the
\* kernel maps its own pages with: map_page links and maps a new table with the
\* flags of the page it is needed for (vmm.c:80, 90, 101).
WritablePath(p) ==
    \A e \in {Pml4e(p), Pdpte(p), Pde(p), Pte(p)} : "W" \in e.bits
TablesWritable == cr3 => \A f \in DOMAIN table : WritablePath(f)

\* A present leaf entry translates its page to itself, and once CR3 is loaded
\* every page below Limit is mapped unless unmap_page was called for it
\* (vmm.c:107-109, 152-156).
IdentityMapped ==
    /\ \A p \in Page : Mapped(p) => Pte(p).addr = p
    /\ cr3 => \A p \in 0 .. (Limit - 1) : p \in ClientPages \/ Mapped(p)

\* After unmap_page has returned the CPU holds no translation the tables do not
\* provide (vmm.c:128-131).
TlbCoherent == \A p \in tlb : p \in unmapping \/ Mapped(p)

\* The kernel's own page faults, and walks through missing tables, concern only
\* pages vmm_init did not identity map: a fresh table beyond Limit, touched by
\* memzero before it is mapped, or an unmap_page beyond Limit (vmm.c:78-81,
\* 124-126).
FaultsBeyondLimit ==
    /\ mode = "page_fault" => cr2 >= Limit
    /\ mode = "wild" => \A p \in unmapping : p >= Limit

\* vmm_init finishes or halts: no memory map makes the recursion of map_page
\* run forever.
BootEnds == <>(mode \notin {"scan", "identity"})

\* Every call of map_page returns or stops the kernel.
CallsReturn == (stack # << >>) ~> (stack = << >> \/ mode \in Halted)

\* The page tables are a partial identity map of the address space.
AS == INSTANCE AddressSpace WITH
        trans <- [p \in Page |-> IF Mapped(p) THEN Pte(p).addr ELSE -1],
        phase <- IF mode \in Halted THEN "stopped"
                 ELSE IF mode = "running" THEN "live" ELSE "building"

\* Seen through the translation it provides, the memory manager is the abstract
\* address space: a step of map_page or unmap_page changes the translation of
\* the page it was called for or of a new table's page, from or to the
\* identity, and of no other page; and CR3 is loaded only when every page below
\* Limit is mapped (vmm.c:66-134, 154-160).
RefinesAddressSpace == AS!Spec

\* vmm.c:141-143 tests for "NO USABLE MEMORY": so a kernel that halts for lack
\* of pages has a memory map with usable pages in it.
NoUsableMemoryReported ==
    mode = "out_of_memory" => \E i \in DOMAIN mmap : mmap[i].usable /\ mmap[i].nPages > 0

\* vmm.c:129, "Just unset the PRESENT bit": unmap_page leaves the other bits of
\* the entry as they are.
UnmapKeepsOtherBits ==
    [][\A p \in Page : Mapped(p) /\ ~Mapped(p)' => Pte(p)'.bits = Pte(p).bits \ {"P"}]_vars
=============================================================================
