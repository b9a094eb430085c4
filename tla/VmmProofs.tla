----------------------------- MODULE VmmProofs -----------------------------
(***************************************************************************)
(* Type correctness, the choice of the segment, the exact accounting of    *)
(* the allocator, and that the page tables are a tree on which the walks   *)
(* of map_page stay, for every radix, every limit and every memory map.    *)
(***************************************************************************)
EXTENDS Vmm, SequenceTheorems, TLAPS

-----------------------------------------------------------------------------
(***************************************************************************)
(* Indices                                                                 *)
(***************************************************************************)

\* Quotient and remainder make up the number.
LEMMA DivMod ==
    ASSUME NEW n \in Nat
    PROVE  /\ n \div Radix \in Nat
           /\ n % Radix \in Index
           /\ n = Radix * (n \div Radix) + (n % Radix)
  BY RadixAssumption DEF Index

\* The four indices of a page are indices of a table.
LEMMA IdxType ==
    ASSUME NEW p \in Page, NEW l \in Level
    PROVE  Idx(l, p) \in Index
<1> DEFINE a == p \div Radix
           b == a \div Radix
           c == b \div Radix
<1>1. p \in Nat
  BY PageAssumption
<1>2. a \in Nat /\ b \in Nat /\ c \in Nat
  BY <1>1, DivMod
<1>3. p % Radix \in Index /\ a % Radix \in Index /\ b % Radix \in Index /\ c % Radix \in Index
  BY <1>1, <1>2, DivMod
<1>4. l = 1 \/ l = 2 \/ l = 3 \/ l = 4
  BY DEF Level
<1> QED
  BY <1>3, <1>4 DEF Idx

\* Two pages with the same four indices are the same page.
LEMMA IdxInjective ==
    ASSUME NEW p \in Page, NEW q \in Page,
           Idx(1, p) = Idx(1, q), Idx(2, p) = Idx(2, q),
           Idx(3, p) = Idx(3, q), Idx(4, p) = Idx(4, q)
    PROVE  p = q
<1> DEFINE a(n) == n \div Radix
           b(n) == a(n) \div Radix
           c(n) == b(n) \div Radix
<1>1. p \in Nat /\ q \in Nat /\ c(p) < Radix /\ c(q) < Radix
  BY PageAssumption
<1>2. /\ a(p) \in Nat /\ b(p) \in Nat /\ c(p) \in Nat
      /\ a(q) \in Nat /\ b(q) \in Nat /\ c(q) \in Nat
  BY <1>1, DivMod
<1>3. /\ p % Radix = q % Radix /\ a(p) % Radix = a(q) % Radix
      /\ b(p) % Radix = b(q) % Radix /\ c(p) % Radix = c(q) % Radix
  BY DEF Idx
<1>4. c(p) = c(q)
  BY <1>1, <1>2, <1>3, RadixAssumption
<1>5. b(p) = b(q)
  <2>1. b(p) = Radix * c(p) + (b(p) % Radix) /\ b(q) = Radix * c(q) + (b(q) % Radix)
    BY <1>2, DivMod
  <2> QED BY <2>1, <1>3, <1>4
<1>6. a(p) = a(q)
  <2>1. a(p) = Radix * b(p) + (a(p) % Radix) /\ a(q) = Radix * b(q) + (a(q) % Radix)
    BY <1>2, DivMod
  <2> QED BY <2>1, <1>3, <1>5
<1> QED
  <2>1. p = Radix * a(p) + (p % Radix) /\ q = Radix * a(q) + (q % Radix)
    BY <1>1, DivMod
  <2> QED BY <2>1, <1>3, <1>6

\* Pages and the indices of their walk.
LEMMA PageFacts ==
    /\ \A p \in Page : p \in Nat
    /\ Limit \in Nat /\ \A p \in 0 .. (Limit - 1) : p \in Page
    /\ 0 \in Page
    /\ Pml4Page \in Page /\ Pml4Page < Limit
<1>1. \A p \in Page : p \in Nat
  BY PageAssumption
<1>2. Limit \in Nat /\ \A p \in 0 .. (Limit - 1) : p \in Page
  BY PageAssumption
<1>3. Pml4Page \in 0 .. (Limit - 1) /\ 0 \in 0 .. (Limit - 1)
  BY <1>2, MemoryMapAssumption
<1> QED
  BY <1>1, <1>2, <1>3

-----------------------------------------------------------------------------
(***************************************************************************)
(* The inductive invariant.                                                *)
(***************************************************************************)

\* biggestSegment is the largest usable descriptor of those scanned.
BiggestSoFar ==
    /\ \A i \in 1 .. (scan - 1) : mmap[i].usable => mmap[i].nPages <= biggestSegment.nPages
    /\ biggestSegment.nPages > 0 =>
            \E i \in DOMAIN mmap :
                /\ mmap[i].usable
                /\ biggestSegment = [base |-> mmap[i].base, nPages |-> mmap[i].nPages]
    /\ mode # "scan" => scan = Len(mmap) + 1

\* Nothing has happened before set_alloc_base is done.
BeforeBoot ==
    mode = "scan" =>
        /\ DOMAIN table = {} /\ stack = << >> /\ unmapping = {}
        /\ ~cr3 /\ tlb = {}

\* The pages from placement on are the unused rest of the segment.
Pool ==
    mode # "scan" =>
        /\ placement \in Nat
        /\ biggestSegment.base <= placement
        /\ placement + segment_usable = biggestSegment.base + biggestSegment.nPages

\* The tables are pml4 and the pages handed out.  (After a page fault in memzero
\* a page is handed out that is no table.)
TablesArePool ==
    mode \in {"identity", "running"} =>
        DOMAIN table = {Pml4Page} \cup {p \in Pages(biggestSegment) : p < placement}

Root == mode # "scan" => Pml4Page \in DOMAIN table /\ kind[Pml4Page] = 4

\* Entries above the leaves lead down one level.
LinksTyped ==
    \A f \in DOMAIN table, i \in Index :
        kind[f] > 1 /\ Present(table[f][i]) =>
            /\ table[f][i].addr \in DOMAIN table
            /\ kind[table[f][i].addr] = kind[f] - 1

\* An invocation of map_page is at a table of the level it has reached.
FramesTyped ==
    \A k \in DOMAIN stack :
        /\ stack[k].tab \in DOMAIN table
        /\ kind[stack[k].tab] = stack[k].level
        /\ "P" \in stack[k].flags

CoreInv ==
    /\ TypeOK
    /\ BiggestSoFar
    /\ BeforeBoot
    /\ Pool
    /\ TablesArePool
    /\ Root
    /\ LinksTyped
    /\ FramesTyped

-----------------------------------------------------------------------------
(***************************************************************************)
(* Facts about a state of the invariant                                    *)
(***************************************************************************)

\* What the memory map holds.
LEMMA MmapType ==
    ASSUME mmap \in MemoryMaps
    PROVE  /\ mmap \in Seq(Descriptor)
           /\ Len(mmap) \in Nat
           /\ DOMAIN mmap = 1 .. Len(mmap)
           /\ \A i \in 1 .. Len(mmap) : mmap[i] \in Descriptor
<1>1. mmap \in Seq(Descriptor)
  BY MemoryMapAssumption
<1> QED
  BY <1>1, LenProperties, ElementOfSeq

\* The rest of the segment consists of pages, and pml4 is none of them.
LEMMA SegmentPages ==
    ASSUME TypeOK, BiggestSoFar, Pool, mode # "scan", segment_usable > 0
    PROVE  /\ placement \in Page
           /\ placement \in Pages(biggestSegment)
           /\ placement # Pml4Page
<1>1. /\ biggestSegment.base \in Nat /\ biggestSegment.nPages \in Nat
      /\ placement \in Nat /\ segment_usable \in Nat
  BY PageFacts DEF TypeOK, Segment, Pool
<1>2. biggestSegment.nPages > 0 /\ placement < biggestSegment.base + biggestSegment.nPages
  BY <1>1 DEF Pool
<1>3. PICK i \in DOMAIN mmap :
        mmap[i].usable /\ biggestSegment = [base |-> mmap[i].base, nPages |-> mmap[i].nPages]
  BY <1>2 DEF BiggestSoFar
<1>4. /\ biggestSegment.base .. (biggestSegment.base + biggestSegment.nPages - 1) \subseteq Page
      /\ Pml4Page \notin Pages(biggestSegment)
  BY <1>3, MemoryMapAssumption DEF TypeOK, Pages
<1>5. placement \in biggestSegment.base .. (biggestSegment.base + biggestSegment.nPages - 1)
  BY <1>1, <1>2 DEF Pool
<1> QED
  BY <1>1, <1>2, <1>4, <1>5 DEF Pages, Pool

\* The innermost invocation of map_page.
LEMMA TopFacts ==
    ASSUME TypeOK, FramesTyped, stack # << >>
    PROVE  /\ Len(stack) \in Nat /\ Len(stack) > 0 /\ Len(stack) \in DOMAIN stack
           /\ DOMAIN stack = 1 .. Len(stack)
           /\ Top \in Frame
           /\ Top.page \in Page /\ Top.tab \in Page
           /\ Top.flags \in SUBSET Bit /\ "P" \in Top.flags
           /\ Top.level \in Level
           /\ Top.tab \in DOMAIN table /\ kind[Top.tab] = Top.level
           /\ Slot \in Index
           /\ TopEntry \in Entry
<1>1. /\ stack \in Seq(Frame)
      /\ table \in [DOMAIN table -> [Index -> Entry]]
  BY DEF TypeOK
<1>2. /\ Len(stack) \in Nat /\ Len(stack) > 0
      /\ DOMAIN stack = 1 .. Len(stack) /\ Len(stack) \in 1 .. Len(stack)
  BY <1>1, EmptySeq, LenProperties
<1>3. Top \in Frame
  BY <1>1, <1>2, ElementOfSeq DEF Top
<1>4. /\ Top.page \in Page /\ Top.tab \in Page /\ Top.flags \in SUBSET Bit /\ Top.level \in Level
  BY <1>3 DEF Frame
<1>5. Top.tab \in DOMAIN table /\ kind[Top.tab] = Top.level /\ "P" \in Top.flags
  BY <1>2 DEF FramesTyped, Top
<1>6. Slot \in Index
  BY <1>4, IdxType DEF Slot
<1> QED
  BY <1>1, <1>2, <1>3, <1>4, <1>5, <1>6 DEF TopEntry

\* The tables the walk for p passes through, as far as it goes.
LEMMA WalkTyped ==
    ASSUME TypeOK, LinksTyped, Root, mode # "scan", NEW p \in Page
    PROVE  /\ HasPdpt(p) => Pdpt(p) \in DOMAIN table /\ kind[Pdpt(p)] = 3
           /\ HasPd(p) => Pd(p) \in DOMAIN table /\ kind[Pd(p)] = 2
           /\ HasPt(p) => Pt(p) \in DOMAIN table /\ kind[Pt(p)] = 1
<1>1. /\ Idx(4, p) \in Index /\ Idx(3, p) \in Index /\ Idx(2, p) \in Index
  BY IdxType DEF Level
<1>2. HasPdpt(p) => Pdpt(p) \in DOMAIN table /\ kind[Pdpt(p)] = 3
  BY <1>1 DEF Root, LinksTyped, HasPdpt, Pdpt, Pml4e
<1>3. HasPd(p) => Pd(p) \in DOMAIN table /\ kind[Pd(p)] = 2
  BY <1>1, <1>2 DEF LinksTyped, HasPd, Pd, Pdpte
<1>4. HasPt(p) => Pt(p) \in DOMAIN table /\ kind[Pt(p)] = 1
  BY <1>1, <1>3 DEF LinksTyped, HasPt, Pt, Pde
<1> QED
  BY <1>2, <1>3, <1>4

-----------------------------------------------------------------------------
(***************************************************************************)
(* The invariant holds initially and every action preserves it.            *)
(***************************************************************************)

\* The invariant holds at the start.
LEMMA InitCore == Init => CoreInv
<1> SUFFICES ASSUME Init PROVE CoreInv
  OBVIOUS
<1>1. Len(mmap) \in Nat /\ 0 \in Page
  BY MmapType, PageFacts DEF Init
<1>2. TypeOK
  <2>1. scan \in 1 .. (Len(mmap) + 1)
    BY <1>1 DEF Init
  <2>2. biggestSegment \in Segment /\ addr \in 0 .. Limit /\ cr2 \in Page
    BY <1>1, PageFacts DEF Init, Segment
  <2>3. /\ table \in [DOMAIN table -> [Index -> Entry]] /\ DOMAIN table \subseteq Page
        /\ kind \in [DOMAIN table -> Level]
    BY DEF Init
  <2>4. stack \in Seq(Frame)
    BY EmptySeq DEF Init
  <2>5. placement \in Int /\ segment_usable \in Nat /\ mode \in Mode
    BY DEF Init, DeadBeef, Mode
  <2> QED
    BY <2>1, <2>2, <2>3, <2>4, <2>5 DEF Init, TypeOK
<1>3. BiggestSoFar
  BY DEF Init, BiggestSoFar
<1>4. BeforeBoot /\ Pool /\ TablesArePool /\ Root
  BY DEF Init, BeforeBoot, Pool, TablesArePool, Root
<1>5. LinksTyped /\ FramesTyped
  BY DEF Init, LinksTyped, FramesTyped
<1> QED
  BY <1>2, <1>3, <1>4, <1>5 DEF CoreInv

\* ScanDescriptor keeps the invariant.
LEMMA ScanDescriptorCore ==
    ASSUME CoreInv, ScanDescriptor
    PROVE  CoreInv'
<1> USE DEF CoreInv
<1>1. /\ mode = "scan" /\ mode' = mode /\ mmap' = mmap
      /\ scan \in Nat /\ scan \in 1 .. Len(mmap) /\ scan' = scan + 1 /\ Len(mmap) \in Nat
      /\ mmap[scan] \in Descriptor /\ DOMAIN mmap = 1 .. Len(mmap)
      /\ \A i \in 1 .. Len(mmap) : mmap[i] \in Descriptor
  BY MmapType DEF ScanDescriptor, TypeOK
<1>2. UNCHANGED << placement, segment_usable, table, kind, addr, stack, unmapping, cr3, tlb, cr2 >>
  BY DEF ScanDescriptor, poolVars, tableVars, cpuVars
<1>3. biggestSegment' =
        IF mmap[scan].nPages > biggestSegment.nPages /\ mmap[scan].usable
        THEN [base |-> mmap[scan].base, nPages |-> mmap[scan].nPages]
        ELSE biggestSegment
  BY DEF ScanDescriptor
<1>4. /\ mmap[scan].base \in Page /\ mmap[scan].nPages \in Nat
      /\ biggestSegment \in Segment /\ biggestSegment.nPages \in Nat
  BY <1>1 DEF Descriptor, TypeOK, Segment
<1>5. biggestSegment' \in Segment
  BY <1>3, <1>4 DEF Segment
<1>6. TypeOK'
  BY <1>1, <1>2, <1>5 DEF TypeOK
<1>7. BiggestSoFar'
  <2>1. /\ biggestSegment'.nPages \in Nat
        /\ biggestSegment'.nPages >= biggestSegment.nPages
        /\ mmap[scan].usable => biggestSegment'.nPages >= mmap[scan].nPages
    BY <1>3, <1>4
  <2>2. ASSUME NEW i \in 1 .. (scan' - 1), mmap[i].usable
        PROVE  mmap[i].nPages <= biggestSegment'.nPages
    <3>1. mmap[i].nPages \in Nat
      BY <1>1 DEF Descriptor
    <3>2. CASE i = scan
      BY <2>1, <2>2, <3>1, <3>2
    <3>3. CASE i # scan
      <4>1. i \in 1 .. (scan - 1)
        BY <1>1, <3>3
      <4>2. mmap[i].nPages <= biggestSegment.nPages
        BY <2>2, <4>1 DEF BiggestSoFar
      <4> QED
        BY <1>4, <2>1, <3>1, <4>2
    <3> QED
      BY <3>2, <3>3
  <2>3. biggestSegment'.nPages > 0 =>
            \E i \in DOMAIN mmap :
                /\ mmap[i].usable
                /\ biggestSegment' = [base |-> mmap[i].base, nPages |-> mmap[i].nPages]
    BY <1>1, <1>3 DEF BiggestSoFar
  <2> QED
    BY <1>1, <2>2, <2>3 DEF BiggestSoFar
<1>8. (BeforeBoot /\ Pool /\ TablesArePool /\ Root)'
  BY <1>1, <1>2 DEF BeforeBoot, Pool, TablesArePool, Root
<1>9. LinksTyped' /\ FramesTyped'
  BY <1>1, <1>2 DEF LinksTyped, FramesTyped
<1> QED
  BY <1>6, <1>7, <1>8, <1>9

\* SetAllocBase keeps the invariant.
LEMMA SetAllocBaseCore ==
    ASSUME CoreInv, SetAllocBase
    PROVE  CoreInv'
<1> USE DEF CoreInv
<1>1. /\ mode = "scan" /\ scan = Len(mmap) + 1
      /\ stack = << >> /\ stack' = stack
      /\ UNCHANGED << mmap, scan, biggestSegment, addr, unmapping, cr3, tlb, cr2 >>
      /\ placement' = biggestSegment.base /\ segment_usable' = biggestSegment.nPages
      /\ table' = [f \in {Pml4Page} |-> Zeroed]
      /\ kind' = [f \in {Pml4Page} |-> 4]
  BY MmapType DEF SetAllocBase, bootVars, cpuVars, BeforeBoot, TypeOK
<1>2. /\ Pml4Page \in Page /\ 0 \in Page
      /\ biggestSegment.base \in Page /\ biggestSegment.base \in Nat
      /\ biggestSegment.nPages \in Nat
  BY PageFacts DEF TypeOK, Segment
<1>3. mode' = "identity"
  BY <1>1, <1>2 DEF SetAllocBase, DeadBeef
<1>4. Zeroed \in [Index -> Entry]
  BY <1>2 DEF Zeroed, Entry
<1>5. TypeOK'
  <2>1. /\ (table \in [DOMAIN table -> [Index -> Entry]])'
        /\ (DOMAIN table \subseteq Page)'
        /\ (kind \in [DOMAIN table -> Level])'
    BY <1>1, <1>2, <1>4 DEF Level
  <2>2. placement' \in Int /\ segment_usable' \in Nat /\ mode' \in Mode
    BY <1>1, <1>2, <1>3 DEF Mode
  <2> QED
    BY <1>1, <2>1, <2>2 DEF TypeOK
<1>6. BiggestSoFar'
  BY <1>1, <1>3 DEF BiggestSoFar
<1>7. (BeforeBoot /\ Pool /\ Root)'
  BY <1>1, <1>2, <1>3 DEF BeforeBoot, Pool, Root
<1>8. TablesArePool'
  <2>1. \A p \in Pages(biggestSegment) : ~(p < biggestSegment.base)
    BY <1>2, PageFacts DEF Pages
  <2>2. \A p \in Pages(biggestSegment)' : ~(p < placement')
    BY <1>1, <2>1 DEF Pages
  <2>3. {p \in Pages(biggestSegment) : p < placement}' = {}
    BY <2>2
  <2> QED
    BY <1>1, <2>3 DEF TablesArePool
<1>9. LinksTyped' /\ FramesTyped'
  BY <1>1, <1>4 DEF LinksTyped, FramesTyped, Zeroed, Present
<1> QED
  BY <1>5, <1>6, <1>7, <1>8, <1>9

\* A new invocation of map_page starts at pml4.
LEMMA NewFrame ==
    ASSUME CoreInv, mode # "scan", NEW p \in Page, NEW f \in SUBSET Bit
    PROVE  /\ MapPage(p, f) \in Frame
           /\ MapPage(p, f).tab \in DOMAIN table
           /\ kind[MapPage(p, f).tab] = MapPage(p, f).level
           /\ "P" \in MapPage(p, f).flags
<1>1. Pml4Page \in DOMAIN table /\ kind[Pml4Page] = 4
  BY DEF CoreInv, Root
<1>2. f \cup {"P"} \in SUBSET Bit /\ Pml4Page \in Page /\ 4 \in Level
  BY PageFacts DEF Bit, Level
<1> QED
  BY <1>1, <1>2 DEF MapPage, Frame

\* Call keeps the invariant.
LEMMA CallCore ==
    ASSUME CoreInv, NEW p \in Page, NEW f \in SUBSET Bit,
           mode # "scan", stack' = << MapPage(p, f) >>, addr' \in 0 .. Limit,
           UNCHANGED << bootVars, poolVars, tableVars, unmapping, cpuVars, mode >>
    PROVE  CoreInv'
<1> USE DEF CoreInv
<1>1. UNCHANGED << mmap, scan, biggestSegment, placement, segment_usable,
                   table, kind, unmapping, cr3, tlb, cr2, mode >>
  BY DEF bootVars, poolVars, tableVars, cpuVars
<1>2. /\ stack' \in Seq(Frame)
      /\ \A k \in DOMAIN stack' : stack'[k] = MapPage(p, f)
  BY NewFrame
<1>3. TypeOK'
  BY <1>1, <1>2 DEF TypeOK
<1>4. (BiggestSoFar /\ Pool /\ TablesArePool /\ Root /\ LinksTyped)'
  BY <1>1 DEF BiggestSoFar, Pool, TablesArePool, Root, LinksTyped
<1>5. BeforeBoot'
  BY <1>1 DEF BeforeBoot
<1>6. FramesTyped'
  BY <1>1, <1>2, NewFrame DEF FramesTyped
<1> QED
  BY <1>3, <1>4, <1>5, <1>6

\* IdentityMapNext keeps the invariant.
LEMMA IdentityMapNextCore ==
    ASSUME CoreInv, IdentityMapNext
    PROVE  CoreInv'
<1>1. /\ addr \in 0 .. Limit /\ Limit \in Nat
  BY PageFacts DEF CoreInv, TypeOK
<1>2. addr < Limit /\ addr' = addr + 1 /\ mode # "scan" /\ stack' = << MapPage(addr, {"W"}) >>
  BY DEF IdentityMapNext
<1>3. addr \in Page /\ addr' \in 0 .. Limit
  BY <1>1, <1>2, PageFacts
<1>4. {"W"} \in SUBSET Bit
  BY DEF Bit
<1>5. UNCHANGED << bootVars, poolVars, tableVars, unmapping, cpuVars, mode >>
  BY DEF IdentityMapNext
<1> QED
  BY <1>2, <1>3, <1>4, <1>5, CallCore

\* CallMapPage keeps the invariant.
LEMMA CallMapPageCore ==
    ASSUME CoreInv, NEW p \in ClientPages, NEW f \in ClientFlags, CallMapPage(p, f)
    PROVE  CoreInv'
<1>1. p \in Page /\ f \in SUBSET Bit
  BY ClientAssumption
<1>2. mode # "scan" /\ stack' = << MapPage(p, f) >>
  BY DEF CallMapPage, Idle
<1>3. addr' \in 0 .. Limit
  BY DEF CallMapPage, CoreInv, TypeOK
<1>4. UNCHANGED << bootVars, poolVars, tableVars, unmapping, cpuVars, mode >>
  BY DEF CallMapPage
<1> QED
  BY <1>1, <1>2, <1>3, <1>4, CallCore

\* Steps that touch neither the tables, nor the allocator, nor the stack.
LEMMA NoTableStepCore ==
    ASSUME CoreInv, mode # "scan", mode' \in Mode \ {"scan"},
           mode' \in {"identity", "running"} => mode \in {"identity", "running"},
           unmapping' \in SUBSET ClientPages, tlb' \in SUBSET ClientPages,
           cr3' \in BOOLEAN,
           UNCHANGED << bootVars, poolVars, tableVars, addr, stack, cr2 >>
    PROVE  CoreInv'
<1> USE DEF CoreInv
<1>1. UNCHANGED << mmap, scan, biggestSegment, placement, segment_usable,
                   table, kind, addr, stack, cr2 >>
  BY DEF bootVars, poolVars, tableVars
<1>2. TypeOK'
  BY <1>1 DEF TypeOK
<1>3. (BiggestSoFar /\ Pool /\ TablesArePool /\ Root)'
  BY <1>1 DEF BiggestSoFar, Pool, TablesArePool, Root
<1>4. BeforeBoot'
  BY DEF BeforeBoot
<1>5. LinksTyped' /\ FramesTyped'
  BY <1>1 DEF LinksTyped, FramesTyped
<1> QED
  BY <1>2, <1>3, <1>4, <1>5

\* LoadPml4 keeps the invariant.
LEMMA LoadPml4Core ==
    ASSUME CoreInv, LoadPml4
    PROVE  CoreInv'
<1>1. /\ mode = "identity" /\ mode' = "running"
      /\ cr3' = TRUE /\ tlb' = {} /\ unmapping' = unmapping
      /\ UNCHANGED << bootVars, poolVars, tableVars, addr, stack, cr2 >>
  BY DEF LoadPml4
<1>2. unmapping' \in SUBSET ClientPages /\ mode' \in Mode \ {"scan"} /\ mode # "scan"
  BY <1>1 DEF CoreInv, TypeOK, Mode
<1> QED
  BY <1>1, <1>2, NoTableStepCore

\* OutOfMemory keeps the invariant.
LEMMA OutOfMemoryCore ==
    ASSUME CoreInv, OutOfMemory
    PROVE  CoreInv'
<1>1. /\ mode # "scan" /\ mode' = "out_of_memory"
      /\ unmapping' = unmapping /\ cr3' = cr3 /\ tlb' = tlb
      /\ UNCHANGED << bootVars, poolVars, tableVars, addr, stack, cr2 >>
  BY DEF OutOfMemory, InMapPage, cpuVars
<1>2. /\ unmapping' \in SUBSET ClientPages /\ tlb' \in SUBSET ClientPages /\ cr3' \in BOOLEAN
      /\ mode' \in Mode \ {"scan"}
  BY <1>1 DEF CoreInv, TypeOK, Mode, Halted
<1> QED
  BY <1>1, <1>2, NoTableStepCore

\* FlushTlb keeps the invariant.
LEMMA FlushTlbCore ==
    ASSUME CoreInv, FlushTlb
    PROVE  CoreInv'
<1>1. /\ mode = "running" /\ mode' = mode /\ unmapping' = {}
      /\ tlb' = tlb \ unmapping /\ cr3' = cr3
      /\ UNCHANGED << bootVars, poolVars, tableVars, addr, stack, cr2 >>
  BY DEF FlushTlb
<1>2. /\ tlb' \in SUBSET ClientPages /\ cr3' \in BOOLEAN /\ unmapping' \in SUBSET ClientPages
      /\ mode' \in Mode \ {"scan"} /\ mode # "scan"
  BY <1>1 DEF CoreInv, TypeOK, Mode
<1> QED
  BY <1>1, <1>2, NoTableStepCore

\* UnmapWild keeps the invariant.
LEMMA UnmapWildCore ==
    ASSUME CoreInv, NEW p \in ClientPages, UnmapWild(p)
    PROVE  CoreInv'
<1>1. /\ mode = "running" /\ mode' = "wild" /\ unmapping' = {p}
      /\ tlb' = tlb /\ cr3' = cr3
      /\ UNCHANGED << bootVars, poolVars, tableVars, addr, stack, cr2 >>
  BY DEF UnmapWild, Idle, cpuVars
<1>2. /\ tlb' \in SUBSET ClientPages /\ cr3' \in BOOLEAN /\ unmapping' \in SUBSET ClientPages
      /\ mode' \in Mode \ {"scan"} /\ mode # "scan"
  BY <1>1 DEF CoreInv, TypeOK, Mode, Halted
<1> QED
  BY <1>1, <1>2, NoTableStepCore

\* TlbFill keeps the invariant.
LEMMA TlbFillCore ==
    ASSUME CoreInv, NEW p \in ClientPages, TlbFill(p)
    PROVE  CoreInv'
<1>1. /\ mode = "running" /\ mode' = mode /\ unmapping' = unmapping
      /\ tlb' = tlb \cup {p} /\ cr3' = cr3
      /\ UNCHANGED << bootVars, poolVars, tableVars, addr, stack, cr2 >>
  BY DEF TlbFill
<1>2. /\ tlb' \in SUBSET ClientPages /\ cr3' \in BOOLEAN /\ unmapping' \in SUBSET ClientPages
      /\ mode' \in Mode \ {"scan"} /\ mode # "scan"
  BY <1>1 DEF CoreInv, TypeOK, Mode
<1> QED
  BY <1>1, <1>2, NoTableStepCore

\* PageFault keeps the invariant.
LEMMA PageFaultCore ==
    ASSUME CoreInv, PageFault
    PROVE  CoreInv'
<1> USE DEF CoreInv
<1>1. /\ mode \in {"identity", "running"} /\ mode' = "page_fault" /\ stack # << >>
      /\ UNCHANGED << mmap, scan, biggestSegment, table, kind, addr, stack,
                      unmapping, cr3, tlb >>
  BY DEF PageFault, InMapPage, bootVars, tableVars
<1>2. PICK p \in {Top.tab} \cup (IF Accessible(Top.tab) /\ NeedsTable /\ segment_usable > 0
                                THEN {placement} ELSE {}) :
        /\ cr2' = p
        /\ IF p = Top.tab THEN UNCHANGED poolVars ELSE TakePage
  BY DEF PageFault
<1>3. /\ cr2' \in Page
      /\ UNCHANGED << placement, segment_usable >> \/
            (segment_usable > 0 /\ placement' = placement + 1 /\ segment_usable' = segment_usable - 1)
  <2>1. CASE p = Top.tab
    BY <1>1, <1>2, <2>1, TopFacts DEF poolVars
  <2>2. CASE p # Top.tab
    <3>1. segment_usable > 0 /\ p = placement /\ TakePage
      BY <1>2, <2>2
    <3>2. placement \in Page
      BY <1>1, <3>1, SegmentPages
    <3> QED
      BY <1>2, <3>1, <3>2 DEF TakePage
  <2> QED
    BY <2>1, <2>2
<1>4. /\ placement \in Nat /\ segment_usable \in Nat /\ biggestSegment.base <= placement
      /\ placement + segment_usable = biggestSegment.base + biggestSegment.nPages
      /\ biggestSegment.base \in Nat
  BY <1>1, PageFacts DEF Pool, TypeOK, Segment
<1>5. /\ placement' \in Nat /\ segment_usable' \in Nat /\ biggestSegment.base <= placement'
      /\ placement' + segment_usable' = placement + segment_usable
  BY <1>3, <1>4
<1>6. TypeOK'
  BY <1>1, <1>3, <1>5 DEF TypeOK, Mode, Halted
<1>7. (BiggestSoFar /\ BeforeBoot /\ Pool /\ TablesArePool /\ Root)'
  BY <1>1, <1>4, <1>5 DEF BiggestSoFar, BeforeBoot, Pool, TablesArePool, Root
<1>8. LinksTyped' /\ FramesTyped'
  BY <1>1 DEF LinksTyped, FramesTyped
<1> QED
  BY <1>6, <1>7, <1>8

\* Descend keeps the invariant.
LEMMA DescendCore ==
    ASSUME CoreInv, Descend
    PROVE  CoreInv'
<1> USE DEF CoreInv
<1> DEFINE new == [Top EXCEPT !.level = Top.level - 1, !.tab = TopEntry.addr]
<1>1. /\ mode # "scan" /\ stack # << >> /\ Top.level > 1 /\ Present(TopEntry)
      /\ stack' = [stack EXCEPT ![Len(stack)] = new]
      /\ UNCHANGED << mmap, scan, biggestSegment, placement, segment_usable, table, kind,
                      addr, unmapping, cr3, tlb, cr2, mode >>
  BY DEF Descend, InMapPage, bootVars, poolVars, tableVars, cpuVars
<1>2. /\ Len(stack) \in 1 .. Len(stack) /\ DOMAIN stack = 1 .. Len(stack)
      /\ Top \in Frame /\ Top.level \in Level /\ Slot \in Index
      /\ Top.tab \in DOMAIN table /\ kind[Top.tab] = Top.level /\ "P" \in Top.flags
      /\ TopEntry \in Entry
  BY <1>1, TopFacts
<1>3. TopEntry.addr \in DOMAIN table /\ kind[TopEntry.addr] = Top.level - 1
  BY <1>1, <1>2 DEF LinksTyped, TopEntry
<1>4. /\ new \in Frame /\ new.tab = TopEntry.addr /\ new.level = Top.level - 1
      /\ new.flags = Top.flags
  <2>1. TopEntry.addr \in Page /\ Top.level - 1 \in Level
    BY <1>1, <1>2 DEF Entry, Level
  <2> QED
    BY <1>2, <2>1 DEF Frame
<1> HIDE DEF new
<1>5. stack' \in Seq(Frame) /\ \A k \in 1 .. Len(stack) : stack'[k] = IF k = Len(stack) THEN new ELSE stack[k]
  BY <1>1, <1>2, <1>4, ExceptSeq DEF TypeOK
<1>6. DOMAIN stack' = DOMAIN stack
  BY <1>1
<1>7. TypeOK'
  BY <1>1, <1>5 DEF TypeOK
<1>8. (BiggestSoFar /\ BeforeBoot /\ Pool /\ TablesArePool /\ Root /\ LinksTyped)'
  BY <1>1 DEF BiggestSoFar, BeforeBoot, Pool, TablesArePool, Root, LinksTyped
<1>9. FramesTyped'
  BY <1>1, <1>2, <1>3, <1>4, <1>5, <1>6 DEF FramesTyped
<1> QED
  BY <1>7, <1>8, <1>9

\* A store into a page table cannot disturb the typing of the tree.
LEMMA LeafStore ==
    ASSUME CoreInv, NEW t \in DOMAIN table, kind[t] = 1, NEW i \in Index, NEW e \in Entry,
           table' = [table EXCEPT ![t][i] = e], kind' = kind
    PROVE  /\ DOMAIN table' = DOMAIN table
           /\ table' \in [DOMAIN table' -> [Index -> Entry]]
           /\ LinksTyped'
<1>1. table \in [DOMAIN table -> [Index -> Entry]]
  BY DEF CoreInv, TypeOK
<1>2. /\ DOMAIN table' = DOMAIN table
      /\ table' \in [DOMAIN table -> [Index -> Entry]]
      /\ \A f \in DOMAIN table : f # t => table'[f] = table[f]
  BY <1>1
<1>3. LinksTyped'
  BY <1>2 DEF CoreInv, LinksTyped
<1> QED
  BY <1>2, <1>3

\* The stack without its last frame.
LEMMA PopFrame ==
    ASSUME NEW s \in Seq(Frame), Len(s) > 0, NEW t, t = SubSeq(s, 1, Len(s) - 1)
    PROVE  /\ t \in Seq(Frame)
           /\ DOMAIN t = 1 .. (Len(s) - 1)
           /\ \A k \in DOMAIN t : k \in DOMAIN s /\ t[k] = s[k]
<1>1. Len(s) \in Nat /\ DOMAIN s = 1 .. Len(s)
  BY LenProperties
<1> DEFINE m == Len(s) - 1
<1>2. m \in Nat /\ t = SubSeq(s, 1, m) /\ 1 .. m \subseteq DOMAIN s
  BY <1>1
<1>3. \A k \in 1 .. m : s[k] \in Frame
  BY <1>2, ElementOfSeq, <1>1
<1> HIDE DEF m
<1>4. /\ t \in Seq(Frame)
      /\ Len(t) = IF 1 <= m THEN m - 1 + 1 ELSE 0
      /\ \A k \in 1 .. (m - 1 + 1) : t[k] = s[1 + k - 1]
  BY <1>2, <1>3, SubSeqProperties
<1>5. Len(t) = m /\ DOMAIN t = 1 .. m
  BY <1>2, <1>4, LenProperties
<1>6. \A k \in 1 .. m : k \in DOMAIN s /\ t[k] = s[k]
  BY <1>2, <1>4
<1> QED
  BY <1>4, <1>5, <1>6 DEF m

\* MapLeaf keeps the invariant.
LEMMA MapLeafCore ==
    ASSUME CoreInv, MapLeaf
    PROVE  CoreInv'
<1> USE DEF CoreInv
<1>1. /\ mode # "scan" /\ stack # << >> /\ Top.level = 1
      /\ table' = IF Present(TopEntry) THEN table
                  ELSE [table EXCEPT ![Top.tab][Slot] = [addr |-> Top.page, bits |-> Top.flags]]
      /\ stack' = SubSeq(stack, 1, Len(stack) - 1)
      /\ UNCHANGED << mmap, scan, biggestSegment, placement, segment_usable, kind,
                      addr, unmapping, cr3, tlb, cr2, mode >>
  BY DEF MapLeaf, InMapPage, bootVars, poolVars, cpuVars
<1>2. /\ Len(stack) \in Nat /\ Len(stack) > 0 /\ DOMAIN stack = 1 .. Len(stack)
      /\ Top.tab \in DOMAIN table /\ kind[Top.tab] = 1 /\ Slot \in Index
      /\ [addr |-> Top.page, bits |-> Top.flags] \in Entry
  BY <1>1, TopFacts DEF Entry
<1>3. /\ DOMAIN table' = DOMAIN table
      /\ table' \in [DOMAIN table' -> [Index -> Entry]]
      /\ LinksTyped'
  <2>1. CASE Present(TopEntry)
    BY <1>1, <2>1 DEF TypeOK, LinksTyped
  <2>2. CASE ~Present(TopEntry)
    BY <1>1, <1>2, <2>2, LeafStore
  <2> QED
    BY <2>1, <2>2
<1>4. /\ stack' \in Seq(Frame)
      /\ DOMAIN stack' = 1 .. (Len(stack) - 1)
      /\ \A k \in DOMAIN stack' : k \in DOMAIN stack /\ stack'[k] = stack[k]
  <2>1. stack \in Seq(Frame)
    BY DEF TypeOK
  <2> QED
    BY <1>1, <1>2, <2>1, PopFrame
<1>5. TypeOK'
  BY <1>1, <1>3, <1>4 DEF TypeOK
<1>6. (BiggestSoFar /\ BeforeBoot /\ Pool /\ TablesArePool /\ Root)'
  BY <1>1, <1>3 DEF BiggestSoFar, BeforeBoot, Pool, TablesArePool, Root
<1>7. FramesTyped'
  BY <1>1, <1>3, <1>4 DEF FramesTyped
<1> QED
  BY <1>3, <1>5, <1>6, <1>7

\* UnmapClear keeps the invariant.
LEMMA UnmapClearCore ==
    ASSUME CoreInv, NEW p \in ClientPages, UnmapClear(p)
    PROVE  CoreInv'
<1> USE DEF CoreInv
<1>1. /\ mode # "scan" /\ Mapped(p) /\ unmapping' = {p}
      /\ table' = [table EXCEPT ![Pt(p)][Idx(1, p)] = [addr |-> p, bits |-> {}]]
      /\ UNCHANGED << mmap, scan, biggestSegment, placement, segment_usable, kind,
                      addr, stack, cr3, tlb, cr2, mode >>
  BY DEF UnmapClear, Idle, bootVars, poolVars, cpuVars
<1>2. /\ p \in Page /\ Idx(1, p) \in Index
      /\ [addr |-> p, bits |-> {}] \in Entry
  BY ClientAssumption, IdxType DEF Level, Entry
<1>3. Pt(p) \in DOMAIN table /\ kind[Pt(p)] = 1
  BY <1>1, <1>2, WalkTyped DEF Mapped
<1>4. /\ DOMAIN table' = DOMAIN table
      /\ table' \in [DOMAIN table' -> [Index -> Entry]]
      /\ LinksTyped'
  BY <1>1, <1>2, <1>3, LeafStore
<1>5. TypeOK'
  BY <1>1, <1>4 DEF TypeOK
<1>6. (BiggestSoFar /\ BeforeBoot /\ Pool /\ TablesArePool /\ Root)'
  BY <1>1, <1>4 DEF BiggestSoFar, BeforeBoot, Pool, TablesArePool, Root
<1>7. FramesTyped'
  BY <1>1, <1>4 DEF FramesTyped
<1> QED
  BY <1>4, <1>5, <1>6, <1>7

\* What AllocTable does, said of the two tables it touches.
LEMMA AllocTableFacts ==
    ASSUME CoreInv, AllocTable
    PROVE  /\ mode \in {"identity", "running"} /\ mode' = mode
           /\ stack # << >> /\ Top.level > 1 /\ ~Present(TopEntry)
           /\ Accessible(Top.tab) /\ Accessible(placement)
           /\ segment_usable > 0
           /\ segment_usable' = segment_usable - 1 /\ placement' = placement + 1
           /\ placement \in Page /\ placement \in Pages(biggestSegment)
           /\ placement # Pml4Page /\ placement \notin DOMAIN table
           /\ DOMAIN table' = DOMAIN table \cup {placement}
           /\ table'[placement] = Zeroed
           /\ table'[Top.tab] = [table[Top.tab] EXCEPT ![Slot] =
                                    [addr |-> placement, bits |-> Top.flags]]
           /\ \A f \in DOMAIN table : f # Top.tab => table'[f] = table[f]
           /\ kind' = [f \in DOMAIN table \cup {placement} |->
                            IF f = placement THEN Top.level - 1 ELSE kind[f]]
           /\ stack' = Append(stack, MapPage(placement, Top.flags))
           /\ UNCHANGED << mmap, scan, biggestSegment, addr, unmapping, cr3, tlb, cr2 >>
<1> USE DEF CoreInv
<1>1. /\ mode \in {"identity", "running"} /\ mode' = mode
      /\ stack # << >> /\ Top.level > 1 /\ ~Present(TopEntry)
      /\ Accessible(Top.tab) /\ Accessible(placement)
      /\ segment_usable > 0
      /\ segment_usable' = segment_usable - 1 /\ placement' = placement + 1
      /\ stack' = Append(stack, MapPage(placement, Top.flags))
      /\ UNCHANGED << mmap, scan, biggestSegment, addr, unmapping, cr3, tlb, cr2 >>
  BY DEF AllocTable, InMapPage, NeedsTable, TakePage, bootVars, cpuVars
<1>2. /\ placement \in Page /\ placement \in Pages(biggestSegment) /\ placement # Pml4Page
  BY <1>1, SegmentPages
<1>3. placement \notin DOMAIN table
  BY <1>1, <1>2, PageFacts DEF TablesArePool
<1>4. DOMAIN kind = DOMAIN table /\ Top.tab \in DOMAIN table
  BY <1>1, TopFacts DEF TypeOK
<1>5. LinkNewTable(Top.flags)
  BY DEF AllocTable
<1>6. table' = [f \in DOMAIN table \cup {placement} |->
                    IF f = placement THEN Zeroed
                    ELSE IF f = Top.tab
                    THEN [table[f] EXCEPT ![Slot] = [addr |-> placement, bits |-> Top.flags]]
                    ELSE table[f]]
  BY <1>5 DEF LinkNewTable
<1>7. kind' = [f \in DOMAIN table \cup {placement} |->
                    IF f = placement THEN Top.level - 1 ELSE kind[f]]
  BY <1>4, <1>5 DEF LinkNewTable
<1>8. /\ DOMAIN table' = DOMAIN table \cup {placement}
      /\ table'[placement] = Zeroed
      /\ table'[Top.tab] = [table[Top.tab] EXCEPT ![Slot] =
                               [addr |-> placement, bits |-> Top.flags]]
      /\ \A f \in DOMAIN table : f # Top.tab => table'[f] = table[f]
  BY <1>3, <1>4, <1>6
<1> QED
  BY <1>1, <1>2, <1>3, <1>7, <1>8

\* AllocTable keeps the invariant.
LEMMA AllocTableCore ==
    ASSUME CoreInv, AllocTable
    PROVE  CoreInv'
<1> USE DEF CoreInv
<1>1. /\ mode \in {"identity", "running"} /\ mode' = mode
      /\ stack # << >> /\ Top.level > 1
      /\ segment_usable > 0
      /\ segment_usable' = segment_usable - 1 /\ placement' = placement + 1
      /\ stack' = Append(stack, MapPage(placement, Top.flags))
      /\ UNCHANGED << mmap, scan, biggestSegment, addr, unmapping, cr3, tlb, cr2 >>
  BY AllocTableFacts
<1>2. /\ placement \in Page /\ placement \in Pages(biggestSegment)
      /\ placement # Pml4Page /\ placement \notin DOMAIN table
  BY AllocTableFacts
<1>3. /\ DOMAIN table' = DOMAIN table \cup {placement}
      /\ table'[placement] = Zeroed
      /\ table'[Top.tab] = [table[Top.tab] EXCEPT ![Slot] =
                               [addr |-> placement, bits |-> Top.flags]]
      /\ \A f \in DOMAIN table : f # Top.tab => table'[f] = table[f]
  BY AllocTableFacts
<1>4. kind' = [f \in DOMAIN table \cup {placement} |->
                    IF f = placement THEN Top.level - 1 ELSE kind[f]]
  BY AllocTableFacts
<1>5. /\ Len(stack) \in Nat /\ DOMAIN stack = 1 .. Len(stack)
      /\ Top.flags \in SUBSET Bit /\ "P" \in Top.flags
      /\ Top.level \in Level /\ Top.tab \in DOMAIN table /\ kind[Top.tab] = Top.level
      /\ Slot \in Index
  BY <1>1, TopFacts
<1>6. /\ Zeroed \in [Index -> Entry]
      /\ [addr |-> placement, bits |-> Top.flags] \in Entry
  BY <1>2, <1>5, PageFacts DEF Zeroed, Entry
<1>7. /\ table \in [DOMAIN table -> [Index -> Entry]] /\ kind \in [DOMAIN table -> Level]
      /\ DOMAIN table \subseteq Page
  BY DEF TypeOK
<1>8. table' \in [DOMAIN table' -> [Index -> Entry]]
  <2>1. table' = [f \in DOMAIN table \cup {placement} |-> table'[f]]
    BY <1>3 DEF AllocTable, LinkNewTable
  <2>2. \A f \in DOMAIN table \cup {placement} : table'[f] \in [Index -> Entry]
    BY <1>3, <1>5, <1>6, <1>7
  <2> QED
    BY <1>3, <2>1, <2>2
<1>9. /\ DOMAIN table' \subseteq Page
      /\ kind' \in [DOMAIN table' -> Level]
  <2>1. Top.level - 1 \in Level
    BY <1>1, <1>5 DEF Level
  <2> QED
    BY <1>2, <1>3, <1>4, <1>7, <2>1
<1>10. LET new == MapPage(placement, Top.flags) IN
        /\ new \in Frame /\ new.tab \in DOMAIN table
        /\ kind[new.tab] = new.level /\ "P" \in new.flags
  BY <1>1, <1>2, <1>5, NewFrame
<1>11. /\ stack' \in Seq(Frame)
       /\ DOMAIN stack' = 1 .. (Len(stack) + 1)
       /\ \A k \in DOMAIN stack : stack'[k] = stack[k]
       /\ stack'[Len(stack) + 1] = MapPage(placement, Top.flags)
  <2>1. stack \in Seq(Frame)
    BY DEF TypeOK
  <2>2. /\ stack' \in Seq(Frame) /\ Len(stack') = Len(stack) + 1
        /\ \A k \in 1 .. Len(stack) : stack'[k] = stack[k]
        /\ stack'[Len(stack) + 1] = MapPage(placement, Top.flags)
    BY <1>1, <1>10, <2>1, AppendProperties
  <2> QED
    BY <1>5, <2>2, LenProperties
<1>12. TypeOK'
  <2>1. placement' \in Int /\ segment_usable' \in Nat
    BY <1>1 DEF TypeOK
  <2> QED
    BY <1>1, <1>8, <1>9, <1>11, <2>1 DEF TypeOK
<1>13. BiggestSoFar' /\ BeforeBoot'
  BY <1>1 DEF BiggestSoFar, BeforeBoot
<1>14. Pool' /\ TablesArePool'
  <2>1. /\ placement \in Nat /\ segment_usable \in Nat /\ biggestSegment.base \in Nat
        /\ biggestSegment.base <= placement
        /\ placement + segment_usable = biggestSegment.base + biggestSegment.nPages
    BY <1>1, PageFacts DEF Pool, TypeOK, Segment
  <2>2. Pool'
    BY <1>1, <2>1 DEF Pool
  <2>3. {p \in Pages(biggestSegment) : p < placement + 1}
            = {p \in Pages(biggestSegment) : p < placement} \cup {placement}
    <3>1. \A p \in Pages(biggestSegment) : p < placement + 1 <=> p < placement \/ p = placement
      BY <2>1, PageFacts DEF Pages
    <3> QED
      BY <1>2, <3>1
  <2>4. Pages(biggestSegment)' = Pages(biggestSegment)
    BY <1>1 DEF Pages
  <2> QED
    BY <1>1, <1>3, <2>2, <2>3, <2>4 DEF TablesArePool
<1>15. Root'
  BY <1>1, <1>2, <1>3, <1>4 DEF Root
<1>16. LinksTyped'
  <2> SUFFICES ASSUME NEW f \in DOMAIN table', NEW i \in Index,
                      kind'[f] > 1, Present(table'[f][i])
               PROVE  /\ table'[f][i].addr \in DOMAIN table'
                      /\ kind'[table'[f][i].addr] = kind'[f] - 1
    BY DEF LinksTyped
  <2>1. f # placement
    BY <1>3 DEF Zeroed, Present
  <2>2. f \in DOMAIN table /\ kind'[f] = kind[f]
    BY <1>3, <1>4, <2>1
  <2>3. CASE f = Top.tab /\ i = Slot
    BY <1>3, <1>4, <1>5, <1>7, <2>2, <2>3
  <2>4. CASE ~(f = Top.tab /\ i = Slot)
    <3>1. table'[f][i] = table[f][i]
      BY <1>3, <1>5, <1>7, <2>2, <2>4
    <3>2. table[f][i].addr \in DOMAIN table /\ kind[table[f][i].addr] = kind[f] - 1
      BY <2>2, <3>1 DEF LinksTyped
    <3> QED
      BY <1>2, <1>3, <1>4, <2>2, <3>1, <3>2
  <2> QED
    BY <2>3, <2>4
<1>17. FramesTyped'
  <2> SUFFICES ASSUME NEW k \in DOMAIN stack'
               PROVE  /\ stack'[k].tab \in DOMAIN table'
                      /\ kind'[stack'[k].tab] = stack'[k].level
                      /\ "P" \in stack'[k].flags
    BY DEF FramesTyped
  <2>1. CASE k = Len(stack) + 1
    BY <1>2, <1>3, <1>4, <1>10, <1>11, <2>1
  <2>2. CASE k # Len(stack) + 1
    <3>1. k \in DOMAIN stack /\ stack'[k] = stack[k]
      BY <1>5, <1>11, <2>2
    <3> QED
      BY <1>2, <1>3, <1>4, <3>1 DEF FramesTyped
  <2> QED
    BY <2>1, <2>2
<1> QED
  BY <1>12, <1>13, <1>14, <1>15, <1>16, <1>17

\* Every step keeps the invariant.
LEMMA NextCore == CoreInv /\ [Next]_vars => CoreInv'
<1> SUFFICES ASSUME CoreInv, [Next]_vars PROVE CoreInv'
  OBVIOUS
<1>1. CASE KernelStep
  BY <1>1, ScanDescriptorCore, SetAllocBaseCore, IdentityMapNextCore, LoadPml4Core,
     DescendCore, AllocTableCore, OutOfMemoryCore, PageFaultCore, MapLeafCore, FlushTlbCore
     DEF KernelStep
<1>2. ASSUME NEW p \in ClientPages, NEW f \in ClientFlags, CallMapPage(p, f)
      PROVE  CoreInv'
  BY <1>2, CallMapPageCore
<1>3. ASSUME NEW p \in ClientPages, UnmapClear(p) \/ UnmapWild(p) \/ TlbFill(p)
      PROVE  CoreInv'
  BY <1>3, UnmapClearCore, UnmapWildCore, TlbFillCore
<1>4. CASE UNCHANGED vars
  BY <1>4 DEF vars, bootVars, poolVars, tableVars, cpuVars, CoreInv, TypeOK, BiggestSoFar,
     BeforeBoot, Pool, TablesArePool, Root, LinksTyped, FramesTyped, Pages
<1> QED
  BY <1>1, <1>2, <1>3, <1>4 DEF Next

-----------------------------------------------------------------------------
(***************************************************************************)
(* Theorems on the allocator                                               *)
(***************************************************************************)

\* The inductive invariant holds throughout: in particular no step of map_page
\* takes a page for a table that is none (vmm.c:66-110).
THEOREM CoreInvariant == Spec => []CoreInv
  BY InitCore, NextCore, PTL DEF Spec

\* Every variable keeps its type: every address stored in a table, taken from
\* the allocator or kept in a frame is the address of a page.
THEOREM TypeCorrect == Spec => []TypeOK
<1>1. CoreInv => TypeOK
  BY DEF CoreInv
<1> QED
  BY CoreInvariant, <1>1, PTL

\* set_alloc_base chooses a largest usable segment (vmm.c:36-41), for every
\* memory map.
THEOREM LargestSegmentChosen == Spec => []LargestSegment
<1>1. CoreInv => LargestSegment
  <2> SUFFICES ASSUME CoreInv, mode # "scan" PROVE LargestSegment
    BY DEF LargestSegment
  <2>1. scan = Len(mmap) + 1 /\ DOMAIN mmap = 1 .. Len(mmap) /\ Len(mmap) \in Nat
    BY MmapType DEF CoreInv, BiggestSoFar, TypeOK
  <2>2. \A i \in DOMAIN mmap : mmap[i].usable => mmap[i].nPages <= biggestSegment.nPages
    BY <2>1 DEF CoreInv, BiggestSoFar
  <2> QED
    BY <2>2 DEF LargestSegment, CoreInv, BiggestSoFar
<1> QED
  BY CoreInvariant, <1>1, PTL

\* The bump allocator hands out each page of the segment once and counts the
\* rest exactly (vmm.c:48-58).
THEOREM AllocatorIsExact == Spec => []AllocatorExact
<1>1. CoreInv => AllocatorExact
  BY DEF CoreInv, AllocatorExact, Pool, TablesArePool
<1> QED
  BY CoreInvariant, <1>1, PTL

-----------------------------------------------------------------------------
(***************************************************************************)
(* Walks before and after a step                                           *)
(***************************************************************************)

\* The indices of a page's walk.
LEMMA IdxTypes ==
    ASSUME NEW p \in Page
    PROVE  Idx(1, p) \in Index /\ Idx(2, p) \in Index /\ Idx(3, p) \in Index /\ Idx(4, p) \in Index
  BY IdxType DEF Level

\* Present entries of existing tables stay as they are.
Grows ==
    /\ DOMAIN table \subseteq DOMAIN table'
    /\ \A f \in DOMAIN table, i \in Index :
            Present(table[f][i]) => table'[f][i] = table[f][i]

\* A walk leads where it led before, as far as it went.
LEMMA WalkGrows ==
    ASSUME CoreInv, Grows, mode # "scan", NEW p \in Page
    PROVE  /\ HasPdpt(p) => HasPdpt(p)' /\ Pdpt(p)' = Pdpt(p)
           /\ HasPd(p) => HasPd(p)' /\ Pd(p)' = Pd(p)
           /\ HasPt(p) => HasPt(p)' /\ Pt(p)' = Pt(p)
           /\ Mapped(p) => Mapped(p)' /\ Pte(p)' = Pte(p)
           /\ HasPdpt(p) => Pml4e(p)' = Pml4e(p)
           /\ HasPd(p) => Pdpte(p)' = Pdpte(p)
           /\ HasPt(p) => Pde(p)' = Pde(p)
<1>1. /\ HasPdpt(p) => Pdpt(p) \in DOMAIN table
      /\ HasPd(p) => Pd(p) \in DOMAIN table
      /\ HasPt(p) => Pt(p) \in DOMAIN table
  BY WalkTyped DEF CoreInv
<1>2. HasPdpt(p) => HasPdpt(p)' /\ Pml4e(p)' = Pml4e(p) /\ Pdpt(p)' = Pdpt(p)
  BY IdxTypes DEF Grows, HasPdpt, Pml4e, Pdpt
<1>3. HasPd(p) => HasPd(p)' /\ Pdpte(p)' = Pdpte(p) /\ Pd(p)' = Pd(p)
  BY <1>1, <1>2, IdxTypes DEF Grows, HasPd, Pdpte, Pd
<1>4. HasPt(p) => HasPt(p)' /\ Pde(p)' = Pde(p) /\ Pt(p)' = Pt(p)
  BY <1>1, <1>3, IdxTypes DEF Grows, HasPt, Pde, Pt
<1>5. Mapped(p) => Mapped(p)' /\ Pte(p)' = Pte(p)
  BY <1>1, <1>4, IdxTypes DEF Grows, Mapped, Pte
<1> QED
  BY <1>2, <1>3, <1>4, <1>5

\* A new table is empty: it lengthens a walk by one level and maps nothing.
LEMMA AllocTableWalk ==
    ASSUME CoreInv, AllocTable
    PROVE  /\ Grows
           /\ \A p \in Page : Mapped(p)' => Mapped(p)
<1>1. /\ mode # "scan" /\ Top.level > 1 /\ ~Present(TopEntry)
      /\ placement \notin DOMAIN table
      /\ DOMAIN table' = DOMAIN table \cup {placement}
      /\ table'[placement] = Zeroed
      /\ table'[Top.tab] = [table[Top.tab] EXCEPT ![Slot] =
                               [addr |-> placement, bits |-> Top.flags]]
      /\ \A f \in DOMAIN table : f # Top.tab => table'[f] = table[f]
  BY AllocTableFacts
<1>2. /\ Top.tab \in DOMAIN table /\ kind[Top.tab] = Top.level /\ Slot \in Index
      /\ table[Top.tab] \in [Index -> Entry]
  BY TopFacts, AllocTableFacts DEF CoreInv, TypeOK
<1>3. \A f \in DOMAIN table, i \in Index :
        table'[f][i] = IF f = Top.tab /\ i = Slot THEN [addr |-> placement, bits |-> Top.flags]
                       ELSE table[f][i]
  BY <1>1, <1>2
<1>4. Grows
  BY <1>1, <1>3 DEF Grows, TopEntry
<1>5. ASSUME NEW p \in Page, Mapped(p)' PROVE Mapped(p)
  <2>1. /\ HasPdpt(p) => Pdpt(p) \in DOMAIN table
        /\ HasPd(p) => Pd(p) \in DOMAIN table
        /\ HasPt(p) => Pt(p) \in DOMAIN table /\ kind[Pt(p)] = 1
    BY <1>1, WalkTyped DEF CoreInv
  <2>2. /\ HasPdpt(p)' /\ HasPd(p)' /\ HasPt(p)'
        /\ Present(Pml4e(p))' /\ Present(Pdpte(p))' /\ Present(Pde(p))' /\ Present(Pte(p))'
    BY <1>5 DEF Mapped, HasPt, HasPd, HasPdpt
  <2>3. \A i \in Index : ~Present(table'[placement][i])
    BY <1>1 DEF Zeroed, Present
  <2>4. HasPdpt(p)
    <3>1. Pml4Page \in DOMAIN table
      BY <1>1 DEF CoreInv, Root
    <3>2. Pdpt(p)' # placement
      BY <2>2, <2>3, IdxTypes DEF Pdpte
    <3>3. Pml4e(p)' = Pml4e(p)
      BY <1>3, <3>1, <3>2, IdxTypes DEF Pml4e, Pdpt
    <3> QED
      BY <2>2, <3>1, <3>3 DEF HasPdpt, Present
  <2>5. HasPd(p)
    <3>1. Pdpt(p)' = Pdpt(p)
      BY <1>1, <1>4, <2>4, WalkGrows
    <3>2. Pd(p)' # placement
      BY <2>2, <2>3, IdxTypes DEF Pde
    <3>3. Pdpte(p)' = Pdpte(p)
      BY <1>3, <2>1, <2>4, <3>1, <3>2, IdxTypes DEF Pdpte, Pd
    <3> QED
      BY <2>2, <2>4, <3>3 DEF HasPd, Present
  <2>6. HasPt(p)
    <3>1. Pd(p)' = Pd(p)
      BY <1>1, <1>4, <2>5, WalkGrows
    <3>2. Pt(p)' # placement
      BY <2>2, <2>3, IdxTypes DEF Pte
    <3>3. Pde(p)' = Pde(p)
      BY <1>3, <2>1, <2>5, <3>1, <3>2, IdxTypes DEF Pde, Pt
    <3> QED
      BY <2>2, <2>5, <3>3 DEF HasPt, Present
  <2>7. Pt(p)' = Pt(p)
    BY <1>1, <1>4, <2>6, WalkGrows
  <2>8. Pte(p)' = Pte(p)
    BY <1>1, <1>2, <1>3, <2>1, <2>6, <2>7, IdxTypes DEF Pte
  <2> QED
    BY <2>2, <2>6, <2>8 DEF Mapped, Present
<1> QED
  BY <1>4, <1>5

\* A store into a page table changes the leaf entry it hits and no other part of
\* any walk.
LEMMA LeafStoreWalk ==
    ASSUME CoreInv, mode # "scan", NEW t \in DOMAIN table, kind[t] = 1,
           NEW i \in Index, NEW e \in Entry, NEW p \in Page,
           table' = [table EXCEPT ![t][i] = e]
    PROVE  /\ HasPdpt(p)' <=> HasPdpt(p)
           /\ HasPd(p)' <=> HasPd(p)
           /\ HasPt(p)' <=> HasPt(p)
           /\ HasPt(p) => Pml4e(p)' = Pml4e(p) /\ Pdpte(p)' = Pdpte(p) /\ Pde(p)' = Pde(p)
           /\ HasPt(p) => Pt(p)' = Pt(p)
           /\ HasPt(p) => Pte(p)' = IF Pt(p) = t /\ Idx(1, p) = i THEN e ELSE Pte(p)
<1>1. table \in [DOMAIN table -> [Index -> Entry]]
  BY DEF CoreInv, TypeOK
<1>2. /\ DOMAIN table' = DOMAIN table
      /\ \A f \in DOMAIN table, j \in Index :
            table'[f][j] = IF f = t /\ j = i THEN e ELSE table[f][j]
  BY <1>1
<1>3. /\ Pml4Page \in DOMAIN table /\ Pml4Page # t
      /\ HasPdpt(p) => Pdpt(p) \in DOMAIN table /\ Pdpt(p) # t
      /\ HasPd(p) => Pd(p) \in DOMAIN table /\ Pd(p) # t
      /\ HasPt(p) => Pt(p) \in DOMAIN table
  BY WalkTyped DEF CoreInv, Root
<1>4. Pml4e(p)' = Pml4e(p)
  BY <1>2, <1>3, IdxTypes DEF Pml4e
<1>5. (HasPdpt(p)' <=> HasPdpt(p)) /\ Pdpt(p)' = Pdpt(p)
  BY <1>2, <1>3, <1>4 DEF HasPdpt, Pdpt, Present
<1>6. HasPdpt(p) => Pdpte(p)' = Pdpte(p)
  BY <1>2, <1>3, <1>5, IdxTypes DEF Pdpte
<1>7. (HasPd(p)' <=> HasPd(p)) /\ (HasPd(p) => Pd(p)' = Pd(p))
  BY <1>5, <1>6 DEF HasPd, Pd, Present
<1>8. HasPd(p) => Pde(p)' = Pde(p)
  BY <1>2, <1>3, <1>7, IdxTypes DEF Pde
<1>9. (HasPt(p)' <=> HasPt(p)) /\ (HasPt(p) => Pt(p)' = Pt(p))
  BY <1>7, <1>8 DEF HasPt, Pt, Present
<1>10. HasPt(p) => Pte(p)' = IF Pt(p) = t /\ Idx(1, p) = i THEN e ELSE Pte(p)
  BY <1>2, <1>3, <1>9, IdxTypes DEF Pte
<1>11. HasPt(p) => HasPd(p) /\ HasPdpt(p)
  BY DEF HasPt, HasPd
<1> QED
  BY <1>4, <1>5, <1>6, <1>7, <1>8, <1>9, <1>10, <1>11

-----------------------------------------------------------------------------
(***************************************************************************)
(* No table is shared                                                      *)
(***************************************************************************)

\* Every table but pml4 hangs off exactly one entry.
OneParent ==
    \A g \in DOMAIN table \ {Pml4Page} :
        \E f \in DOMAIN table, i \in Index :
            /\ Links(f, i, g)
            /\ \A ff \in DOMAIN table, ii \in Index : Links(ff, ii, g) => ff = f /\ ii = i

\* At most one entry leads to a table.
LEMMA LinksUnique ==
    ASSUME CoreInv, OneParent,
           NEW g \in DOMAIN table, g # Pml4Page,
           NEW f \in DOMAIN table, NEW i \in Index, Links(f, i, g),
           NEW ff \in DOMAIN table, NEW ii \in Index, Links(ff, ii, g)
    PROVE  ff = f /\ ii = i
  BY DEF OneParent

\* Two pages whose walks end in the same entry are the same page.
LEMMA WalkInjective ==
    ASSUME CoreInv, OneParent, mode # "scan", NEW p \in Page, NEW q \in Page,
           HasPt(p), HasPt(q), Pt(p) = Pt(q), Idx(1, p) = Idx(1, q)
    PROVE  p = q
<1>1. /\ Pml4Page \in DOMAIN table /\ kind[Pml4Page] = 4
      /\ Pdpt(p) \in DOMAIN table /\ kind[Pdpt(p)] = 3
      /\ Pd(p) \in DOMAIN table /\ kind[Pd(p)] = 2
      /\ Pt(p) \in DOMAIN table /\ kind[Pt(p)] = 1
      /\ Pdpt(q) \in DOMAIN table /\ kind[Pdpt(q)] = 3
      /\ Pd(q) \in DOMAIN table /\ kind[Pd(q)] = 2
  BY WalkTyped DEF CoreInv, Root, HasPt, HasPd
<1>2. /\ Present(Pml4e(p)) /\ Present(Pdpte(p)) /\ Present(Pde(p))
      /\ Present(Pml4e(q)) /\ Present(Pdpte(q)) /\ Present(Pde(q))
  BY DEF HasPt, HasPd, HasPdpt
<1>3. Pd(p) = Pd(q) /\ Idx(2, p) = Idx(2, q)
  <2>1. Links(Pd(p), Idx(2, p), Pt(p)) /\ Links(Pd(q), Idx(2, q), Pt(p))
    BY <1>1, <1>2 DEF Links, Pt, Pde
  <2>2. Pt(p) # Pml4Page
    BY <1>1
  <2> QED
    BY <1>1, <2>1, <2>2, IdxTypes, LinksUnique
<1>4. Pdpt(p) = Pdpt(q) /\ Idx(3, p) = Idx(3, q)
  <2>1. Links(Pdpt(p), Idx(3, p), Pd(p)) /\ Links(Pdpt(q), Idx(3, q), Pd(p))
    BY <1>1, <1>2, <1>3 DEF Links, Pd, Pdpte
  <2>2. Pd(p) # Pml4Page
    BY <1>1
  <2> QED
    BY <1>1, <2>1, <2>2, IdxTypes, LinksUnique
<1>5. Idx(4, p) = Idx(4, q)
  <2>1. Links(Pml4Page, Idx(4, p), Pdpt(p)) /\ Links(Pml4Page, Idx(4, q), Pdpt(p))
    BY <1>1, <1>2, <1>4 DEF Links, Pdpt, Pml4e
  <2>2. Pdpt(p) # Pml4Page
    BY <1>1
  <2> QED
    BY <1>1, <2>1, <2>2, IdxTypes, LinksUnique
<1> QED
  BY <1>3, <1>4, <1>5, IdxInjective

\* Linking a fresh table keeps the tree.
LEMMA AllocTableTree ==
    ASSUME CoreInv, OneParent, AllocTable
    PROVE  OneParent'
<1>1. /\ Top.level > 1 /\ ~Present(TopEntry)
      /\ placement \notin DOMAIN table /\ placement \in Page
      /\ DOMAIN table' = DOMAIN table \cup {placement}
      /\ table'[placement] = Zeroed
      /\ table'[Top.tab] = [table[Top.tab] EXCEPT ![Slot] =
                               [addr |-> placement, bits |-> Top.flags]]
      /\ \A f \in DOMAIN table : f # Top.tab => table'[f] = table[f]
      /\ kind' = [f \in DOMAIN table \cup {placement} |->
                        IF f = placement THEN Top.level - 1 ELSE kind[f]]
  BY AllocTableFacts
<1>2. /\ Top.tab \in DOMAIN table /\ kind[Top.tab] = Top.level /\ Slot \in Index
      /\ table[Top.tab] \in [Index -> Entry] /\ "P" \in Top.flags
  BY TopFacts, AllocTableFacts DEF CoreInv, TypeOK
<1>3. \A f \in DOMAIN table, i \in Index :
        table'[f][i] = IF f = Top.tab /\ i = Slot THEN [addr |-> placement, bits |-> Top.flags]
                       ELSE table[f][i]
  BY <1>1, <1>2
<1>4. /\ \A f \in DOMAIN table : kind'[f] = kind[f]
      /\ \A i \in Index : ~Present(table'[placement][i])
  BY <1>1 DEF Zeroed, Present
\* The links after the step are those before it and the one to the new table.
<1>5. ASSUME NEW f \in DOMAIN table', NEW i \in Index, NEW g
      PROVE  Links(f, i, g)' <=>
                \/ f = Top.tab /\ i = Slot /\ g = placement
                \/ f \in DOMAIN table /\ Links(f, i, g)
  <2>1. CASE f = placement
    <3>1. ~Present(table'[f][i])
      BY <1>4, <2>1
    <3>2. ~Links(f, i, g)'
      BY <3>1 DEF Links, Present
    <3>3. f # Top.tab /\ f \notin DOMAIN table
      BY <1>1, <1>2, <2>1
    <3> QED
      BY <3>2, <3>3
  <2>2. CASE f = Top.tab /\ i = Slot
    <3>1. /\ table'[f][i] = [addr |-> placement, bits |-> Top.flags]
          /\ kind'[f] > 1
      BY <1>1, <1>2, <1>3, <1>4, <2>2
    <3>2. ~Links(f, i, g)
      BY <1>1, <2>2 DEF Links, TopEntry
    <3>3. Present(table'[f][i]) /\ table'[f][i].addr = placement
      BY <1>2, <3>1 DEF Present
    <3>4. Links(f, i, g)' <=> g = placement
      BY <3>1, <3>3 DEF Links, Present
    <3> QED
      BY <2>2, <3>2, <3>4
  <2>3. CASE f # placement /\ ~(f = Top.tab /\ i = Slot)
    BY <1>1, <1>3, <1>4, <2>3 DEF Links
  <2> QED
    BY <1>1, <2>1, <2>2, <2>3
\* No link led to the new table before.
<1>6. \A f \in DOMAIN table, i \in Index : ~Links(f, i, placement)
  BY <1>1 DEF CoreInv, LinksTyped, Links
<1> SUFFICES ASSUME NEW g \in DOMAIN table', g # Pml4Page
             PROVE  \E f \in DOMAIN table', i \in Index :
                        /\ Links(f, i, g)'
                        /\ \A ff \in DOMAIN table', ii \in Index :
                                Links(ff, ii, g)' => ff = f /\ ii = i
  BY DEF OneParent
<1>7. CASE g = placement
  <2>1. PICK t \in DOMAIN table, j \in Index : t = Top.tab /\ j = Slot
    BY <1>2
  <2>2. Links(t, j, g)'
    BY <1>1, <1>5, <1>7, <2>1
  <2>3. \A ff \in DOMAIN table', ii \in Index : Links(ff, ii, g)' => ff = t /\ ii = j
    BY <1>5, <1>6, <1>7, <2>1
  <2> QED
    BY <1>1, <2>2, <2>3
<1>8. CASE g # placement
  <2>1. PICK f \in DOMAIN table, i \in Index :
            /\ Links(f, i, g)
            /\ \A ff \in DOMAIN table, ii \in Index : Links(ff, ii, g) => ff = f /\ ii = i
    BY <1>1, <1>8 DEF OneParent
  <2>2. Links(f, i, g)'
    BY <1>1, <1>5, <2>1
  <2>3. \A ff \in DOMAIN table', ii \in Index : Links(ff, ii, g)' => ff = f /\ ii = i
    BY <1>5, <1>8, <2>1
  <2> QED
    BY <1>1, <2>2, <2>3
<1> QED
  BY <1>7, <1>8

\* Storing a leaf entry keeps the tree.
LEMMA LeafStoreTree ==
    ASSUME CoreInv, OneParent, NEW t \in DOMAIN table, kind[t] = 1,
           NEW i \in Index, NEW e \in Entry,
           table' = [table EXCEPT ![t][i] = e], kind' = kind
    PROVE  OneParent'
<1>1. table \in [DOMAIN table -> [Index -> Entry]]
  BY DEF CoreInv, TypeOK
<1>2. /\ DOMAIN table' = DOMAIN table
      /\ \A f \in DOMAIN table : f # t => table'[f] = table[f]
  BY <1>1
<1>3. \A g : \A f \in DOMAIN table, j \in Index : Links(f, j, g)' <=> Links(f, j, g)
  BY <1>2 DEF Links
<1> QED
  BY <1>2, <1>3 DEF OneParent

\* Where the tables change: boot, a store into a page table, or a new table.
LEMMA TableSteps ==
    ASSUME CoreInv, [Next]_vars
    PROVE  \/ UNCHANGED << table, kind >>
           \/ SetAllocBase
           \/ AllocTable
           \/ MapLeaf /\ ~Present(TopEntry)
           \/ \E p \in ClientPages : UnmapClear(p)
<1>1. CASE KernelStep
  BY <1>1 DEF KernelStep, ScanDescriptor, IdentityMapNext, LoadPml4, Descend, OutOfMemory,
     PageFault, MapLeaf, FlushTlb, tableVars
<1>2. ASSUME NEW p \in ClientPages, NEW f \in ClientFlags, CallMapPage(p, f)
      PROVE  UNCHANGED << table, kind >>
  BY <1>2 DEF CallMapPage, tableVars
<1>3. ASSUME NEW p \in ClientPages, UnmapWild(p) \/ TlbFill(p)
      PROVE  UNCHANGED << table, kind >>
  BY <1>3 DEF UnmapWild, TlbFill, tableVars
<1>4. CASE UNCHANGED vars
  BY <1>4 DEF vars, tableVars
<1> QED
  BY <1>1, <1>2, <1>3, <1>4 DEF Next

\* The store of map_page into the page table of its innermost invocation.
LEMMA MapLeafFacts ==
    ASSUME CoreInv, MapLeaf
    PROVE  /\ mode \in {"identity", "running"} /\ mode' = mode
           /\ stack # << >> /\ Top.level = 1
           /\ Top.tab \in DOMAIN table /\ kind[Top.tab] = 1
           /\ Slot \in Index /\ Slot = Idx(1, Top.page) /\ Top.page \in Page
           /\ [addr |-> Top.page, bits |-> Top.flags] \in Entry /\ "P" \in Top.flags
           /\ table' = IF Present(TopEntry) THEN table
                       ELSE [table EXCEPT ![Top.tab][Slot] =
                                [addr |-> Top.page, bits |-> Top.flags]]
           /\ UNCHANGED << mmap, scan, biggestSegment, placement, segment_usable, kind,
                           addr, unmapping, cr3, tlb, cr2 >>
           /\ DOMAIN stack = 1 .. Len(stack) /\ Len(stack) \in Nat
           /\ DOMAIN stack' = 1 .. (Len(stack) - 1)
           /\ \A k \in DOMAIN stack' : k \in DOMAIN stack /\ stack'[k] = stack[k]
<1>1. /\ mode \in {"identity", "running"} /\ mode' = mode /\ stack # << >> /\ Top.level = 1
      /\ table' = IF Present(TopEntry) THEN table
                  ELSE [table EXCEPT ![Top.tab][Slot] = [addr |-> Top.page, bits |-> Top.flags]]
      /\ stack' = SubSeq(stack, 1, Len(stack) - 1)
      /\ UNCHANGED << mmap, scan, biggestSegment, placement, segment_usable, kind,
                      addr, unmapping, cr3, tlb, cr2 >>
  BY DEF MapLeaf, InMapPage, bootVars, poolVars, cpuVars
<1>2. /\ Len(stack) \in Nat /\ Len(stack) > 0 /\ DOMAIN stack = 1 .. Len(stack)
      /\ Top.tab \in DOMAIN table /\ kind[Top.tab] = 1 /\ Slot \in Index
      /\ Top.page \in Page /\ "P" \in Top.flags
      /\ [addr |-> Top.page, bits |-> Top.flags] \in Entry
  BY <1>1, TopFacts DEF Entry, CoreInv
<1>3. /\ DOMAIN stack' = 1 .. (Len(stack) - 1)
      /\ \A k \in DOMAIN stack' : k \in DOMAIN stack /\ stack'[k] = stack[k]
  <2>1. stack \in Seq(Frame)
    BY DEF TypeOK, CoreInv
  <2> QED
    BY <1>1, <1>2, <2>1, PopFrame
<1>4. Slot = Idx(1, Top.page)
  BY <1>1 DEF Slot
<1> QED
  BY <1>1, <1>2, <1>3, <1>4

\* The store of unmap_page.
LEMMA UnmapClearFacts ==
    ASSUME CoreInv, NEW p \in ClientPages, UnmapClear(p)
    PROVE  /\ mode = "running" /\ mode' = mode /\ stack = << >> /\ unmapping = {}
           /\ unmapping' = {p} /\ Mapped(p) /\ HasPt(p) /\ p \in Page
           /\ Pt(p) \in DOMAIN table /\ kind[Pt(p)] = 1 /\ Idx(1, p) \in Index
           /\ [addr |-> p, bits |-> {}] \in Entry
           /\ table' = [table EXCEPT ![Pt(p)][Idx(1, p)] = [addr |-> p, bits |-> {}]]
           /\ UNCHANGED << mmap, scan, biggestSegment, placement, segment_usable, kind,
                           addr, stack, cr3, tlb, cr2 >>
<1>1. /\ mode = "running" /\ mode' = mode /\ stack = << >> /\ unmapping = {}
      /\ unmapping' = {p} /\ Mapped(p)
      /\ table' = [table EXCEPT ![Pt(p)][Idx(1, p)] = [addr |-> p, bits |-> {}]]
      /\ UNCHANGED << mmap, scan, biggestSegment, placement, segment_usable, kind,
                      addr, stack, cr3, tlb, cr2 >>
  BY DEF UnmapClear, Idle, bootVars, poolVars, cpuVars
<1>2. p \in Page /\ [addr |-> p, bits |-> {}] \in Entry
  BY ClientAssumption DEF Entry
<1> QED
  BY <1>1, <1>2, IdxTypes, WalkTyped DEF Mapped, CoreInv

\* Every step keeps the tree.
LEMMA NextTree == CoreInv /\ OneParent /\ [Next]_vars => OneParent'
<1> SUFFICES ASSUME CoreInv, OneParent, [Next]_vars PROVE OneParent'
  OBVIOUS
<1>1. CASE UNCHANGED << table, kind >>
  <2>1. \A g : \A f \in DOMAIN table, i \in Index : Links(f, i, g)' <=> Links(f, i, g)
    BY <1>1 DEF Links
  <2> QED
    BY <1>1, <2>1 DEF OneParent
<1>2. CASE SetAllocBase
  BY <1>2 DEF SetAllocBase, OneParent
<1>3. CASE AllocTable
  BY <1>3, AllocTableTree
<1>4. CASE MapLeaf /\ ~Present(TopEntry)
  <2>1. PICK t \in DOMAIN table, i \in Index : t = Top.tab /\ i = Slot
    BY <1>4, MapLeafFacts
  <2>2. PICK e \in Entry : e = [addr |-> Top.page, bits |-> Top.flags]
    BY <1>4, MapLeafFacts
  <2>3. table' = [table EXCEPT ![t][i] = e] /\ kind' = kind /\ kind[t] = 1
    BY <1>4, <2>1, <2>2, MapLeafFacts
  <2> QED
    BY <2>3, LeafStoreTree
<1>5. ASSUME NEW p \in ClientPages, UnmapClear(p) PROVE OneParent'
  <2>1. PICK t \in DOMAIN table, i \in Index : t = Pt(p) /\ i = Idx(1, p)
    BY <1>5, UnmapClearFacts
  <2>2. PICK e \in Entry : e = [addr |-> p, bits |-> {}]
    BY <1>5, UnmapClearFacts
  <2>3. table' = [table EXCEPT ![t][i] = e] /\ kind' = kind /\ kind[t] = 1
    BY <1>5, <2>1, <2>2, UnmapClearFacts
  <2> QED
    BY <2>3, LeafStoreTree
<1> QED
  BY <1>1, <1>2, <1>3, <1>4, <1>5, TableSteps

-----------------------------------------------------------------------------
(***************************************************************************)
(* The local pointers of map_page                                          *)
(***************************************************************************)

\* Frame s is at the table the walk for its page passes at that level.
Fresh(s) ==
    \/ s.level = 4 /\ s.tab = Pml4Page
    \/ s.level = 3 /\ HasPdpt(s.page) /\ s.tab = Pdpt(s.page)
    \/ s.level = 2 /\ HasPd(s.page) /\ s.tab = Pd(s.page)
    \/ s.level = 1 /\ HasPt(s.page) /\ s.tab = Pt(s.page)

\* LocalsFresh, frame by frame.
LEMMA LocalsFreshFrames == LocalsFresh <=> \A k \in DOMAIN stack : Fresh(stack[k])
  BY DEF LocalsFresh, Fresh

\* What a frame of map_page holds.
LEMMA FrameType ==
    ASSUME TypeOK, NEW k \in DOMAIN stack
    PROVE  stack[k] \in Frame /\ stack[k].page \in Page
<1>1. stack \in Seq(Frame)
  BY DEF TypeOK
<1>2. stack[k] \in Frame
  BY <1>1, LenProperties, ElementOfSeq
<1> QED
  BY <1>2 DEF Frame

\* A frame stays fresh while the entries of its walk stay.
LEMMA FreshStays ==
    ASSUME CoreInv, Grows, mode # "scan", NEW s, s.page \in Page, Fresh(s)
    PROVE  Fresh(s)'
<1>1. PICK p \in Page : p = s.page
  OBVIOUS
<1>2. /\ HasPdpt(p) => HasPdpt(p)' /\ Pdpt(p)' = Pdpt(p)
      /\ HasPd(p) => HasPd(p)' /\ Pd(p)' = Pd(p)
      /\ HasPt(p) => HasPt(p)' /\ Pt(p)' = Pt(p)
  BY WalkGrows
<1> QED
  BY <1>1, <1>2 DEF Fresh

\* Of map_page's stores, none overwrites a present entry.
LEMMA MapLeafGrows ==
    ASSUME CoreInv, MapLeaf
    PROVE  Grows
<1>1. /\ Top.tab \in DOMAIN table /\ Slot \in Index
      /\ table' = IF Present(TopEntry) THEN table
                  ELSE [table EXCEPT ![Top.tab][Slot] =
                            [addr |-> Top.page, bits |-> Top.flags]]
      /\ table \in [DOMAIN table -> [Index -> Entry]]
  BY MapLeafFacts DEF CoreInv, TypeOK
<1>2. CASE Present(TopEntry)
  BY <1>1, <1>2 DEF Grows
<1>3. CASE ~Present(TopEntry)
  BY <1>1, <1>3 DEF Grows, TopEntry
<1> QED
  BY <1>2, <1>3

\* What a descent does to the frame on top.
LEMMA DescendFacts ==
    ASSUME CoreInv, Descend
    PROVE  /\ mode # "scan" /\ stack # << >> /\ Top.level > 1 /\ Top.level \in Level
           /\ Present(TopEntry) /\ Top.page \in Page
           /\ DOMAIN stack' = DOMAIN stack /\ Len(stack) \in DOMAIN stack
           /\ stack[Len(stack)] = Top
           /\ stack'[Len(stack)].page = Top.page
           /\ stack'[Len(stack)].flags = Top.flags
           /\ stack'[Len(stack)].level = Top.level - 1
           /\ stack'[Len(stack)].tab = TopEntry.addr
           /\ \A k \in DOMAIN stack : k # Len(stack) => stack'[k] = stack[k]
           /\ UNCHANGED << mmap, scan, biggestSegment, placement, segment_usable, table, kind,
                           addr, unmapping, cr3, tlb, cr2, mode >>
<1> DEFINE new == [Top EXCEPT !.level = Top.level - 1, !.tab = TopEntry.addr]
<1>1. /\ mode # "scan" /\ stack # << >> /\ Top.level > 1 /\ Present(TopEntry)
      /\ stack' = [stack EXCEPT ![Len(stack)] = new]
      /\ UNCHANGED << mmap, scan, biggestSegment, placement, segment_usable, table, kind,
                      addr, unmapping, cr3, tlb, cr2, mode >>
  BY DEF Descend, InMapPage, bootVars, poolVars, tableVars, cpuVars
<1>2. /\ Len(stack) \in DOMAIN stack /\ Top \in Frame /\ Top.page \in Page /\ Top.level \in Level
  BY <1>1, TopFacts DEF CoreInv
<1>3. /\ new.page = Top.page /\ new.flags = Top.flags
      /\ new.level = Top.level - 1 /\ new.tab = TopEntry.addr
  BY <1>2 DEF Frame
<1> HIDE DEF new
<1>4. /\ DOMAIN stack' = DOMAIN stack /\ stack'[Len(stack)] = new
      /\ \A k \in DOMAIN stack : k # Len(stack) => stack'[k] = stack[k]
  BY <1>1, <1>2
<1>5. stack[Len(stack)] = Top
  BY DEF Top
<1> QED
  BY <1>1, <1>2, <1>3, <1>4, <1>5

\* A descent keeps the frame on top fresh.
LEMMA DescendFresh ==
    ASSUME CoreInv, LocalsFresh, Descend
    PROVE  LocalsFresh'
<1>1. \A k \in DOMAIN stack : Fresh(stack[k]) /\ stack[k].page \in Page
  BY LocalsFreshFrames, FrameType DEF CoreInv
<1>2. \A s : Fresh(s)' <=> Fresh(s)
  BY DescendFacts DEF Fresh, HasPt, HasPd, HasPdpt, Pt, Pd, Pdpt, Pde, Pdpte, Pml4e
<1> SUFFICES ASSUME NEW k \in DOMAIN stack' PROVE Fresh(stack'[k])
  BY <1>2 DEF LocalsFresh, Fresh
<1>3. CASE k # Len(stack)
  BY <1>1, <1>3, DescendFacts
<1>4. CASE k = Len(stack)
  <2>1. /\ Fresh(Top) /\ Top.level > 1 /\ Top.level \in Level /\ Present(TopEntry)
        /\ stack'[k].page = Top.page
        /\ stack'[k].level = Top.level - 1
        /\ stack'[k].tab = TopEntry.addr
    BY <1>1, <1>4, DescendFacts
  <2>2. Pml4Page \in DOMAIN table
    BY DescendFacts DEF CoreInv, Root
  <2>3. CASE Top.level = 4
    <3>1. Top.tab = Pml4Page /\ TopEntry = Pml4e(Top.page)
      BY <2>1, <2>3 DEF Fresh, TopEntry, Slot, Pml4e
    <3> QED
      BY <2>1, <2>2, <2>3, <3>1 DEF Fresh, HasPdpt, Pdpt
  <2>4. CASE Top.level = 3
    <3>1. HasPdpt(Top.page) /\ TopEntry = Pdpte(Top.page)
      BY <2>1, <2>4 DEF Fresh, TopEntry, Slot, Pdpte
    <3> QED
      BY <2>1, <2>4, <3>1 DEF Fresh, HasPd, Pd
  <2>5. CASE Top.level = 2
    <3>1. HasPd(Top.page) /\ TopEntry = Pde(Top.page)
      BY <2>1, <2>5 DEF Fresh, TopEntry, Slot, Pde
    <3> QED
      BY <2>1, <2>5, <3>1 DEF Fresh, HasPt, Pt
  <2> QED
    BY <2>1, <2>3, <2>4, <2>5 DEF Level
<1> QED
  BY <1>3, <1>4

\* What AllocTable does to the stack of frames.
LEMMA AllocTableStack ==
    ASSUME CoreInv, AllocTable
    PROVE  /\ DOMAIN stack = 1 .. Len(stack) /\ Len(stack) \in Nat
           /\ DOMAIN stack' = 1 .. (Len(stack) + 1)
           /\ \A k \in DOMAIN stack : stack'[k] = stack[k]
           /\ stack'[Len(stack) + 1] = MapPage(placement, Top.flags)
<1>1. /\ mode # "scan" /\ placement \in Page /\ stack # << >>
      /\ stack' = Append(stack, MapPage(placement, Top.flags))
      /\ stack \in Seq(Frame)
  BY AllocTableFacts DEF CoreInv, TypeOK
<1>2. Top.flags \in SUBSET Bit /\ DOMAIN stack = 1 .. Len(stack) /\ Len(stack) \in Nat
  BY <1>1, TopFacts DEF CoreInv
<1>3. MapPage(placement, Top.flags) \in Frame
  BY <1>1, <1>2, NewFrame
<1>4. /\ stack' \in Seq(Frame) /\ Len(stack') = Len(stack) + 1
      /\ \A k \in 1 .. Len(stack) : stack'[k] = stack[k]
      /\ stack'[Len(stack) + 1] = MapPage(placement, Top.flags)
  BY <1>1, <1>3, AppendProperties
<1> QED
  BY <1>2, <1>4, LenProperties

\* Linking a table keeps every frame fresh.
LEMMA AllocTableFresh ==
    ASSUME CoreInv, LocalsFresh, AllocTable
    PROVE  LocalsFresh'
<1>1. Grows /\ mode # "scan"
  BY AllocTableWalk, AllocTableFacts
<1> SUFFICES ASSUME NEW k \in DOMAIN stack' PROVE Fresh(stack[k])'
  BY DEF LocalsFresh, Fresh
<1>2. CASE k = Len(stack) + 1
  <2>1. stack'[k] = MapPage(placement, Top.flags)
    BY <1>2, AllocTableStack
  <2>2. stack'[k].level = 4 /\ stack'[k].tab = Pml4Page
    BY <2>1 DEF MapPage
  <2> QED
    BY <2>2 DEF Fresh
<1>3. CASE k # Len(stack) + 1
  <2>1. k \in DOMAIN stack /\ stack'[k] = stack[k]
    BY <1>3, AllocTableStack
  <2>2. PICK s : s = stack[k]
    OBVIOUS
  <2>3. Fresh(s) /\ s.page \in Page
    BY <2>1, <2>2, LocalsFreshFrames, FrameType DEF CoreInv
  <2>4. Fresh(s)'
    BY <1>1, <2>3, FreshStays
  <2> QED
    BY <2>1, <2>2, <2>4
<1> QED
  BY <1>2, <1>3

\* Storing the leaf entry keeps every frame fresh.
LEMMA MapLeafFresh ==
    ASSUME CoreInv, LocalsFresh, MapLeaf
    PROVE  LocalsFresh'
<1>1. Grows /\ mode # "scan"
  BY MapLeafGrows, MapLeafFacts
<1> SUFFICES ASSUME NEW k \in DOMAIN stack' PROVE Fresh(stack[k])'
  BY DEF LocalsFresh, Fresh
<1>2. k \in DOMAIN stack /\ stack'[k] = stack[k]
  BY MapLeafFacts
<1>3. PICK s : s = stack[k]
  OBVIOUS
<1>4. Fresh(s) /\ s.page \in Page
  BY <1>2, <1>3, LocalsFreshFrames, FrameType DEF CoreInv
<1>5. Fresh(s)'
  BY <1>1, <1>4, FreshStays
<1> QED
  BY <1>2, <1>3, <1>5

\* A call from outside starts with pml4.
LEMMA CallFresh ==
    ASSUME NEW p, NEW f, stack' = << MapPage(p, f) >>
    PROVE  LocalsFresh'
<1> SUFFICES ASSUME NEW k \in DOMAIN stack' PROVE Fresh(stack[k])'
  BY DEF LocalsFresh, Fresh
<1>1. stack'[k] = MapPage(p, f)
  OBVIOUS
<1>2. stack'[k].level = 4 /\ stack'[k].tab = Pml4Page
  BY <1>1 DEF MapPage
<1> QED
  BY <1>2 DEF Fresh

\* What the stack may do in a step.
LEMMA StackSteps ==
    ASSUME CoreInv, [Next]_vars
    PROVE  \/ UNCHANGED << table, stack >>
           \/ SetAllocBase
           \/ IdentityMapNext
           \/ \E p \in ClientPages, f \in ClientFlags : CallMapPage(p, f)
           \/ Descend
           \/ AllocTable
           \/ MapLeaf
           \/ \E p \in ClientPages : UnmapClear(p)
<1>1. CASE KernelStep
  BY <1>1 DEF KernelStep, ScanDescriptor, LoadPml4, OutOfMemory, PageFault, FlushTlb, tableVars
<1>2. ASSUME NEW p \in ClientPages, UnmapWild(p) \/ TlbFill(p)
      PROVE  UNCHANGED << table, stack >>
  BY <1>2 DEF UnmapWild, TlbFill, tableVars
<1>3. CASE UNCHANGED vars
  BY <1>3 DEF vars, tableVars
<1> QED
  BY <1>1, <1>2, <1>3 DEF Next

\* Every step keeps every frame fresh.
LEMMA NextFresh == CoreInv /\ LocalsFresh /\ [Next]_vars => LocalsFresh'
<1> SUFFICES ASSUME CoreInv, LocalsFresh, [Next]_vars PROVE LocalsFresh'
  OBVIOUS
<1>1. CASE UNCHANGED << table, stack >>
  BY <1>1 DEF LocalsFresh, HasPt, HasPd, HasPdpt, Pt, Pd, Pdpt, Pde, Pdpte, Pml4e
<1>2. CASE SetAllocBase
  <2>1. stack' = << >>
    BY <1>2 DEF SetAllocBase, CoreInv, BeforeBoot
  <2> QED
    BY <2>1 DEF LocalsFresh
<1>3. CASE IdentityMapNext
  <2>1. PICK p : p = addr
    OBVIOUS
  <2>2. stack' = << MapPage(p, {"W"}) >>
    BY <1>3, <2>1 DEF IdentityMapNext
  <2> QED
    BY <2>2, CallFresh
<1>4. ASSUME NEW p \in ClientPages, NEW f \in ClientFlags, CallMapPage(p, f)
      PROVE  LocalsFresh'
  BY <1>4, CallFresh DEF CallMapPage
<1>5. CASE Descend
  BY <1>5, DescendFresh
<1>6. CASE AllocTable
  BY <1>6, AllocTableFresh
<1>7. CASE MapLeaf
  BY <1>7, MapLeafFresh
<1>8. ASSUME NEW p \in ClientPages, UnmapClear(p) PROVE LocalsFresh'
  <2>1. stack' = << >>
    BY <1>8, UnmapClearFacts
  <2> QED
    BY <2>1 DEF LocalsFresh
<1> QED
  BY <1>1, <1>2, <1>3, <1>4, <1>5, <1>6, <1>7, <1>8, StackSteps

-----------------------------------------------------------------------------
(***************************************************************************)
(* Theorems on the tree                                                    *)
(***************************************************************************)

TreeInv == CoreInv /\ OneParent /\ LocalsFresh

\* The tables form a tree and every frame's pointers are those of its walk, at
\* every point of the recursion (vmm.c:66-110).
THEOREM TreeInvariant == Spec => []TreeInv
<1>1. Init => TreeInv
  BY InitCore DEF Init, TreeInv, OneParent, LocalsFresh
<1>2. TreeInv /\ [Next]_vars => TreeInv'
  BY NextCore, NextTree, NextFresh DEF TreeInv
<1> QED
  BY <1>1, <1>2, PTL DEF Spec

\* The tables form a tree of four levels at every point of the recursion: no
\* table is shared, leaked or linked at two levels (vmm.c:76-103).
THEOREM TablesFormTree == Spec => []TreeWellFormed
<1>1. TreeInv => TreeWellFormed
  BY DEF TreeInv, CoreInv, LinksTyped, OneParent, TreeWellFormed
<1> QED
  BY TreeInvariant, <1>1, PTL

\* The recursion of map_page never makes a caller's local pointer stale
\* (vmm.c:84-105).
THEOREM LocalsStayFresh == Spec => []LocalsFresh
<1>1. TreeInv => LocalsFresh
  BY DEF TreeInv
<1> QED
  BY TreeInvariant, <1>1, PTL

-----------------------------------------------------------------------------
(***************************************************************************)
(* Why vmm_init and map_page come to an end                                *)
(***************************************************************************)
\* What is left to do: phases of the kernel, iterations of the loop that runs,
\* pages of the allocator, active invocations of map_page, levels of the
\* innermost one, a flush of the TLB.
Rank ==
    << IF mode = "scan" THEN 3 ELSE IF mode = "identity" THEN 2
       ELSE IF mode = "running" THEN 1 ELSE 0,
       IF mode = "scan" THEN Len(mmap) + 1 - scan ELSE Limit - addr,
       segment_usable,
       Len(stack),
       IF stack = << >> THEN 0 ELSE Top.level,
       IF unmapping = {} THEN 0 ELSE 1 >>

RankOK == \A j \in 1 .. 6 : Rank[j] \in Nat

\* Ranks in lexicographic order, which is well-founded.
Less(a, b) == \E k \in 1 .. 6 : a[k] < b[k] /\ \A j \in 1 .. (k - 1) : a[j] = b[j]

\* Each step of the kernel lowers the rank, and while it boots or maps a page
\* nothing else changes it.
Progresses ==
    /\ KernelStep => Less(Rank', Rank)
    /\ mode \in {"scan", "identity"} \/ stack # << >> => KernelStep \/ Rank' = Rank

\* The rank is made of natural numbers.
LEMMA RankType == CoreInv => RankOK
<1> SUFFICES ASSUME CoreInv PROVE RankOK
  OBVIOUS
<1>1. /\ mmap \in MemoryMaps /\ scan \in 1 .. (Len(mmap) + 1) /\ segment_usable \in Nat
      /\ addr \in 0 .. Limit /\ stack \in Seq(Frame) /\ Limit \in Nat
  BY PageFacts DEF CoreInv, TypeOK
<1>2. Len(mmap) \in Nat /\ Len(stack) \in Nat
  BY <1>1, MmapType
<1>3. stack # << >> => Top.level \in Nat
  BY TopFacts DEF CoreInv, Level
<1> QED
  BY <1>1, <1>2, <1>3 DEF RankOK, Rank

\* A step lowers the first component of the rank that it changes.
LEMMA StepLowers == CoreInv /\ KernelStep => Less(Rank', Rank)
<1> SUFFICES ASSUME CoreInv, KernelStep PROVE Less(Rank', Rank)
  OBVIOUS
<1>0. /\ mmap \in MemoryMaps /\ scan \in 1 .. (Len(mmap) + 1) /\ segment_usable \in Nat
      /\ addr \in 0 .. Limit /\ stack \in Seq(Frame) /\ Limit \in Nat
      /\ Len(mmap) \in Nat /\ Len(stack) \in Nat
  BY PageFacts, MmapType DEF CoreInv, TypeOK
<1>1. CASE ScanDescriptor
  BY <1>0, <1>1 DEF ScanDescriptor, Less, Rank
<1>2. CASE SetAllocBase
  BY <1>0, <1>2 DEF SetAllocBase, Less, Rank
<1>3. CASE IdentityMapNext
  BY <1>0, <1>3 DEF IdentityMapNext, Less, Rank, bootVars
<1>4. CASE LoadPml4
  BY <1>0, <1>4 DEF LoadPml4, Less, Rank
<1>5. CASE Descend
  <2>1. /\ stack # << >> /\ Top.level \in Nat
        /\ DOMAIN stack' = DOMAIN stack
        /\ stack'[Len(stack)].level = Top.level - 1
        /\ UNCHANGED << mmap, scan, segment_usable, addr, mode >>
    BY <1>5, DescendFacts DEF Level
  <2>2. stack' \in Seq(Frame)
    BY <1>5, DescendCore DEF CoreInv, TypeOK
  <2>3. /\ DOMAIN stack = 1 .. Len(stack) /\ DOMAIN stack' = 1 .. Len(stack')
        /\ Len(stack') \in Nat
    BY <1>0, <2>2
  <2>4. Len(stack') = Len(stack) /\ Len(stack) > 0
    BY <1>0, <2>1, <2>3
  <2>5. stack' # << >> /\ Top'.level = Top.level - 1
    BY <2>1, <2>4 DEF Top
  <2>6. Rank'[5] < Rank[5] /\ \A j \in 1 .. 4 : Rank'[j] = Rank[j]
    BY <2>1, <2>4, <2>5 DEF Rank
  <2> QED
    BY <2>6 DEF Less
<1>6. CASE AllocTable
  BY <1>0, <1>6 DEF AllocTable, TakePage, InMapPage, Less, Rank, bootVars
<1>7. CASE OutOfMemory \/ PageFault
  <2>1. mode \in {"identity", "running"} /\ mode' \in {"out_of_memory", "page_fault"}
    BY <1>7 DEF OutOfMemory, PageFault, InMapPage
  <2>2. Rank'[1] < Rank[1]
    BY <2>1 DEF Rank
  <2> QED
    BY <2>2 DEF Less
<1>8. CASE MapLeaf
  <2>1. /\ mode # "scan" /\ stack # << >>
        /\ stack' = SubSeq(stack, 1, Len(stack) - 1)
        /\ UNCHANGED << mmap, scan, segment_usable, addr, mode >>
    BY <1>8 DEF MapLeaf, InMapPage, bootVars, poolVars
  <2>2. Len(stack') = Len(stack) - 1
    <3>1. Len(stack) > 0
      BY <1>0, <2>1
    <3>2. \A n \in 0 .. Len(stack) : Len(SubSeq(stack, 1, n)) = n
      BY <1>0
    <3>3. Len(stack) - 1 \in 0 .. Len(stack)
      BY <1>0, <3>1
    <3> QED
      BY <2>1, <3>2, <3>3
  <2>3. Rank'[4] < Rank[4] /\ \A j \in 1 .. 3 : Rank'[j] = Rank[j]
    BY <1>0, <2>1, <2>2 DEF Rank
  <2> QED
    BY <2>3 DEF Less
<1>9. CASE FlushTlb
  <2>1. /\ unmapping # {} /\ unmapping' = {}
        /\ UNCHANGED << mmap, scan, segment_usable, addr, stack, mode >>
    BY <1>9 DEF FlushTlb, bootVars, poolVars
  <2>2. UNCHANGED Top
    BY <2>1 DEF Top
  <2>3. Rank'[6] < Rank[6] /\ \A j \in 1 .. 5 : Rank'[j] = Rank[j]
    BY <2>1, <2>2 DEF Rank
  <2> QED
    BY <2>3 DEF Less
<1> QED
  BY <1>1, <1>2, <1>3, <1>4, <1>5, <1>6, <1>7, <1>8, <1>9 DEF KernelStep

\* Every instruction of the kernel brings the end of vmm_init, of map_page or of
\* unmap_page closer, for every radix and every memory map: no recursion of
\* map_page goes on for ever, whatever the tables look like (vmm.c:66-163).
THEOREM KernelProgresses == Spec => []RankOK /\ [][Progresses]_vars
<1>1. CoreInv /\ [Next]_vars => [Progresses]_vars
  <2> SUFFICES ASSUME CoreInv, Next PROVE Progresses
    OBVIOUS
  <2>1. KernelStep => Less(Rank', Rank)
    BY StepLowers
  <2>2. ASSUME mode \in {"scan", "identity"} \/ stack # << >>, ~KernelStep
        PROVE  Rank' = Rank
    <3>1. PICK p \in ClientPages : TlbFill(p)
      BY <2>2 DEF Next, CallMapPage, UnmapClear, UnmapWild, Idle
    <3> QED
      BY <3>1 DEF TlbFill, Rank, Top, bootVars, poolVars
  <2> QED
    BY <2>1, <2>2 DEF Progresses
<1> QED
  BY <1>1, RankType, CoreInvariant, PTL DEF Spec
=============================================================================
