---------------------------- MODULE VmmMapProofs ----------------------------
(***************************************************************************)
(* What the page tables map: themselves, the identity, and everything      *)
(* below Limit once CR3 is loaded.  Hence the kernel can always reach its  *)
(* tables, its faults lie beyond Limit and the TLB is never stale; and the *)
(* memory manager implements the abstract address space, and the tables    *)
(* stay writable whatever flags its clients use.                           *)
(***************************************************************************)
EXTENDS VmmProofs

-----------------------------------------------------------------------------
(***************************************************************************)
(* How a step changes the set of mapped pages                              *)
(***************************************************************************)

\* A step that leaves the tables alone leaves every walk alone.
LEMMA UnchangedWalk ==
    ASSUME table' = table
    PROVE  \A p : /\ HasPdpt(p)' <=> HasPdpt(p)
                  /\ HasPd(p)' <=> HasPd(p)
                  /\ HasPt(p)' <=> HasPt(p)
                  /\ Mapped(p)' <=> Mapped(p)
                  /\ Pte(p)' = Pte(p)
  BY DEF Mapped, HasPt, HasPd, HasPdpt, Pte, Pt, Pd, Pdpt, Pde, Pdpte, Pml4e

\* While there is no table, and when there is but an empty pml4, nothing is mapped.
LEMMA BootWalk ==
    ASSUME CoreInv, mode = "scan", [Next]_vars, NEW p \in Page
    PROVE  ~Mapped(p) /\ ~Mapped(p)'
<1>1. DOMAIN table = {} /\ ~Mapped(p)
  BY DEF CoreInv, BeforeBoot, Mapped, HasPt, HasPd, HasPdpt
<1>2. CASE SetAllocBase
  <2>1. table'[Pml4Page] = Zeroed
    BY <1>2 DEF SetAllocBase
  <2>2. ~Present(Pml4e(p))'
    BY <2>1, IdxTypes DEF Pml4e, Zeroed, Present
  <2> QED
    BY <1>1, <2>2 DEF Mapped, HasPt, HasPd, HasPdpt
<1>3. CASE UNCHANGED << table, kind >>
  BY <1>1, <1>3, UnchangedWalk
<1>4. ~AllocTable /\ ~MapLeaf /\ \A q : ~UnmapClear(q)
  BY DEF AllocTable, MapLeaf, InMapPage, UnmapClear, Idle
<1> QED
  BY <1>2, <1>3, <1>4, TableSteps

StoreAt(t, i, e) == table' = [table EXCEPT ![t][i] = e]

\* The store of a leaf entry, for all pages at once.
LEMMA LeafStoreWalks ==
    ASSUME CoreInv, mode # "scan", NEW t \in DOMAIN table, kind[t] = 1,
           NEW i \in Index, NEW e \in Entry,
           StoreAt(t, i, e)
    PROVE  \A q \in Page :
            /\ HasPt(q)' <=> HasPt(q)
            /\ HasPt(q) => Pml4e(q)' = Pml4e(q) /\ Pdpte(q)' = Pdpte(q) /\ Pde(q)' = Pde(q)
            /\ HasPt(q) => Pte(q)' = IF Pt(q) = t /\ Idx(1, q) = i THEN e ELSE Pte(q)
<1> TAKE q \in Page
<1> QED
  BY LeafStoreWalk DEF StoreAt

\* map_page's store into the page table maps its page, and only that.
LEMMA MapLeafWalk ==
    ASSUME TreeInv, MapLeaf
    PROVE  \E p \in Page :
            /\ p = Top.page
            /\ Mapped(p)'
            /\ ~Mapped(p) => Pte(p)' = [addr |-> p, bits |-> Top.flags]
            /\ HasPt(p)
            /\ \A q \in Page : q # p => (Mapped(q)' => Mapped(q))
            /\ \A q \in Page : HasPt(q) =>
                    Pml4e(q)' = Pml4e(q) /\ Pdpte(q)' = Pdpte(q) /\ Pde(q)' = Pde(q)
<1>1. /\ mode # "scan" /\ Top.level = 1 /\ stack # << >> /\ Top.page \in Page
      /\ Top.tab \in DOMAIN table /\ kind[Top.tab] = 1
      /\ Slot \in Index /\ Slot = Idx(1, Top.page) /\ "P" \in Top.flags
      /\ [addr |-> Top.page, bits |-> Top.flags] \in Entry
      /\ table' = IF Present(TopEntry) THEN table
                  ELSE [table EXCEPT ![Top.tab][Slot] = [addr |-> Top.page, bits |-> Top.flags]]
  BY MapLeafFacts DEF TreeInv
<1>2. PICK p \in Page, t \in DOMAIN table, i \in Index, e \in Entry :
        /\ p = Top.page /\ t = Top.tab /\ i = Slot /\ e = [addr |-> Top.page, bits |-> Top.flags]
  BY <1>1
<1>3. HasPt(p) /\ t = Pt(p) /\ i = Idx(1, p) /\ TopEntry = Pte(p)
  <2>1. Len(stack) \in DOMAIN stack /\ stack[Len(stack)] = Top
    BY <1>1, TopFacts DEF TreeInv, CoreInv, Top
  <2>2. Fresh(Top)
    BY <2>1, LocalsFreshFrames DEF TreeInv
  <2> QED
    BY <1>1, <1>2, <2>2 DEF Fresh, TopEntry, Pte, Slot
<1>4. CASE Present(TopEntry)
  <2>1. table' = table /\ Mapped(p)
    BY <1>1, <1>3, <1>4 DEF Mapped
  <2>2. \A q : Mapped(q)' <=> Mapped(q)
    BY <2>1, UnchangedWalk
  <2>3. \A q \in Page : HasPt(q) =>
            Pml4e(q)' = Pml4e(q) /\ Pdpte(q)' = Pdpte(q) /\ Pde(q)' = Pde(q)
    BY <2>1 DEF Pml4e, Pdpte, Pde, Pdpt, Pd
  <2> QED
    BY <1>2, <1>3, <2>1, <2>2, <2>3
<1>5. CASE ~Present(TopEntry)
  <2>1. StoreAt(t, i, e) /\ kind[t] = 1
    BY <1>1, <1>2, <1>5 DEF StoreAt
  <2>0. CoreInv
    BY DEF TreeInv
  <2>2. \A q \in Page :
            /\ HasPt(q)' <=> HasPt(q)
            /\ HasPt(q) => Pml4e(q)' = Pml4e(q) /\ Pdpte(q)' = Pdpte(q) /\ Pde(q)' = Pde(q)
            /\ HasPt(q) => Pte(q)' = IF Pt(q) = t /\ Idx(1, q) = i THEN e ELSE Pte(q)
    BY <1>1, <2>0, <2>1, LeafStoreWalks
  <2>3. Pte(p)' = e /\ HasPt(p)'
    BY <1>3, <2>2
  <2>4. Mapped(p)'
    BY <1>1, <1>2, <2>3 DEF Mapped, Present
  <2>5. ASSUME NEW q \in Page, q # p, Mapped(q)' PROVE Mapped(q)
    <3>1. HasPt(q) /\ Present(Pte(q)')
      BY <2>2, <2>5 DEF Mapped, Present
    <3>2. ~(Pt(q) = t /\ Idx(1, q) = i)
      BY <1>1, <1>3, <2>5, <3>1, WalkInjective DEF TreeInv
    <3> QED
      BY <2>2, <3>1, <3>2 DEF Mapped
  <2> QED
    BY <1>2, <1>3, <2>2, <2>3, <2>4, <2>5
<1> QED
  BY <1>4, <1>5

\* unmap_page's store unmaps its page, and only that.
LEMMA UnmapClearWalk ==
    ASSUME TreeInv, NEW p \in ClientPages, UnmapClear(p)
    PROVE  /\ ~Mapped(p)'
           /\ \A q \in Page : HasPt(q)' <=> HasPt(q)
           /\ \A q \in Page : q # p => (Mapped(q)' <=> Mapped(q))
           /\ \A q \in Page : q # p /\ Mapped(q) => Pte(q)' = Pte(q)
           /\ \A q \in Page : HasPt(q) =>
                    Pml4e(q)' = Pml4e(q) /\ Pdpte(q)' = Pdpte(q) /\ Pde(q)' = Pde(q)
<1>1. /\ mode # "scan" /\ HasPt(p) /\ p \in Page
      /\ Pt(p) \in DOMAIN table /\ kind[Pt(p)] = 1 /\ Idx(1, p) \in Index
      /\ [addr |-> p, bits |-> {}] \in Entry
      /\ table' = [table EXCEPT ![Pt(p)][Idx(1, p)] = [addr |-> p, bits |-> {}]]
  BY UnmapClearFacts DEF TreeInv
<1>2. PICK t \in DOMAIN table, i \in Index, e \in Entry :
        t = Pt(p) /\ i = Idx(1, p) /\ e = [addr |-> p, bits |-> {}]
  BY <1>1
<1>3. \A q \in Page :
        /\ HasPt(q)' <=> HasPt(q)
        /\ HasPt(q) => Pml4e(q)' = Pml4e(q) /\ Pdpte(q)' = Pdpte(q) /\ Pde(q)' = Pde(q)
        /\ HasPt(q) => Pte(q)' = IF Pt(q) = t /\ Idx(1, q) = i THEN e ELSE Pte(q)
  <2>1. StoreAt(t, i, e) /\ kind[t] = 1 /\ CoreInv
    BY <1>1, <1>2 DEF TreeInv, StoreAt
  <2> QED
    BY <1>1, <2>1, LeafStoreWalks
<1>4. ~Mapped(p)'
  <2>1. Pte(p)' = e
    BY <1>1, <1>2, <1>3
  <2> QED
    BY <1>2, <2>1 DEF Mapped, Present
<1>5. ASSUME NEW q \in Page, q # p
      PROVE  /\ Mapped(q)' <=> Mapped(q)
             /\ Mapped(q) => Pte(q)' = Pte(q)
  <2>1. HasPt(q) => ~(Pt(q) = t /\ Idx(1, q) = i)
    BY <1>1, <1>2, <1>5, WalkInjective DEF TreeInv
  <2>2. HasPt(q) => Pte(q)' = Pte(q)
    BY <1>3, <2>1
  <2> QED
    BY <1>3, <2>2 DEF Mapped, Present
<1> QED
  BY <1>1, <1>3, <1>4, <1>5

-----------------------------------------------------------------------------
(***************************************************************************)
(* The inductive invariant                                                 *)
(***************************************************************************)

\* An active invocation of map_page is about to map p.
Pending(p) == \E k \in DOMAIN stack : stack[k].page = p

LeafIdentity == \A p \in Page : Mapped(p) => Pte(p).addr = p

NoClientTables == DOMAIN table \cap ClientPages = {}

\* The pages vmm_init's loop has passed are mapped, or are being mapped.
LoopDone ==
    /\ mode = "scan" => addr = 0
    /\ mode = "identity" => \A p \in 0 .. (addr - 1) : Mapped(p) \/ Pending(p)

\* Once CR3 is loaded, the walk for a page below Limit ends in a page table, and
\* its entry is present unless unmap_page cleared it.
LowPages ==
    cr3 => \A p \in 0 .. (Limit - 1) : HasPt(p) /\ (p \in ClientPages \/ Mapped(p))

Phases ==
    /\ mode = "identity" => ~cr3 /\ unmapping = {} /\ tlb = {}
    /\ mode = "running" => cr3

MapInv ==
    /\ TreeInv
    /\ LeafIdentity
    /\ NoClientTables
    /\ LoopDone
    /\ LowPages
    /\ Phases
    /\ TablesMapped
    /\ TlbCoherent
    /\ FaultsBeyondLimit

\* How the mapped pages change, in one statement.
LEMMA MappedSteps ==
    ASSUME TreeInv, [Next]_vars
    PROVE  \/ \A p \in Page : ~Mapped(p) /\ ~Mapped(p)'
           \/ mode # "scan" /\ Grows /\ \A p \in Page : Mapped(p)' => Mapped(p)
           \/ mode # "scan" /\ Grows /\ MapLeaf
           \/ \E p \in ClientPages : UnmapClear(p)
<1>1. CASE mode = "scan"
  BY <1>1, BootWalk DEF TreeInv
<1>2. CASE mode # "scan" /\ UNCHANGED << table, kind >>
  <2>1. Grows /\ \A p \in Page : Mapped(p)' => Mapped(p)
    BY <1>2, UnchangedWalk DEF Grows
  <2> QED
    BY <1>2, <2>1
<1>3. CASE AllocTable
  <2>1. mode # "scan"
    BY <1>3, AllocTableFacts DEF TreeInv
  <2> QED
    BY <1>3, <2>1, AllocTableWalk DEF TreeInv
<1>4. CASE MapLeaf
  <2>1. mode # "scan" /\ Grows
    BY <1>4, MapLeafFacts, MapLeafGrows DEF TreeInv
  <2> QED
    BY <1>4, <2>1
<1>5. CASE SetAllocBase
  BY <1>1, <1>5 DEF SetAllocBase
<1> QED
  BY <1>1, <1>2, <1>3, <1>4, <1>5, TableSteps DEF TreeInv

\* What is mapped stays mapped until unmap_page is called for it.
LEMMA MappedStays ==
    ASSUME TreeInv, [Next]_vars, NEW p \in Page, Mapped(p),
           \A q \in ClientPages : UnmapClear(q) => q # p
    PROVE  Mapped(p)'
<1>1. CASE mode # "scan" /\ Grows
  BY <1>1, WalkGrows DEF TreeInv
<1>2. ASSUME NEW q \in ClientPages, UnmapClear(q) PROVE Mapped(p)'
  BY <1>2, UnmapClearWalk
<1> QED
  BY <1>1, <1>2, MappedSteps

\* A page table that is there stays there.
LEMMA HasPtStays ==
    ASSUME TreeInv, [Next]_vars, NEW p \in Page, HasPt(p)
    PROVE  HasPt(p)'
<1>1. mode # "scan"
  BY DEF HasPt, HasPd, HasPdpt, TreeInv, CoreInv, BeforeBoot
<1>2. CASE Grows
  BY <1>1, <1>2, WalkGrows DEF TreeInv
<1>3. ASSUME NEW q \in ClientPages, UnmapClear(q) PROVE HasPt(p)'
  BY <1>3, UnmapClearWalk
<1>4. CASE UNCHANGED << table, kind >>
  BY <1>4, UnchangedWalk
<1>5. ~SetAllocBase /\ (AllocTable => Grows) /\ (MapLeaf => Grows)
  BY <1>1, AllocTableWalk, MapLeafGrows DEF SetAllocBase, TreeInv
<1> QED
  BY <1>2, <1>3, <1>4, <1>5, TableSteps DEF TreeInv

\* Every step keeps leaf entries pointing to their own page.
LEMMA NextLeafIdentity == TreeInv /\ LeafIdentity /\ [Next]_vars => LeafIdentity'
<1> SUFFICES ASSUME TreeInv, LeafIdentity, [Next]_vars, NEW p \in Page, Mapped(p)'
             PROVE  Pte(p)'.addr = p
  BY DEF LeafIdentity
<1>1. ASSUME Mapped(p), mode # "scan", Grows PROVE Pte(p)'.addr = p
  BY <1>1, WalkGrows DEF LeafIdentity, TreeInv
<1>2. CASE MapLeaf
  <2>1. mode # "scan" /\ Grows
    BY <1>2, MapLeafFacts, MapLeafGrows DEF TreeInv
  <2>2. ~Mapped(p) => Pte(p)'.addr = p
    BY <1>2, MapLeafWalk
  <2> QED
    BY <1>1, <2>1, <2>2
<1>3. ASSUME NEW q \in ClientPages, UnmapClear(q) PROVE Pte(p)'.addr = p
  BY <1>3, UnmapClearWalk DEF LeafIdentity
<1> QED
  BY <1>1, <1>2, <1>3, MappedSteps

\* The segment holds no page the rest of the kernel maps.
LEMMA SegmentNotClient ==
    ASSUME TypeOK, BiggestSoFar
    PROVE  Pages(biggestSegment) \cap ClientPages = {}
<1>1. /\ biggestSegment.base \in Nat /\ biggestSegment.nPages \in Nat
  BY PageFacts DEF TypeOK, Segment
<1>2. CASE biggestSegment.nPages > 0
  <2>1. PICK i \in DOMAIN mmap :
            mmap[i].usable /\ biggestSegment = [base |-> mmap[i].base, nPages |-> mmap[i].nPages]
    BY <1>2 DEF BiggestSoFar
  <2>2. Pages(mmap[i]) \cap ClientPages = {}
    BY <2>1, ClientAssumption DEF TypeOK
  <2>3. Pages(biggestSegment) = Pages(mmap[i])
    BY <2>1 DEF Pages
  <2> QED
    BY <2>2, <2>3
<1>3. CASE biggestSegment.nPages = 0
  BY <1>1, <1>3, PageFacts DEF Pages
<1> QED
  BY <1>1, <1>2, <1>3

\* Every step keeps client pages out of the tables.
LEMMA NextNoClientTables == CoreInv /\ NoClientTables /\ [Next]_vars => NoClientTables'
<1> SUFFICES ASSUME CoreInv, NoClientTables, [Next]_vars PROVE NoClientTables'
  OBVIOUS
<1>1. CASE UNCHANGED << table, kind >>
  BY <1>1 DEF NoClientTables
<1>2. CASE SetAllocBase
  BY <1>2, ClientAssumption DEF SetAllocBase, NoClientTables
<1>3. CASE AllocTable
  <2>1. DOMAIN table' = DOMAIN table \cup {placement} /\ placement \in Pages(biggestSegment)
    BY <1>3, AllocTableFacts
  <2>2. placement \notin ClientPages
    BY <2>1, SegmentNotClient DEF CoreInv
  <2> QED
    BY <2>1, <2>2 DEF NoClientTables
<1>4. CASE MapLeaf
  BY <1>4, MapLeafFacts DEF NoClientTables
<1>5. ASSUME NEW p \in ClientPages, UnmapClear(p) PROVE NoClientTables'
  BY <1>5, UnmapClearFacts DEF NoClientTables
<1> QED
  BY <1>1, <1>2, <1>3, <1>4, <1>5, TableSteps

\* A page that is pending stays so until it is mapped.
LEMMA PendingStep ==
    ASSUME TreeInv, [Next]_vars, NEW p \in Page, Pending(p)
    PROVE  Pending(p)' \/ Mapped(p)'
<1>1. PICK k \in DOMAIN stack : stack[k].page = p
  BY DEF Pending
<1>2. stack # << >>
  BY <1>1
<1>3. CASE UNCHANGED << table, stack >>
  BY <1>1, <1>3 DEF Pending
<1>4. CASE Descend
  <2>1. k \in DOMAIN stack' /\ stack'[k].page = p
    BY <1>1, <1>4, DescendFacts DEF TreeInv
  <2> QED
    BY <2>1 DEF Pending
<1>5. CASE AllocTable
  <2>1. k \in DOMAIN stack' /\ stack'[k].page = p
    BY <1>1, <1>5, AllocTableStack DEF TreeInv
  <2> QED
    BY <2>1 DEF Pending
<1>6. CASE MapLeaf
  <2>1. CASE k = Len(stack)
    <3>1. p = Top.page
      BY <1>1, <2>1 DEF Top
    <3> QED
      BY <1>6, <3>1, MapLeafWalk
  <2>2. CASE k # Len(stack)
    <3>1. k \in DOMAIN stack' /\ stack'[k].page = p
      BY <1>1, <1>6, <2>2, MapLeafFacts DEF TreeInv
    <3> QED
      BY <3>1 DEF Pending
  <2> QED
    BY <2>1, <2>2
<1>7. /\ ~SetAllocBase /\ ~IdentityMapNext
      /\ \A q, f : ~CallMapPage(q, f)
      /\ \A q : ~UnmapClear(q)
  BY <1>2 DEF SetAllocBase, IdentityMapNext, CallMapPage, UnmapClear, Idle, TreeInv, CoreInv, BeforeBoot
<1> QED
  BY <1>3, <1>4, <1>5, <1>6, <1>7, StackSteps DEF TreeInv

\* The control variables, step by step.
LEMMA ControlSteps ==
    ASSUME [Next]_vars
    PROVE  \/ UNCHANGED << mode, addr, cr3, tlb, unmapping, cr2 >>
           \/ SetAllocBase /\ mode = "scan" /\ UNCHANGED << addr, cr3, tlb, unmapping, cr2 >>
           \/ IdentityMapNext
           \/ LoadPml4
           \/ OutOfMemory
           \/ PageFault
           \/ FlushTlb
           \/ \E p \in ClientPages : UnmapClear(p) \/ UnmapWild(p) \/ TlbFill(p)
<1>1. CASE KernelStep
  BY <1>1 DEF KernelStep, ScanDescriptor, SetAllocBase, Descend, AllocTable, MapLeaf, cpuVars
<1>2. ASSUME NEW p \in ClientPages, NEW f \in ClientFlags, CallMapPage(p, f)
      PROVE  UNCHANGED << mode, addr, cr3, tlb, unmapping, cr2 >>
  BY <1>2 DEF CallMapPage, cpuVars
<1>3. CASE UNCHANGED vars
  BY <1>3 DEF vars, cpuVars
<1> QED
  BY <1>1, <1>2, <1>3 DEF Next

\* Every step keeps what is known of the phases of the boot.
LEMMA NextPhases == CoreInv /\ Phases /\ [Next]_vars => Phases'
<1> SUFFICES ASSUME CoreInv, Phases, [Next]_vars PROVE Phases'
  OBVIOUS
<1>1. CASE UNCHANGED << mode, addr, cr3, tlb, unmapping, cr2 >>
  BY <1>1 DEF Phases
<1>2. CASE SetAllocBase /\ mode = "scan" /\ UNCHANGED << addr, cr3, tlb, unmapping, cr2 >>
  <2>1. ~cr3 /\ unmapping = {} /\ tlb = {} /\ mode' # "running"
    BY <1>2 DEF CoreInv, BeforeBoot, SetAllocBase
  <2> QED
    BY <1>2, <2>1 DEF Phases
<1>3. CASE IdentityMapNext
  BY <1>3 DEF IdentityMapNext, Phases, cpuVars
<1>4. CASE LoadPml4
  BY <1>4 DEF LoadPml4, Phases
<1>5. CASE OutOfMemory \/ PageFault
  BY <1>5 DEF OutOfMemory, PageFault, Phases
<1>6. CASE FlushTlb
  BY <1>6 DEF FlushTlb, Phases
<1>7. ASSUME NEW p \in ClientPages, UnmapClear(p) \/ UnmapWild(p) \/ TlbFill(p)
      PROVE  Phases'
  BY <1>7 DEF UnmapClear, UnmapWild, TlbFill, Idle, cpuVars, Phases
<1> QED
  BY <1>1, <1>2, <1>3, <1>4, <1>5, <1>6, <1>7, ControlSteps

\* Every step keeps the pages below mapIdx mapped.
LEMMA NextLoopDone == TreeInv /\ LoopDone /\ [Next]_vars => LoopDone'
<1> SUFFICES ASSUME TreeInv, LoopDone, [Next]_vars PROVE LoopDone'
  OBVIOUS
<1>1. mode' = "scan" => addr' = 0
  BY ControlSteps DEF LoopDone, SetAllocBase, IdentityMapNext, LoadPml4, OutOfMemory, PageFault,
     FlushTlb, UnmapClear, UnmapWild, TlbFill, Idle
<1>2. ASSUME mode = "identity", mode' = "identity", addr' = addr,
             NEW p \in 0 .. (addr - 1)
      PROVE  Mapped(p)' \/ Pending(p)'
  <2>1. \A q \in ClientPages : ~UnmapClear(q)
    BY <1>2 DEF UnmapClear, Idle
  <2>2. addr \in 0 .. Limit /\ Limit \in Nat
    BY PageFacts DEF TreeInv, CoreInv, TypeOK
  <2>3. p \in 0 .. (Limit - 1)
    BY <2>2
  <2>4. p \in Page
    BY <2>3, PageFacts
  <2> QED
    BY <1>2, <2>1, <2>4, MappedStays, PendingStep DEF LoopDone
<1>3. CASE IdentityMapNext
  <2>1. /\ mode = "identity" /\ mode' = mode /\ addr' = addr + 1 /\ addr < Limit
        /\ stack = << >> /\ stack' = << MapPage(addr, {"W"}) >> /\ table' = table
        /\ addr \in 0 .. Limit /\ Limit \in Nat
    BY <1>3, PageFacts DEF IdentityMapNext, tableVars, TreeInv, CoreInv, TypeOK
  <2> SUFFICES ASSUME NEW p \in 0 .. (addr' - 1) PROVE Mapped(p)' \/ Pending(p)'
    BY <1>1, <2>1 DEF LoopDone
  <2>2. CASE p = addr
    <3>1. stack'[1].page = p /\ 1 \in DOMAIN stack'
      BY <2>1, <2>2 DEF MapPage
    <3> QED
      BY <3>1 DEF Pending
  <2>3. CASE p # addr
    <3>1. p \in 0 .. (addr - 1)
      BY <2>1, <2>3
    <3>2. Mapped(p)
      BY <2>1, <3>1 DEF LoopDone, Pending
    <3> QED
      BY <2>1, <3>2, UnchangedWalk
  <2> QED
    BY <2>2, <2>3
<1>4. CASE SetAllocBase
  <2>1. addr' = 0
    BY <1>4 DEF SetAllocBase, LoopDone
  <2> QED
    BY <1>1, <2>1 DEF LoopDone
<1>5. CASE UNCHANGED << mode, addr, cr3, tlb, unmapping, cr2 >>
  BY <1>1, <1>2, <1>5 DEF LoopDone
<1>6. CASE LoadPml4 \/ OutOfMemory \/ PageFault
  BY <1>6 DEF LoadPml4, OutOfMemory, PageFault, LoopDone
<1>7. CASE FlushTlb
  BY <1>7 DEF FlushTlb, LoopDone
<1>8. ASSUME NEW p \in ClientPages, UnmapClear(p) \/ UnmapWild(p) \/ TlbFill(p)
      PROVE  LoopDone'
  BY <1>8 DEF UnmapClear, UnmapWild, TlbFill, Idle, LoopDone
<1> QED
  BY <1>3, <1>4, <1>5, <1>6, <1>7, <1>8, ControlSteps

\* After LoadPml4's guard, every page below Limit and every table is mapped.
LEMMA LoadPml4Complete ==
    ASSUME MapInv, LoadPml4
    PROVE  /\ \A p \in 0 .. (Limit - 1) : Mapped(p)
           /\ \A f \in DOMAIN table : Mapped(f)
<1>1. mode = "identity" /\ stack = << >> /\ addr = Limit
  BY DEF LoadPml4
<1>2. \A p : ~Pending(p)
  BY <1>1 DEF Pending
<1>3. \A p \in 0 .. (Limit - 1) : Mapped(p)
  BY <1>1, <1>2 DEF MapInv, LoopDone
<1>4. ASSUME NEW f \in DOMAIN table PROVE Mapped(f)
  <2>1. CASE f = Pml4Page
    BY <1>3, <2>1, MemoryMapAssumption
  <2>2. CASE f # Pml4Page
    BY <1>2, <2>2 DEF MapInv, TablesMapped, Pending
  <2> QED
    BY <2>1, <2>2
<1> QED
  BY <1>3, <1>4

\* Every step keeps the low pages mapped.
LEMMA NextLowPages == MapInv /\ [Next]_vars => LowPages'
<1> SUFFICES ASSUME MapInv, [Next]_vars, cr3', NEW p \in 0 .. (Limit - 1)
             PROVE  HasPt(p)' /\ (p \in ClientPages \/ Mapped(p)')
  BY DEF LowPages
<1>1. p \in Page
  BY PageFacts
<1>2. CASE LoadPml4
  <2>1. table' = table /\ Mapped(p)
    BY <1>2, LoadPml4Complete DEF LoadPml4, tableVars
  <2> QED
    BY <2>1, UnchangedWalk DEF Mapped
<1>3. CASE cr3
  <2>1. HasPt(p) /\ (p \in ClientPages \/ Mapped(p))
    BY <1>3 DEF MapInv, LowPages
  <2>2. HasPt(p)'
    BY <1>1, <2>1, HasPtStays DEF MapInv
  <2>3. p \notin ClientPages => Mapped(p)'
    BY <1>1, <2>1, MappedStays DEF MapInv
  <2> QED
    BY <2>2, <2>3
<1>4. LoadPml4 \/ cr3' = cr3
  BY ControlSteps DEF IdentityMapNext, OutOfMemory, PageFault, FlushTlb, UnmapClear, UnmapWild,
     TlbFill, cpuVars
<1> QED
  BY <1>2, <1>3, <1>4

\* Every step keeps the tables mapped or about to be.
LEMMA NextTablesMapped == MapInv /\ [Next]_vars => TablesMapped'
<1> SUFFICES ASSUME MapInv, [Next]_vars PROVE TablesMapped'
  OBVIOUS
<1> USE DEF MapInv
<1>1. ASSUME NEW f \in DOMAIN table, f # Pml4Page
      PROVE  Mapped(f)' \/ Pending(f)'
  <2>1. Mapped(f) \/ Pending(f)
    BY <1>1 DEF TablesMapped, Pending
  <2>2. f \in Page /\ f \notin ClientPages
    BY DEF TreeInv, CoreInv, TypeOK, NoClientTables
  <2> QED
    BY <2>1, <2>2, MappedStays, PendingStep
<1>2. ASSUME NEW f \in DOMAIN table, cr3 PROVE Mapped(f)'
  <2>1. Mapped(f)
    BY <1>2 DEF TablesMapped
  <2>2. f \in Page /\ f \notin ClientPages
    BY DEF TreeInv, CoreInv, TypeOK, NoClientTables
  <2> QED
    BY <2>1, <2>2, MappedStays
<1>3. CASE SetAllocBase
  <2>1. DOMAIN table' = {Pml4Page} /\ ~cr3'
    BY <1>3 DEF SetAllocBase, cpuVars, TreeInv, CoreInv, BeforeBoot
  <2> QED
    BY <2>1 DEF TablesMapped
<1>4. CASE AllocTable
  <2>1. /\ DOMAIN table' = DOMAIN table \cup {placement} /\ placement \in Page
        /\ cr3' = cr3 /\ Accessible(placement) /\ placement \notin DOMAIN table
    BY <1>4, AllocTableFacts DEF TreeInv
  <2>2. PICK g \in Page : g = placement
    BY <2>1
  <2>3. Pending(g)'
    <3>1. PICK k : k = Len(stack) + 1
      OBVIOUS
    <3>2. k \in DOMAIN stack' /\ stack'[k].page = g
      BY <1>4, <2>2, <3>1, AllocTableStack DEF TreeInv, MapPage
    <3> QED
      BY <3>2 DEF Pending
  <2>4. cr3 => Mapped(g)'
    <3>1. cr3 => Mapped(g)
      BY <2>1, <2>2 DEF Accessible
    <3>2. \A q : ~UnmapClear(q)
      BY <1>4, AllocTableFacts DEF UnmapClear, Idle, TreeInv
    <3> QED
      BY <3>1, <3>2, MappedStays
  <2> QED
    BY <1>1, <1>2, <2>1, <2>2, <2>3, <2>4 DEF TablesMapped, Pending
<1>5. CASE LoadPml4
  <2>1. /\ UNCHANGED << table, stack >>
        /\ \A f \in DOMAIN table : Mapped(f)
    BY <1>5, LoadPml4Complete DEF LoadPml4, tableVars
  <2> QED
    BY <2>1, UnchangedWalk DEF TablesMapped
<1>6. CASE DOMAIN table' = DOMAIN table /\ cr3' = cr3
  BY <1>1, <1>2, <1>6 DEF TablesMapped, Pending
<1>7. LoadPml4 \/ cr3' = cr3
  BY ControlSteps DEF SetAllocBase, IdentityMapNext, OutOfMemory, PageFault, FlushTlb,
     UnmapClear, UnmapWild, TlbFill, cpuVars
<1>8. SetAllocBase \/ AllocTable \/ DOMAIN table' = DOMAIN table
  BY TableSteps, MapLeafFacts, UnmapClearFacts DEF TreeInv
<1> QED
  BY <1>3, <1>4, <1>5, <1>6, <1>7, <1>8

\* Every step keeps the TLB in agreement with the tables.
LEMMA NextTlbCoherent == MapInv /\ [Next]_vars => TlbCoherent'
<1> SUFFICES ASSUME MapInv, [Next]_vars, NEW p \in tlb'
             PROVE  p \in unmapping' \/ Mapped(p)'
  BY DEF TlbCoherent
<1> USE DEF MapInv
<1>1. ASSUME p \in tlb, unmapping' = unmapping, \A q \in ClientPages : ~UnmapClear(q)
      PROVE  p \in unmapping' \/ Mapped(p)'
  <2>1. p \in Page
    BY <1>1, ClientAssumption DEF TreeInv, CoreInv, TypeOK
  <2> QED
    BY <1>1, <2>1, MappedStays DEF TlbCoherent
<1>2. ASSUME NEW q \in ClientPages, UnmapClear(q) PROVE p \in unmapping' \/ Mapped(p)'
  <2>1. p \in tlb /\ unmapping = {} /\ unmapping' = {q} /\ p \in Page
    BY <1>2, UnmapClearFacts, ClientAssumption DEF TreeInv, CoreInv, TypeOK
  <2>2. Mapped(p)
    BY <2>1 DEF TlbCoherent
  <2> QED
    BY <1>2, <2>1, <2>2, UnmapClearWalk
<1>3. CASE FlushTlb
  <2>1. p \in tlb /\ p \notin unmapping /\ table' = table
    BY <1>3 DEF FlushTlb, tableVars
  <2> QED
    BY <2>1, UnchangedWalk DEF TlbCoherent
<1>4. ASSUME NEW q \in ClientPages, UnmapWild(q) PROVE p \in unmapping' \/ Mapped(p)'
  <2>1. p \in tlb /\ unmapping = {} /\ table' = table
    BY <1>4 DEF UnmapWild, Idle, cpuVars, tableVars
  <2> QED
    BY <2>1, UnchangedWalk DEF TlbCoherent
<1>5. ASSUME NEW q \in ClientPages, TlbFill(q) PROVE p \in unmapping' \/ Mapped(p)'
  <2>1. (p \in tlb \/ p = q) /\ unmapping' = unmapping /\ table' = table /\ Mapped(q)
    BY <1>5 DEF TlbFill, tableVars
  <2> QED
    BY <2>1, UnchangedWalk DEF TlbCoherent
<1>6. CASE LoadPml4
  BY <1>6 DEF LoadPml4
<1>7. CASE \A q \in ClientPages : ~UnmapClear(q) /\ ~UnmapWild(q) /\ ~TlbFill(q)
  <2>1. FlushTlb \/ LoadPml4 \/ (tlb' = tlb /\ unmapping' = unmapping)
    BY <1>7, ControlSteps DEF SetAllocBase, IdentityMapNext, OutOfMemory, PageFault, cpuVars
  <2> QED
    BY <1>1, <1>3, <1>6, <1>7, <2>1
<1> QED
  BY <1>2, <1>4, <1>5, <1>7

\* A page fault is at a page beyond Limit.
LEMMA PageFaultBeyond ==
    ASSUME MapInv, PageFault
    PROVE  cr2' >= Limit
<1> USE DEF MapInv
<1>1. PICK p \in {Top.tab} \cup (IF Accessible(Top.tab) /\ NeedsTable /\ segment_usable > 0
                                THEN {placement} ELSE {}) :
        /\ ~Accessible(p)
        /\ cr2' = p
  BY DEF PageFault
<1>2. /\ cr3 /\ ~Mapped(p) /\ mode # "scan" /\ stack # << >>
  BY <1>1 DEF Accessible, PageFault, InMapPage
<1>3. p # Top.tab
  BY <1>2, TopFacts DEF TablesMapped, TreeInv, CoreInv
<1>4. p = placement /\ segment_usable > 0
  BY <1>1, <1>3
<1>5. p \in Page /\ p \in Pages(biggestSegment)
  BY <1>2, <1>4, SegmentPages DEF TreeInv, CoreInv
<1>6. p \notin ClientPages
  BY <1>5, SegmentNotClient DEF TreeInv, CoreInv
<1>7. p \notin 0 .. (Limit - 1)
  BY <1>2, <1>6 DEF LowPages
<1>8. p \in Nat /\ Limit \in Nat
  BY <1>5, PageFacts
<1> QED
  BY <1>1, <1>7, <1>8

\* unmap_page follows an absent entry only for a page beyond Limit.
LEMMA UnmapWildBeyond ==
    ASSUME MapInv, NEW p \in ClientPages, UnmapWild(p)
    PROVE  p >= Limit
<1>1. cr3 /\ ~HasPt(p)
  BY DEF UnmapWild, Idle, MapInv, Phases
<1>2. p \notin 0 .. (Limit - 1)
  BY <1>1 DEF MapInv, LowPages
<1>3. p \in Nat /\ Limit \in Nat
  BY PageFacts, ClientAssumption
<1> QED
  BY <1>2, <1>3

\* Every step keeps the faults beyond Limit.
LEMMA NextFaults == MapInv /\ [Next]_vars => FaultsBeyondLimit'
<1> SUFFICES ASSUME MapInv, [Next]_vars PROVE FaultsBeyondLimit'
  OBVIOUS
<1>1. CASE UNCHANGED << mode, addr, cr3, tlb, unmapping, cr2 >>
  BY <1>1 DEF MapInv, FaultsBeyondLimit
<1>2. CASE PageFault
  <2>1. mode' = "page_fault"
    BY <1>2 DEF PageFault
  <2> QED
    BY <1>2, <2>1, PageFaultBeyond DEF FaultsBeyondLimit
<1>3. ASSUME NEW p \in ClientPages, UnmapWild(p) PROVE FaultsBeyondLimit'
  <2>1. mode' = "wild" /\ unmapping' = {p}
    BY <1>3 DEF UnmapWild
  <2> QED
    BY <1>3, <2>1, UnmapWildBeyond DEF FaultsBeyondLimit
<1>4. ASSUME NEW p \in ClientPages, UnmapClear(p) \/ TlbFill(p) PROVE FaultsBeyondLimit'
  <2>1. mode' = "running"
    BY <1>4 DEF UnmapClear, TlbFill, Idle
  <2> QED
    BY <2>1 DEF FaultsBeyondLimit
<1>5. CASE SetAllocBase \/ IdentityMapNext \/ LoadPml4 \/ OutOfMemory \/ FlushTlb
  <2>1. mode' \notin {"page_fault", "wild"}
    BY <1>5 DEF SetAllocBase, IdentityMapNext, LoadPml4, OutOfMemory, FlushTlb
  <2> QED
    BY <2>1 DEF FaultsBeyondLimit
<1> QED
  BY <1>1, <1>2, <1>3, <1>4, <1>5, ControlSteps

\* The invariant holds at the start.
LEMMA InitMap == Init => MapInv
<1> SUFFICES ASSUME Init PROVE MapInv
  OBVIOUS
<1>1. TreeInv
  BY InitCore DEF Init, TreeInv, OneParent, LocalsFresh
<1>2. \A p : ~Mapped(p)
  BY DEF Init, Mapped, HasPt, HasPd, HasPdpt
<1>3. LeafIdentity /\ NoClientTables /\ LoopDone /\ LowPages /\ Phases
  BY <1>2 DEF Init, LeafIdentity, NoClientTables, LoopDone, LowPages, Phases
<1>4. TablesMapped /\ TlbCoherent /\ FaultsBeyondLimit
  BY DEF Init, TablesMapped, TlbCoherent, FaultsBeyondLimit
<1> QED
  BY <1>1, <1>3, <1>4 DEF MapInv

\* Every step keeps the invariant.
LEMMA NextMap == MapInv /\ [Next]_vars => MapInv'
<1> SUFFICES ASSUME MapInv, [Next]_vars PROVE MapInv'
  OBVIOUS
<1>1. TreeInv'
  BY NextCore, NextTree, NextFresh DEF MapInv, TreeInv
<1>2. LeafIdentity' /\ NoClientTables'
  BY NextLeafIdentity, NextNoClientTables DEF MapInv, TreeInv
<1>3. LoopDone' /\ Phases'
  BY NextLoopDone, NextPhases DEF MapInv, TreeInv
<1>4. LowPages' /\ TablesMapped' /\ TlbCoherent' /\ FaultsBeyondLimit'
  BY NextLowPages, NextTablesMapped, NextTlbCoherent, NextFaults
<1> QED
  BY <1>1, <1>2, <1>3, <1>4 DEF MapInv

-----------------------------------------------------------------------------
(***************************************************************************)
(* Theorems                                                                *)
(***************************************************************************)

\* The pages of the identity map and the tables are mapped throughout, the leaf
\* entries are the identity and the TLB agrees with them (vmm.c:66-161).
THEOREM MapInvariant == Spec => []MapInv
  BY InitMap, NextMap, PTL DEF Spec

\* Every page table is mapped, or about to be; once CR3 is loaded all are, so
\* the kernel can always change its mappings (vmm.c:81, 91, 102, 160).
THEOREM TablesAreMapped == Spec => []TablesMapped
<1>1. MapInv => TablesMapped
  BY DEF MapInv
<1> QED
  BY MapInvariant, <1>1, PTL

\* The leaves are the identity, and complete below Limit once CR3 is loaded
\* (vmm.c:107-109, 152-160).
THEOREM IdentityIsMapped == Spec => []IdentityMapped
<1>1. MapInv => IdentityMapped
  BY DEF MapInv, LeafIdentity, LowPages, IdentityMapped
<1> QED
  BY MapInvariant, <1>1, PTL

\* unmap_page leaves no stale translation behind (vmm.c:128-131).
THEOREM TlbIsCoherent == Spec => []TlbCoherent
<1>1. MapInv => TlbCoherent
  BY DEF MapInv
<1> QED
  BY MapInvariant, <1>1, PTL

\* map_page faults, and unmap_page walks off the tables, only beyond the range
\* vmm_init maps (vmm.c:78-81, 124-126).
THEOREM FaultsAreBeyondLimit == Spec => []FaultsBeyondLimit
<1>1. MapInv => FaultsBeyondLimit
  BY DEF MapInv
<1> QED
  BY MapInvariant, <1>1, PTL

-----------------------------------------------------------------------------
(***************************************************************************)
(* The refinement mapping, and each step's effect on it                    *)
(***************************************************************************)

Trans == [p \in Page |-> IF Mapped(p) THEN Pte(p).addr ELSE -1]
Phase == IF mode \in Halted THEN "stopped" ELSE IF mode = "running" THEN "live" ELSE "building"

\* The tables translate a page to itself or not at all.
LEMMA TransIs ==
    ASSUME LeafIdentity
    PROVE  Trans = [p \in Page |-> IF Mapped(p) THEN p ELSE -1]
  BY DEF LeafIdentity, Trans

\* Steps that leave the set of mapped pages alone.
LEMMA TransStays ==
    ASSUME MapInv, MapInv', \A p \in Page : Mapped(p)' <=> Mapped(p)
    PROVE  Trans' = Trans
<1>1. LeafIdentity /\ LeafIdentity'
  BY DEF MapInv
<1>2. Trans = [p \in Page |-> IF Mapped(p) THEN Pte(p).addr ELSE -1]
  BY DEF Trans
<1>3. Trans' = [p \in Page |-> IF Mapped(p)' THEN Pte(p)'.addr ELSE -1]
  BY DEF Trans
<1>4. \A p \in Page : /\ Mapped(p) => Pte(p).addr = p
                      /\ Mapped(p)' => Pte(p)'.addr = p
  BY <1>1 DEF LeafIdentity
<1> QED
  BY <1>2, <1>3, <1>4

\* Steps that map one page, or unmap one.
LEMMA TransMaps ==
    ASSUME MapInv, MapInv', NEW q \in Page, Mapped(q)',
           \A p \in Page : p # q => (Mapped(p)' <=> Mapped(p))
    PROVE  Trans' = [Trans EXCEPT ![q] = q]
<1>1. Trans = [p \in Page |-> IF Mapped(p) THEN Pte(p).addr ELSE -1]
  BY DEF Trans
<1>2. Trans' = [p \in Page |-> IF Mapped(p)' THEN Pte(p)'.addr ELSE -1]
  BY DEF Trans
<1>3. \A p \in Page : /\ Mapped(p) => Pte(p).addr = p
                      /\ Mapped(p)' => Pte(p)'.addr = p
  BY DEF MapInv, LeafIdentity
<1> QED
  BY <1>1, <1>2, <1>3

\* Clearing a leaf entry takes away the translation of its page and no other.
LEMMA TransUnmaps ==
    ASSUME MapInv, MapInv', NEW q \in Page, ~Mapped(q)',
           \A p \in Page : p # q => (Mapped(p)' <=> Mapped(p))
    PROVE  Trans' = [Trans EXCEPT ![q] = -1]
<1>1. Trans = [p \in Page |-> IF Mapped(p) THEN Pte(p).addr ELSE -1]
  BY DEF Trans
<1>2. Trans' = [p \in Page |-> IF Mapped(p)' THEN Pte(p)'.addr ELSE -1]
  BY DEF Trans
<1>3. \A p \in Page : /\ Mapped(p) => Pte(p).addr = p
                      /\ Mapped(p)' => Pte(p)'.addr = p
  BY DEF MapInv, LeafIdentity
<1> QED
  BY <1>1, <1>2, <1>3

\* The abstract actions, in terms of the mapping.
AbsMap(p) == Phase \in {"building", "live"} /\ Trans' = [Trans EXCEPT ![p] = p] /\ Phase' = Phase
AbsGoLive ==
    /\ Phase = "building" /\ \A p \in 0 .. (Limit - 1) : Trans[p] = p
    /\ Phase' = "live" /\ Trans' = Trans
AbsUnmap(p) == Phase = "live" /\ Trans' = [Trans EXCEPT ![p] = -1] /\ Phase' = Phase
AbsStop == Phase' = "stopped" /\ Trans' = Trans

\* A step that leaves the translation alone, or changes it as the abstract
\* address space allows, implements it.
LEMMA StepAbstract ==
    ASSUME MapInv, MapInv', [Next]_vars
    PROVE  \/ \E p \in Page : AbsMap(p)
           \/ AbsGoLive
           \/ \E p \in ClientPages : AbsUnmap(p)
           \/ AbsStop
           \/ Trans' = Trans /\ Phase' = Phase
<1>1. CASE MapLeaf
  <2>1. mode' = mode /\ mode \in {"identity", "running"} /\ Grows /\ mode # "scan"
    BY <1>1, MapLeafFacts, MapLeafGrows DEF MapInv, TreeInv
  <2>2. PICK q \in Page : /\ Mapped(q)'
                          /\ \A p \in Page : p # q => (Mapped(p)' => Mapped(p))
    BY <1>1, MapLeafWalk DEF MapInv
  <2>3. \A p \in Page : Mapped(p) => Mapped(p)'
    BY <2>1, WalkGrows DEF MapInv, TreeInv
  <2>4. Trans' = [Trans EXCEPT ![q] = q]
    BY <2>2, <2>3, TransMaps
  <2>5. Phase \in {"building", "live"} /\ Phase' = Phase
    BY <2>1 DEF Phase, Halted
  <2> QED
    BY <2>4, <2>5 DEF AbsMap
<1>2. ASSUME NEW q \in ClientPages, UnmapClear(q)
      PROVE  AbsUnmap(q)
  <2>1. mode' = mode /\ mode = "running" /\ q \in Page
    BY <1>2, UnmapClearFacts DEF MapInv, TreeInv
  <2>2. ~Mapped(q)' /\ \A p \in Page : p # q => (Mapped(p)' <=> Mapped(p))
    BY <1>2, UnmapClearWalk DEF MapInv
  <2>3. Trans' = [Trans EXCEPT ![q] = -1]
    BY <2>1, <2>2, TransUnmaps
  <2>4. Phase = "live" /\ Phase' = Phase
    BY <2>1 DEF Phase, Halted
  <2> QED
    BY <2>3, <2>4 DEF AbsUnmap
<1>3. CASE ~MapLeaf /\ \A q \in ClientPages : ~UnmapClear(q)
  <2>1. \A p \in Page : Mapped(p)' <=> Mapped(p)
    BY <1>3, MappedSteps, MappedStays DEF MapInv
  <2>2. Trans' = Trans
    BY <2>1, TransStays
  <2>3. CASE LoadPml4
    <3>1. mode = "identity" /\ mode' = "running"
      BY <2>3 DEF LoadPml4
    <3>2. Phase = "building" /\ Phase' = "live"
      BY <3>1 DEF Phase, Halted
    <3>3. ASSUME NEW p \in 0 .. (Limit - 1) PROVE Trans[p] = p
      <4>1. Mapped(p) /\ p \in Page
        BY <2>3, LoadPml4Complete, PageFacts
      <4> QED
        BY <4>1 DEF Trans, MapInv, LeafIdentity
    <3> QED
      BY <2>2, <3>2, <3>3 DEF AbsGoLive
  <2>4. CASE OutOfMemory \/ PageFault \/ \E q \in ClientPages : UnmapWild(q)
    <3>1. mode' \in Halted
      BY <2>4 DEF OutOfMemory, PageFault, UnmapWild, Halted
    <3> QED
      BY <2>2, <3>1 DEF AbsStop, Phase
  <2>5. CASE SetAllocBase
    <3>1. mode = "scan" /\ mode' = "identity"
      <4>1. placement' \in Nat
        BY <2>5, PageFacts DEF SetAllocBase, MapInv, TreeInv, CoreInv, TypeOK, Segment
      <4> QED
        BY <2>5, <4>1 DEF SetAllocBase, DeadBeef
    <3>2. Phase' = Phase
      BY <3>1 DEF Phase, Halted
    <3> QED
      BY <2>2, <3>2
  <2>6. CASE mode' = mode
    BY <2>2, <2>6 DEF Phase
  <2>7. \/ LoadPml4 \/ SetAllocBase \/ mode' = mode
        \/ OutOfMemory \/ PageFault \/ \E q \in ClientPages : UnmapWild(q)
    BY ControlSteps DEF IdentityMapNext, FlushTlb, UnmapClear, TlbFill
  <2> QED
    BY <2>3, <2>4, <2>5, <2>6, <2>7
<1> QED
  BY <1>1, <1>2, <1>3

\* Initial states map to initial states.
LEMMA InitAbstract == Init => AS!Init
<1> SUFFICES ASSUME Init PROVE AS!Init
  OBVIOUS
<1>1. \A p : ~Mapped(p)
  BY DEF Init, Mapped, HasPt, HasPd, HasPdpt
<1>2. mode = "scan"
  BY DEF Init
<1> QED
  BY <1>1, <1>2 DEF AS!Init, AS!Unmapped, Halted

\* Every step maps to a step or a stutter of the abstract address space.
LEMMA NextAbstract ==
    ASSUME MapInv, MapInv', [Next]_vars
    PROVE  [AS!Next]_<< Trans, Phase >>
<1>1. \A p : AbsMap(p) => AS!Map(p)
  BY DEF AbsMap, AS!Map, Trans, Phase
<1>2. AbsGoLive => AS!GoLive
  BY DEF AbsGoLive, AS!GoLive, Trans, Phase
<1>3. \A p : AbsUnmap(p) => AS!Unmap(p)
  BY DEF AbsUnmap, AS!Unmap, AS!Unmapped, Trans, Phase
<1>4. AbsStop => AS!Stop
  BY DEF AbsStop, AS!Stop, Trans, Phase
<1> QED
  BY <1>1, <1>2, <1>3, <1>4, StepAbstract DEF AS!Next

\* Seen through the translation it provides, the memory manager with its tables,
\* its allocator and its recursion is the abstract address space
\* (vmm.c:66-134, 154-160).
THEOREM ImplementsAddressSpace == Spec => RefinesAddressSpace
<1>1. MapInv /\ MapInv' /\ [Next]_vars => [AS!Next]_<< Trans, Phase >>
  BY NextAbstract
<1> QED
  BY InitAbstract, <1>1, MapInvariant, PTL DEF Spec, RefinesAddressSpace, AS!Spec, Trans, Phase

-----------------------------------------------------------------------------
(***************************************************************************)
(* The tables stay writable.  Until CR3 is loaded every entry is made by   *)
(* the loop of vmm_init and has the WRITABLE bit; from then on only pages  *)
(* of the rest of the kernel are newly mapped, since memzero faults before *)
(* a table that is not mapped yet could be linked.                         *)
(***************************************************************************)

BootFlags ==
    ~cr3 => /\ \A f \in DOMAIN table, i \in Index :
                    Present(table[f][i]) => "W" \in table[f][i].bits
            /\ \A k \in DOMAIN stack : "W" \in stack[k].flags

\* What map_page is called for once CR3 is loaded.
LiveFrames ==
    cr3 => \A k \in DOMAIN stack : stack[k].page \in ClientPages \/ Mapped(stack[k].page)

KernelWritable == cr3 => \A p \in Page \ ClientPages : Mapped(p) => WritablePath(p)

WriteInv == MapInv /\ BootFlags /\ LiveFrames /\ KernelWritable

\* CR3 changes in LoadPml4 only.
LEMMA NextCr3 == [Next]_vars => LoadPml4 \/ cr3' = cr3
  BY ControlSteps DEF SetAllocBase, IdentityMapNext, OutOfMemory, PageFault, FlushTlb,
     UnmapClear, UnmapWild, TlbFill, cpuVars

\* Every step keeps the flags boot maps its pages with.
LEMMA NextBootFlags == MapInv /\ BootFlags /\ [Next]_vars => BootFlags'
<1> SUFFICES ASSUME MapInv, BootFlags, [Next]_vars, ~cr3' PROVE BootFlags'
  BY DEF BootFlags
<1> USE DEF MapInv
<1>1. ~cr3
  BY NextCr3 DEF LoadPml4
<1>2. /\ \A f \in DOMAIN table, i \in Index : Present(table[f][i]) => "W" \in table[f][i].bits
      /\ \A k \in DOMAIN stack : "W" \in stack[k].flags
  BY <1>1 DEF BootFlags
<1>3. \A f \in DOMAIN table', i \in Index : Present(table'[f][i]) => "W" \in table'[f][i].bits
  <2>1. CASE UNCHANGED << table, kind >>
    BY <1>2, <2>1
  <2>2. CASE SetAllocBase
    BY <2>2 DEF SetAllocBase, Zeroed, Present
  <2>3. CASE AllocTable
    <3>1. /\ DOMAIN table' = DOMAIN table \cup {placement}
          /\ table'[placement] = Zeroed /\ stack # << >>
          /\ table'[Top.tab] = [table[Top.tab] EXCEPT ![Slot] =
                                   [addr |-> placement, bits |-> Top.flags]]
          /\ \A f \in DOMAIN table : f # Top.tab => table'[f] = table[f]
      BY <2>3, AllocTableFacts DEF TreeInv
    <3>2. /\ Top.tab \in DOMAIN table /\ Slot \in Index /\ table[Top.tab] \in [Index -> Entry]
          /\ "W" \in Top.flags
      BY <1>2, <3>1, TopFacts DEF TreeInv, CoreInv, TypeOK, Top
    <3>3. \A i \in Index : ~Present(table'[placement][i])
      BY <3>1 DEF Zeroed, Present
    <3>4. \A i \in Index : table'[Top.tab][i] =
                IF i = Slot THEN [addr |-> placement, bits |-> Top.flags] ELSE table[Top.tab][i]
      BY <3>1, <3>2
    <3> QED
      BY <1>2, <3>1, <3>2, <3>3, <3>4
  <2>4. CASE MapLeaf /\ ~Present(TopEntry)
    <3>1. /\ stack # << >>
          /\ table' = [table EXCEPT ![Top.tab][Slot] = [addr |-> Top.page, bits |-> Top.flags]]
      BY <2>4, MapLeafFacts DEF TreeInv
    <3>2. /\ Top.tab \in DOMAIN table /\ Slot \in Index
          /\ table \in [DOMAIN table -> [Index -> Entry]] /\ "W" \in Top.flags
      BY <1>2, <3>1, TopFacts DEF TreeInv, CoreInv, TypeOK, Top
    <3>3. /\ DOMAIN table' = DOMAIN table
          /\ \A f \in DOMAIN table, i \in Index : table'[f][i] =
                IF f = Top.tab /\ i = Slot THEN [addr |-> Top.page, bits |-> Top.flags]
                ELSE table[f][i]
      BY <3>1, <3>2
    <3> QED
      BY <1>2, <3>2, <3>3
  <2>5. \A p \in ClientPages : ~UnmapClear(p)
    BY <1>1 DEF UnmapClear, Idle, Phases
  <2> QED
    BY <2>1, <2>2, <2>3, <2>4, <2>5, TableSteps DEF TreeInv
<1>4. \A k \in DOMAIN stack' : "W" \in stack'[k].flags
  <2>1. CASE UNCHANGED << table, stack >>
    BY <1>2, <2>1
  <2>2. CASE SetAllocBase
    BY <2>2 DEF SetAllocBase, TreeInv, CoreInv, BeforeBoot
  <2>3. CASE IdentityMapNext
    <3>1. stack' = << MapPage(addr, {"W"}) >>
      BY <2>3 DEF IdentityMapNext
    <3>2. MapPage(addr, {"W"}).flags = {"W"} \cup {"P"}
      BY DEF MapPage
    <3> QED
      BY <3>1, <3>2
  <2>4. \A p \in ClientPages, f \in ClientFlags : ~CallMapPage(p, f)
    BY <1>1 DEF CallMapPage, Idle, Phases
  <2>5. CASE Descend
    <3>1. \A k \in DOMAIN stack' : k \in DOMAIN stack /\ stack'[k].flags = stack[k].flags
      BY <2>5, DescendFacts DEF TreeInv
    <3> QED
      BY <1>2, <3>1
  <2>6. CASE AllocTable
    <3>1. "W" \in Top.flags
      BY <1>2, <2>6, AllocTableFacts, TopFacts DEF TreeInv, CoreInv, Top
    <3>2. "W" \in MapPage(placement, Top.flags).flags
      BY <3>1 DEF MapPage
    <3> QED
      BY <1>2, <2>6, <3>2, AllocTableStack DEF TreeInv
  <2>7. CASE MapLeaf
    BY <1>2, <2>7, MapLeafFacts DEF TreeInv
  <2>8. \A p \in ClientPages : ~UnmapClear(p)
    BY <1>1 DEF UnmapClear, Idle, Phases
  <2> QED
    BY <2>1, <2>2, <2>3, <2>4, <2>5, <2>6, <2>7, <2>8, StackSteps DEF TreeInv
<1> QED
  BY <1>3, <1>4 DEF BootFlags

\* A frame whose page is a client's, or mapped, stays one in every step.
LEMMA LiveStays ==
    ASSUME MapInv, [Next]_vars, NEW p \in Page, p \in ClientPages \/ Mapped(p)
    PROVE  p \in ClientPages \/ Mapped(p)'
  BY MappedStays DEF MapInv

\* Every step keeps the flags of the active invocations.
LEMMA NextLiveFrames == MapInv /\ LiveFrames /\ [Next]_vars => LiveFrames'
<1> SUFFICES ASSUME MapInv, LiveFrames, [Next]_vars, cr3', NEW k \in DOMAIN stack'
             PROVE  stack'[k].page \in ClientPages \/ Mapped(stack[k].page)'
  BY DEF LiveFrames
<1> USE DEF MapInv
<1>1. CASE LoadPml4
  BY <1>1 DEF LoadPml4
<1>2. CASE cr3
  <2> SUFFICES ASSUME NEW p, p = stack'[k].page PROVE p \in ClientPages \/ Mapped(p)'
    OBVIOUS
  <2>1. ASSUME NEW j \in DOMAIN stack, stack[j].page = p PROVE p \in ClientPages \/ Mapped(p)'
    <3>1. p \in Page /\ (p \in ClientPages \/ Mapped(p))
      BY <1>2, <2>1, FrameType DEF LiveFrames, TreeInv, CoreInv
    <3> QED
      BY <3>1, LiveStays
  <2>2. CASE UNCHANGED << table, stack >>
    BY <2>1, <2>2
  <2>3. ~SetAllocBase /\ ~IdentityMapNext
    BY <1>2 DEF SetAllocBase, IdentityMapNext, Phases, TreeInv, CoreInv, BeforeBoot
  <2>4. ASSUME NEW q \in ClientPages, NEW f \in ClientFlags, CallMapPage(q, f)
        PROVE  p \in ClientPages
    <3>1. stack' = << MapPage(q, f) >>
      BY <2>4 DEF CallMapPage
    <3>2. p = q
      BY <3>1 DEF MapPage
    <3> QED
      BY <3>2
  <2>5. CASE Descend
    <3>1. k \in DOMAIN stack /\ stack[k].page = p
      BY <2>5, DescendFacts DEF TreeInv
    <3> QED
      BY <2>1, <3>1
  <2>6. CASE AllocTable
    <3>1. CASE k = Len(stack) + 1
      <4>1. p = placement
        BY <2>6, <3>1, AllocTableStack DEF TreeInv, MapPage
      <4>2. p \in Page /\ Mapped(p)
        BY <1>2, <2>6, <4>1, AllocTableFacts DEF TreeInv, Accessible
      <4> QED
        BY <4>2, LiveStays
    <3>2. CASE k # Len(stack) + 1
      <4>1. k \in DOMAIN stack /\ stack[k].page = p
        BY <2>6, <3>2, AllocTableStack DEF TreeInv
      <4> QED
        BY <2>1, <4>1
    <3> QED
      BY <3>1, <3>2
  <2>7. CASE MapLeaf
    <3>1. k \in DOMAIN stack /\ stack[k].page = p
      BY <2>7, MapLeafFacts DEF TreeInv
    <3> QED
      BY <2>1, <3>1
  <2>8. ASSUME NEW q \in ClientPages, UnmapClear(q) PROVE FALSE
    <3>1. stack' = << >>
      BY <2>8, UnmapClearFacts DEF TreeInv
    <3> QED
      BY <3>1
  <2> QED
    BY <2>2, <2>3, <2>4, <2>5, <2>6, <2>7, <2>8, StackSteps DEF TreeInv
<1> QED
  BY <1>1, <1>2, NextCr3

\* Every step keeps the path to each table writable.
LEMMA NextKernelWritable == WriteInv /\ [Next]_vars => KernelWritable'
<1> SUFFICES ASSUME WriteInv, [Next]_vars, cr3',
                    NEW p \in Page \ ClientPages, Mapped(p)'
             PROVE  WritablePath(p)'
  BY DEF KernelWritable
<1> USE DEF WriteInv, MapInv
<1>1. CASE LoadPml4
  <2>1. table' = table /\ ~cr3 /\ mode # "scan"
    BY <1>1 DEF LoadPml4, tableVars, Phases
  <2>2. Mapped(p)
    BY <2>1, UnchangedWalk
  <2>3. /\ Pml4Page \in DOMAIN table /\ Pdpt(p) \in DOMAIN table
        /\ Pd(p) \in DOMAIN table /\ Pt(p) \in DOMAIN table
    BY <2>1, <2>2, WalkTyped DEF Mapped, HasPt, HasPd, HasPdpt, TreeInv, CoreInv
  <2>4. Present(Pml4e(p)) /\ Present(Pdpte(p)) /\ Present(Pde(p)) /\ Present(Pte(p))
    BY <2>2 DEF Mapped, HasPt, HasPd, HasPdpt
  <2>5. /\ "W" \in Pml4e(p).bits /\ "W" \in Pdpte(p).bits
        /\ "W" \in Pde(p).bits /\ "W" \in Pte(p).bits
    BY <2>1, <2>3, <2>4, IdxTypes DEF BootFlags, Pml4e, Pdpte, Pde, Pte
  <2>6. WritablePath(p)
    BY <2>5 DEF WritablePath
  <2> QED
    BY <2>1, <2>6 DEF WritablePath, Pte, Pt, Pd, Pdpt, Pde, Pdpte, Pml4e
<1>2. CASE cr3
  <2>1. mode # "scan"
    BY <1>2 DEF TreeInv, CoreInv, BeforeBoot
  <2>2. Mapped(p)
    <3>1. CASE MapLeaf
      <4>1. PICK q \in Page : q = Top.page /\ \A r \in Page : r # q => (Mapped(r)' => Mapped(r))
        BY <3>1, MapLeafWalk
      <4>2. q \in ClientPages \/ Mapped(q)
        <5>1. Len(stack) \in DOMAIN stack /\ stack[Len(stack)] = Top
          BY <3>1, MapLeafFacts, TopFacts DEF TreeInv, CoreInv, Top
        <5> QED
          BY <1>2, <4>1, <5>1 DEF LiveFrames
      <4> QED
        BY <4>1, <4>2
    <3>2. ASSUME NEW q \in ClientPages, UnmapClear(q) PROVE Mapped(p)
      BY <3>2, UnmapClearWalk
    <3> QED
      BY <3>1, <3>2, MappedSteps
  <2>3. WritablePath(p) /\ HasPt(p) /\ HasPd(p) /\ HasPdpt(p)
    BY <1>2, <2>2 DEF KernelWritable, Mapped, HasPt, HasPd
  <2>4. Pml4e(p)' = Pml4e(p) /\ Pdpte(p)' = Pdpte(p) /\ Pde(p)' = Pde(p) /\ Pte(p)' = Pte(p)
    <3>1. CASE Grows
      BY <2>1, <2>2, <2>3, <3>1, WalkGrows DEF TreeInv
    <3>2. ASSUME NEW q \in ClientPages, UnmapClear(q)
          PROVE  Pml4e(p)' = Pml4e(p) /\ Pdpte(p)' = Pdpte(p) /\ Pde(p)' = Pde(p) /\ Pte(p)' = Pte(p)
      BY <2>2, <2>3, <3>2, UnmapClearWalk
    <3> QED
      BY <2>2, <3>1, <3>2, MappedSteps
  <2> QED
    BY <2>3, <2>4 DEF WritablePath
<1> QED
  BY <1>1, <1>2, NextCr3

\* Once CR3 is loaded the kernel can write every page table it may have to
\* change, whatever flags its other pages are mapped with (vmm.c:80-81, 90-91,
\* 101-102).
THEOREM TablesStayWritable == Spec => []TablesWritable
<1>1. Init => WriteInv
  BY InitMap DEF Init, WriteInv, BootFlags, LiveFrames, KernelWritable
<1>2. WriteInv /\ [Next]_vars => WriteInv'
  BY NextMap, NextBootFlags, NextLiveFrames, NextKernelWritable DEF WriteInv
<1>3. WriteInv => TablesWritable
  <2> SUFFICES ASSUME WriteInv, cr3, NEW f \in DOMAIN table PROVE WritablePath(f)
    BY DEF TablesWritable
  <2>1. f \in Page \ ClientPages /\ Mapped(f)
    BY DEF WriteInv, MapInv, TreeInv, CoreInv, TypeOK, NoClientTables, TablesMapped
  <2> QED
    BY <2>1 DEF WriteInv, KernelWritable
<1> QED
  BY <1>1, <1>2, <1>3, PTL DEF Spec
=============================================================================
