-------------------------- MODULE BootLoaderProofs --------------------------
(***************************************************************************)
(* The boot loader's properties hold for every memory size, initial map,   *)
(* list of program headers and configuration table, and however often the  *)
(* firmware changes the map, refuses an allocation or reads too little.    *)
(* LoaderInv is the inductive invariant.                                   *)
(***************************************************************************)
EXTENDS BootLoader, FiniteSetTheorems, SequenceTheorems, TLAPS

-----------------------------------------------------------------------------
(***************************************************************************)
(* Memory                                                                  *)
(***************************************************************************)
Types == {"free", "loader", "firmware"}
Writers == {Junk, Firmware, Pool, Unknown} \cup DOMAIN Segments
MemoryOK ==
    /\ type \in [Page -> Types] /\ data \in [Page -> Writers]
    /\ gen \in Nat /\ changes \in 0 .. MaxChanges

\* An element of a sequence.
LEMMA SeqElement ==
    ASSUME NEW S, NEW q \in Seq(S), NEW e \in DOMAIN q
    PROVE  Len(q) \in Nat /\ DOMAIN q = 1 .. Len(q) /\ q[e] \in S
  OBVIOUS

\* What a program header may say.
LEMMA SegmentFacts ==
    ASSUME NEW s \in DOMAIN Segments
    PROVE  /\ Len(Segments) \in Nat /\ s \in 1 .. Len(Segments)
           /\ Segments[s].load \in BOOLEAN
           /\ Segments[s].first \in Nat /\ Segments[s].file \in Nat /\ Segments[s].mem \in Nat
           /\ Range0(Segments[s].first, Segments[s].file)
                \subseteq Range0(Segments[s].first, Segments[s].mem)
           /\ Range0(Segments[s].first, Segments[s].mem) \subseteq Page
  <1>1. Segments \in Seq([load : BOOLEAN, first : Nat, file : Nat, mem : Nat])
    BY LoaderAssumption
  <1>2. /\ Len(Segments) \in Nat /\ DOMAIN Segments = 1 .. Len(Segments)
        /\ Segments[s] \in [load : BOOLEAN, first : Nat, file : Nat, mem : Nat]
    BY <1>1, SeqElement
  <1>3. /\ Segments[s].load \in BOOLEAN
        /\ Segments[s].first \in Nat /\ Segments[s].file \in Nat /\ Segments[s].mem \in Nat
    BY <1>2
  <1>4. /\ Segments[s].file <= Segments[s].mem
        /\ Segments[s].first + Segments[s].mem <= Pages
    BY LoaderAssumption
  <1>5. Pages \in Nat
    BY LoaderAssumption
  <1> DEFINE first == Segments[s].first
             file == Segments[s].file
             mem == Segments[s].mem
  <1>6. /\ first \in Nat /\ file \in Nat /\ mem \in Nat
        /\ file <= mem /\ first + mem <= Pages
    BY <1>3, <1>4
  <1> HIDE DEF first, file, mem
  <1>7. Range0(first, file) \subseteq Range0(first, mem) /\ Range0(first, mem) \subseteq Page
    BY <1>5, <1>6 DEF Range0, Page
  <1> QED
    BY <1>2, <1>3, <1>7 DEF first, file, mem

\* AllocatePool hands out a free page and leaves the others alone.
LEMMA PoolStep ==
    ASSUME MemoryOK, NEW p \in Page, AllocatePool(p)
    PROVE  /\ MemoryOK' /\ changes' = changes /\ gen' = gen + 1
           /\ type[p] = "free" /\ type'[p] = "loader" /\ data'[p] = Pool
           /\ \A q \in Page : q # p => (type'[q] = type[q] /\ data'[q] = data[q])
  BY DEF MemoryOK, AllocatePool, Take, Types, Writers

\* A stray store gives no page back.
LEMMA StrayStep ==
    ASSUME MemoryOK, StrayStore,
           UNCHANGED << type, gen, changes >> \/ \E p \in Page : Take(p)
    PROVE  /\ MemoryOK' /\ changes' = changes /\ wild'
           /\ \A q \in Page : type[q] = "loader" => type'[q] = "loader"
  BY DEF MemoryOK, StrayStore, Take, Types, Writers

\* The firmware takes free pages only and gives back its own.
LEMMA ChangeStep ==
    ASSUME MemoryOK, MapChanges
    PROVE  /\ MemoryOK' /\ changes' = changes + 1
           /\ \A q \in Page : type'[q] = "loader" <=> type[q] = "loader"
           /\ \A q \in Page : type[q] = "loader" => data'[q] = data[q]
  <1>1. changes' \in 0 .. MaxChanges /\ gen' \in Nat /\ changes' = changes + 1
    BY LoaderAssumption DEF MemoryOK, MapChanges
  <1>2. PICK p \in Page :
        \/ /\ type[p] = "free"
           /\ type' = [type EXCEPT ![p] = "firmware"]
           /\ data' = [data EXCEPT ![p] = Firmware]
        \/ /\ type[p] = "firmware"
           /\ type' = [type EXCEPT ![p] = "free"]
           /\ UNCHANGED data
    BY DEF MapChanges
  <1>3. /\ type' \in [Page -> Types] /\ data' \in [Page -> Writers]
        /\ \A q \in Page : type'[q] = "loader" <=> type[q] = "loader"
        /\ \A q \in Page : type[q] = "loader" => data'[q] = data[q]
    BY <1>2 DEF MemoryOK, Types, Writers
  <1> QED
    BY <1>1, <1>3 DEF MemoryOK

\* A segment's pages are written whether or not they were allocated; they are
\* allocated all or not at all.
LEMMA SegmentStep ==
    ASSUME MemoryOK, k \in 1 .. (Len(Segments) + 1), failures \in 0 .. MaxFailures,
           {refused, whole} \subseteq BOOLEAN, LoadSegment
    PROVE  /\ MemoryOK' /\ k \in DOMAIN Segments /\ k' = k + 1
           /\ {refused', whole'} \subseteq BOOLEAN /\ failures' \in 0 .. MaxFailures
           /\ refused => refused'
           /\ whole' => whole
           /\ \A q \in Page : type[q] = "loader" => type'[q] = "loader"
           /\ ~refused' =>
                \A q \in Range0(Segments[k].first, Segments[k].mem) : type'[q] = "loader"
           /\ whole' =>
                \A q \in Range0(Segments[k].first, Segments[k].file) : data'[q] = k
           /\ \A q \in Page :
                data'[q] # data[q] => q \in Range0(Segments[k].first, Segments[k].file)
  <1>1. k <= Len(Segments) /\ Len(Segments) \in Nat /\ DOMAIN Segments = 1 .. Len(Segments)
    BY LoaderAssumption DEF LoadSegment, AtHeader
  <1>2. k \in DOMAIN Segments /\ k' = k + 1 /\ changes' = changes
    BY <1>1 DEF LoadSegment
  <1>2a. /\ Segments[k].first \in Nat /\ Segments[k].file \in Nat /\ MaxFailures \in Nat
    BY <1>2, SegmentFacts, LoaderAssumption
  <1> DEFINE first == Segments[k].first
             size == Segments[k].file
             mem == Range0(Segments[k].first, Segments[k].mem)
             file == Range0(first, size)
  <1>3. file \subseteq mem /\ mem \subseteq Page
    BY <1>2, SegmentFacts
  <1>4. /\ \E count \in 0 .. size :
            /\ data' = [p \in Page |-> IF p \in Range0(first, count) THEN k ELSE data[p]]
            /\ IF count = size THEN UNCHANGED << failures, whole >> ELSE Fails /\ whole' = FALSE
        /\ \/ /\ type' = [p \in Page |-> IF p \in mem THEN "loader" ELSE type[p]]
              /\ gen' = gen + 1 /\ UNCHANGED refused
           \/ refused' = TRUE /\ UNCHANGED << type, gen >>
    BY DEF LoadSegment, AllocateAndRead
  <1>4a. first \in Nat /\ size \in Nat
    BY <1>2a
  <1> HIDE DEF mem, first, size
  <1>5. /\ refused' \in BOOLEAN /\ (refused => refused')
        /\ type' \in [Page -> Types] /\ gen' \in Nat
        /\ \A q \in Page : type[q] = "loader" => type'[q] = "loader"
        /\ ~refused' => \A q \in mem : type'[q] = "loader"
    <2>1. CASE type' = [p \in Page |-> IF p \in mem THEN "loader" ELSE type[p]]
               /\ gen' = gen + 1 /\ UNCHANGED refused
      BY <1>3, <2>1 DEF MemoryOK, Types
    <2>2. CASE refused' = TRUE /\ UNCHANGED << type, gen >>
      BY <2>2 DEF MemoryOK
    <2> QED
      BY <1>4, <2>1, <2>2
  <1>6. PICK count \in 0 .. size :
            /\ data' = [p \in Page |-> IF p \in Range0(first, count) THEN k ELSE data[p]]
            /\ IF count = size THEN UNCHANGED << failures, whole >> ELSE Fails /\ whole' = FALSE
    BY <1>4
  <1>7. whole' \in BOOLEAN /\ (whole' => whole) /\ failures' \in 0 .. MaxFailures
    <2>1. CASE count = size
      BY <1>6, <2>1
    <2>2. CASE count # size
      <3>1. failures < MaxFailures /\ failures' = failures + 1 /\ whole' = FALSE
        BY <1>6, <2>2 DEF Fails
      <3>2. failures' \in 0 .. MaxFailures
        BY <1>2a, <3>1
      <3> QED
        BY <3>1, <3>2
    <2> QED
      BY <2>1, <2>2
  <1>8. Range0(first, count) \subseteq file
    BY <1>4a DEF Range0
  <1>9. /\ data' \in [Page -> Writers]
        /\ \A q \in Page : data'[q] # data[q] => q \in file
    BY <1>2, <1>6, <1>8 DEF MemoryOK, Writers
  <1>10. whole' => \A q \in file : data'[q] = k
    BY <1>3, <1>6
  <1> QED
    BY <1>2, <1>5, <1>7, <1>9, <1>10 DEF mem, first, size, MemoryOK

-----------------------------------------------------------------------------
(***************************************************************************)
(* The menu and the order of the calls                                     *)
(***************************************************************************)
Loading == {"open", "segment", "font", "draw"}
Places == {"open", "segment", "font", "draw", "key", "act", "size", "pool",
           "map", "rsdp", "search", "exit", "entered", "returned", "reset", "lost"}

\* LEGACY mode is chosen by the step that leaves the menu.
MenuInv ==
    /\ pc \in Places
    /\ screen \in {"none", "boot", "reboot"} /\ menuEntry \in {Boot, Reboot}
    /\ Key \in Keys /\ legacy_boot \in BOOLEAN
    /\ pc \in Loading => menuEntry = Boot
    /\ pc \in Loading \cup {"key", "act"} => ~legacy_boot
    /\ MenuShowsEntry

\* A step of the loader keeps MenuInv (main.c:317-345).
LEMMA MenuStep == MenuInv /\ [Next]_vars => MenuInv'
  <1> SUFFICES ASSUME MenuInv, [Next]_vars PROVE MenuInv'
    OBVIOUS
  <1> USE DEF MenuInv, MenuShowsEntry, Places, Loading, Keys, Boot, Reboot, Up, Down, Right,
              Left, Other, At, Goto
  <1>1. CASE Load
    <2>1. UNCHANGED menu
      BY <1>1 DEF Load, OpenKernel, LoadSegment, SkipHeader, JunkHeader, InitGop, LoadFont
    <2>2. pc \in {"open", "segment", "font"} /\ pc' \in Loading \cup {"lost", "returned"}
      BY <1>1 DEF Load, OpenKernel, LoadSegment, AllocateAndRead, SkipHeader, JunkHeader,
                  AtHeader, InitGop, LoadFont, StoreFails
    <2> QED
      BY <2>1, <2>2 DEF menu
  <1>2. CASE DrawMenu \/ SelectReboot \/ SelectBoot \/ ReadKeyStroke
    BY <1>2 DEF DrawMenu, SelectReboot, SelectBoot, ReadKeyStroke, Draw
  <1>3. CASE ChooseBoot
    BY <1>3 DEF ChooseBoot, Draw, menu
  <1>4. CASE ChooseReboot
    BY <1>4 DEF ChooseReboot, menu
  <1>5. CASE ChooseLegacy
    BY <1>5 DEF ChooseLegacy, Draw
  <1>6. CASE IgnoreKey
    BY <1>6 DEF IgnoreKey, menu
  <1>7. CASE HandOver
    <2>1. UNCHANGED menu
      BY <1>7 DEF HandOver, MapSize, MapPool, GetMap, StartSearch, Search, SearchEnds,
                  ExitBootServices
    <2>2. \/ /\ pc \in {"size", "pool", "map", "rsdp", "search", "exit"}
             /\ pc' \in {"pool", "map", "rsdp", "search", "exit", "entered", "returned"}
          \/ pc' = pc
      BY <1>7 DEF HandOver, MapSize, MapPool, GetMap, StartSearch, Search, SearchEnds,
                  ExitBootServices
    <2> QED
      BY <2>1, <2>2 DEF menu
  <1>8. CASE MapChanges \/ UNCHANGED vars
    BY <1>8 DEF MapChanges, vars, menu
  <1> QED
    BY <1>1, <1>2, <1>3, <1>4, <1>5, <1>6, <1>7, <1>8 DEF Next, Loader, Menu

-----------------------------------------------------------------------------
(***************************************************************************)
(* The pages of the kernel and of what it is handed                        *)
(***************************************************************************)
Early == Loading \cup {"key", "act", "size", "pool"}

\* What is set by the time a call is reached.
Order ==
    /\ pc \in {"open", "segment"} => lfb = Null
    /\ pc \in {"open", "segment", "font"} => font = Null
    /\ pc \in Early => map = Null
    /\ pc \in Early \cup {"map"} => snapshot = << >>
    /\ pc \notin {"open", "segment", "returned", "lost"} => k = Len(Segments) + 1
    /\ pc # "entered" => services

\* The pages handed over are the loader's own and hold what it put there.
Owned ==
    \A p \in Page : p \in {lfb, font, map} =>
        (type[p] = "loader" /\ (~wild => data[p] = Pool))

\* The map the loader has reserves what is the loader's own by now.
InMap ==
    snapshot # << >> => \A p \in Page : type[p] = "loader" => snapshot[p] = "loader"

\* The segments loaded so far.
Loaded ==
    (whole /\ ~refused /\ ~wild /\ Disjoint) =>
        \A s \in Kernel : s < k =>
            /\ \A p \in Range0(Segments[s].first, Segments[s].file) : data[p] = s
            /\ \A p \in Range0(Segments[s].first, Segments[s].mem) : type[p] = "loader"

PagesInv ==
    /\ MemoryOK
    /\ k \in 1 .. (Len(Segments) + 1) /\ {whole, refused, wild} \subseteq BOOLEAN
    /\ failures \in 0 .. MaxFailures
    /\ {headers, lfb, font} \subseteq {Null, Wild} \cup Page /\ map \in {Null} \cup Page
    /\ snapshot \in {<< >>} \cup [Page -> Types]
    /\ services \in BOOLEAN
    /\ Order /\ Owned /\ InMap /\ Loaded

\* What leaves the loader's own pages alone leaves the segments alone.
LEMMA SegmentsKept ==
    ASSUME Loaded, k' = k, refused' = refused, whole' = whole,
           \A q \in Page : type[q] = "loader" => type'[q] = "loader",
           ~wild' => ~wild /\ \A q \in Page : type[q] = "loader" => data'[q] = data[q]
    PROVE  Loaded'
  <1> SUFFICES ASSUME whole, ~refused, ~wild', Disjoint, NEW s \in Kernel, s < k
               PROVE  /\ \A p \in Range0(Segments[s].first, Segments[s].file) : data'[p] = s
                      /\ \A p \in Range0(Segments[s].first, Segments[s].mem) : type'[p] = "loader"
    BY DEF Loaded, Kernel, Disjoint
  <1>1. s \in DOMAIN Segments
    BY DEF Kernel
  <1>2. /\ Range0(Segments[s].first, Segments[s].file)
             \subseteq Range0(Segments[s].first, Segments[s].mem)
        /\ Range0(Segments[s].first, Segments[s].mem) \subseteq Page
    BY <1>1, SegmentFacts
  <1> QED
    BY <1>2 DEF Loaded

\* AllocatePages and Read (main.c:300-304): no segment loaded before is touched.
LEMMA SegmentsLoaded ==
    ASSUME PagesInv, LoadSegment
    PROVE  Loaded'
  <1>1. /\ MemoryOK /\ k \in 1 .. (Len(Segments) + 1) /\ {refused, whole} \subseteq BOOLEAN
        /\ failures \in 0 .. MaxFailures /\ Loaded
    BY DEF PagesInv
  <1>2. /\ k \in DOMAIN Segments /\ k' = k + 1 /\ (refused => refused') /\ (whole' => whole)
        /\ wild' = wild
    BY <1>1, SegmentStep DEF LoadSegment
  <1> SUFFICES ASSUME whole', ~refused', ~wild, Disjoint, NEW s \in Kernel, s < k + 1
               PROVE  /\ \A p \in Range0(Segments[s].first, Segments[s].file) : data'[p] = s
                      /\ \A p \in Range0(Segments[s].first, Segments[s].mem) : type'[p] = "loader"
    BY <1>2 DEF Loaded, Kernel, Disjoint
  <1>3. /\ s \in DOMAIN Segments /\ s \in 1 .. Len(Segments)
        /\ Range0(Segments[s].first, Segments[s].file)
             \subseteq Range0(Segments[s].first, Segments[s].mem)
        /\ Range0(Segments[s].first, Segments[s].mem) \subseteq Page
    BY SegmentFacts DEF Kernel
  <1>4. CASE s = k
    BY <1>1, <1>3, <1>4, SegmentStep
  <1>5. CASE s < k
    <2>1. /\ \A p \in Range0(Segments[s].first, Segments[s].file) : data[p] = s
          /\ \A p \in Range0(Segments[s].first, Segments[s].mem) : type[p] = "loader"
      BY <1>1, <1>2, <1>5 DEF Loaded
    <2>2. \A p \in Range0(Segments[s].first, Segments[s].mem) : type'[p] = "loader"
      BY <1>1, <1>3, <2>1, SegmentStep
    <2>3. ASSUME NEW p \in Range0(Segments[s].first, Segments[s].file), data'[p] # data[p]
          PROVE  FALSE
      <3>1. p \in Range0(Segments[k].first, Segments[k].file)
        BY <1>1, <1>3, <2>3, SegmentStep
      <3>2. p \in Range0(Segments[k].first, Segments[k].mem) /\ k \in Kernel
        BY <1>2, <3>1, SegmentFacts DEF Kernel, LoadSegment
      <3>3. p \in Range0(Segments[s].first, Segments[s].mem)
        BY <1>3, <2>3
      <3>4. k # s
        BY <1>1, <1>3, <1>5
      <3>5. Range0(Segments[s].first, Segments[s].mem)
              \cap Range0(Segments[k].first, Segments[k].mem) = {}
        BY <3>2, <3>4 DEF Disjoint
      <3> QED
        BY <3>2, <3>3, <3>5
    <2> QED
      BY <2>1, <2>2, <2>3
  <1> QED
    BY <1>1, <1>2, <1>3, <1>4, <1>5

\* What no step before the kernel is entered does: give back or write a page of
\* the loader's own, but by a stray store.
Keeps ==
    /\ MemoryOK' /\ changes' = changes
    /\ \A p \in Page : type[p] = "loader" => type'[p] = "loader"
    /\ ~wild' => (~wild /\ \A p \in Page : type[p] = "loader" => data'[p] = data[p])

\* A pointer to page q is set to a page that is the loader's own.
Gives(q) == q \in Page => (type'[q] = "loader" /\ (~wild' => data'[q] = Pool))

\* A pool allocation, or its failure.
LEMMA PoolKeeps ==
    ASSUME MemoryOK, wild' = wild, NEW q \in {Null} \cup Page,
           IF q = Null THEN UNCHANGED memory ELSE AllocatePool(q)
    PROVE  Keeps /\ Gives(q)
  <1>1. CASE q \in Page
    <2>1. AllocatePool(q)
      BY <1>1 DEF Null, Page
    <2>2. /\ MemoryOK' /\ type[q] = "free" /\ type'[q] = "loader" /\ data'[q] = Pool
          /\ changes' = changes
          /\ \A p \in Page : p # q => (type'[p] = type[p] /\ data'[p] = data[p])
      BY <1>1, <2>1, PoolStep
    <2> QED
      BY <2>2 DEF Keeps, Gives
  <1>2. CASE q = Null
    BY <1>2 DEF MemoryOK, memory, Null, Page, Keeps, Gives
  <1> QED
    BY <1>1, <1>2

\* A stray store.
LEMMA StrayKeeps ==
    ASSUME MemoryOK, StrayStore,
           UNCHANGED << type, gen, changes >> \/ \E p \in Page : Take(p)
    PROVE  Keeps
  BY StrayStep DEF Keeps

\* An allocation that one of the pointers may be set from.
LEMMA AllocationKeeps ==
    ASSUME PagesInv, NEW q \in {Null, Wild} \cup Page, Keeps, Gives(q),
           k' = k, refused' = refused, whole' = whole,
           {lfb', font'} \subseteq {lfb, font, q}, map' = map \/ (map' = q /\ q # Wild),
           snapshot = << >>, snapshot' = << >>
    PROVE  /\ MemoryOK' /\ {lfb', font'} \subseteq {Null, Wild} \cup Page
           /\ map' \in {Null} \cup Page
           /\ Owned' /\ InMap' /\ Loaded'
  <1>1. /\ MemoryOK /\ Owned /\ Loaded
        /\ {lfb, font} \subseteq {Null, Wild} \cup Page /\ map \in {Null} \cup Page
    BY DEF PagesInv
  <1>2. Loaded'
    BY <1>1, SegmentsKept DEF Keeps
  <1>3. /\ {lfb', font'} \subseteq {Null, Wild} \cup Page /\ map' \in {Null} \cup Page
    BY <1>1
  <1>4. Owned'
    <2> SUFFICES ASSUME NEW p \in Page, p \in {lfb', font', map'}
                 PROVE  type'[p] = "loader" /\ (~wild' => data'[p] = Pool)
      BY DEF Owned
    <2>1. CASE p = q
      BY <2>1 DEF Gives
    <2>2. CASE p \in {lfb, font, map}
      BY <1>1, <2>2 DEF Owned, Keeps
    <2> QED
      BY <2>1, <2>2
  <1> QED
    BY <1>2, <1>3, <1>4 DEF InMap, Keeps

\* A step of the loader keeps PagesInv.
LEMMA PagesStep == PagesInv /\ MenuInv /\ [Next]_vars => PagesInv'
  <1> SUFFICES ASSUME PagesInv, MenuInv, [Next]_vars PROVE PagesInv'
    OBVIOUS
  <1>0. /\ MemoryOK /\ k \in 1 .. (Len(Segments) + 1)
        /\ {whole, refused, wild} \subseteq BOOLEAN /\ failures \in 0 .. MaxFailures
        /\ {headers, lfb, font} \subseteq {Null, Wild} \cup Page /\ map \in {Null} \cup Page
        /\ snapshot \in {<< >>} \cup [Page -> Types] /\ services \in BOOLEAN
        /\ Order /\ Owned /\ InMap /\ Loaded /\ pc \in Places /\ Len(Segments) \in Nat
        /\ MaxFailures \in Nat
    BY LoaderAssumption DEF PagesInv, MenuInv
  <1>0a. Fails => failures' \in 0 .. MaxFailures
    BY <1>0 DEF Fails
  <1>1. CASE /\ UNCHANGED << memory, loaded, map, snapshot >>
             /\ services' \in BOOLEAN /\ Order'
    <2>1. /\ MemoryOK' /\ Owned' /\ InMap'
      BY <1>0, <1>1 DEF memory, loaded, MemoryOK, Owned, InMap
    <2>2. Loaded'
      BY <1>0, <1>1 DEF memory, loaded, kernel, Loaded, Kernel, Disjoint
    <2> QED
      BY <1>0, <1>1, <2>1, <2>2 DEF loaded, kernel, PagesInv
  <1>1a. ASSUME NEW q \in {Null, Wild} \cup Page, Keeps, Gives(q),
                k' = k, refused' = refused, whole' = whole,
                {lfb', font'} \subseteq {lfb, font, q}, map' = map \/ (map' = q /\ q # Wild),
                snapshot = << >>, snapshot' = << >>, services' = services, Order',
                headers' \in {Null, Wild} \cup Page, wild' \in BOOLEAN,
                failures' \in 0 .. MaxFailures
         PROVE  PagesInv'
    <2>1. /\ MemoryOK' /\ {lfb', font'} \subseteq {Null, Wild} \cup Page
          /\ map' \in {Null} \cup Page /\ Owned' /\ InMap' /\ Loaded'
      BY <1>1a, AllocationKeeps
    <2> QED
      BY <1>0, <1>1a, <2>1 DEF PagesInv
  <1>2. CASE OpenKernel
    <2>1. /\ pc = "open" /\ pc' \in {"returned", "segment", "lost"}
          /\ UNCHANGED << k, whole, refused, lfb, font, map, snapshot, services >>
          /\ lfb = Null /\ font = Null /\ map = Null /\ snapshot = << >>
      BY <1>0, <1>2 DEF OpenKernel, StoreFails, At, Goto, Order, Early, Loading, mmap
    <2>2. Order'
      BY <1>0, <2>1 DEF Order, Early, Loading
    <2>3. CASE UNCHANGED << memory, headers, failures, wild >>
      BY <1>0, <1>1a, <2>1, <2>2, <2>3, PoolKeeps DEF Keeps, Gives, Null
    <2>4. ASSUME NEW p \in Page, AllocatePool(p), wild' = wild,
                 \/ headers' = p /\ UNCHANGED failures
                 \/ Fails /\ UNCHANGED headers
          PROVE  PagesInv'
      <3>1. Keeps /\ Gives(p)
        BY <1>0, <2>4, PoolKeeps DEF Null, Page
      <3> QED
        BY <1>0, <1>0a, <1>1a, <2>1, <2>2, <2>4, <3>1
    <2>5. CASE StoreFails("segment") /\ headers' = Wild /\ UNCHANGED << type, gen, changes >>
      <3>1. Keeps /\ Gives(Null) /\ wild' = TRUE /\ Fails
        BY <1>0, <2>5, StrayKeeps DEF StoreFails, StrayStore, Gives, Null, Page
      <3> QED
        BY <1>0, <1>0a, <1>1a, <2>1, <2>2, <2>5, <3>1
    <2>6. \/ UNCHANGED << memory, headers, failures, wild >>
          \/ wild' = wild /\ \E p \in Page :
                /\ AllocatePool(p)
                /\ \/ headers' = p /\ UNCHANGED failures
                   \/ Fails /\ UNCHANGED headers
          \/ StoreFails("segment") /\ headers' = Wild /\ UNCHANGED << type, gen, changes >>
      BY <1>2 DEF OpenKernel
    <2> QED
      BY <2>3, <2>4, <2>5, <2>6
  <1>3. CASE LoadSegment
    <2>1. /\ MemoryOK' /\ k \in DOMAIN Segments /\ k' = k + 1
          /\ {refused', whole'} \subseteq BOOLEAN /\ failures' \in 0 .. MaxFailures
      BY <1>0, <1>3, SegmentStep
    <2>2. k' \in 1 .. (Len(Segments) + 1)
      BY <1>0, <1>3, <2>1 DEF LoadSegment, AtHeader
    <2>3. /\ lfb = Null /\ font = Null /\ map = Null /\ snapshot = << >>
          /\ lfb' = lfb /\ font' = font /\ map' = map /\ snapshot' = snapshot
          /\ services' = services /\ pc' \in {"segment", "lost"} /\ pc = "segment"
          /\ headers' = headers /\ wild' = wild
      BY <1>0, <1>3 DEF LoadSegment, AllocateAndRead, AtHeader, At, Goto, Order, Early, Loading,
                        mmap
    <2>4. Order' /\ Owned' /\ InMap'
      BY <1>0, <2>3 DEF Order, Owned, InMap, Null, Page, Early, Loading
    <2> QED
      BY <1>0, <2>1, <2>2, <2>3, <2>4, <1>3, SegmentsLoaded DEF PagesInv
  <1>4. CASE SkipHeader \/ JunkHeader
    <2>1. /\ UNCHANGED << memory, headers, refused, lfb, font, wild >>
          /\ UNCHANGED << failures, map, snapshot, services >>
          /\ pc = "segment" /\ pc' \in {"segment", "lost"}
          /\ k <= Len(Segments) /\ k' = k + 1 /\ whole' \in BOOLEAN
      BY <1>0, <1>4 DEF SkipHeader, JunkHeader, AtHeader, At, Goto, mmap
    <2>1a. whole' => (whole /\ ~Segments[k].load)
      BY <1>4 DEF SkipHeader, JunkHeader
    <2>2. k' \in 1 .. (Len(Segments) + 1) /\ MemoryOK' /\ Order' /\ Owned' /\ InMap'
      BY <1>0, <2>1 DEF memory, MemoryOK, Order, Owned, InMap, Early, Loading
    <2>3. Loaded'
      <3>1. ASSUME whole', NEW s \in Kernel, s < k + 1
            PROVE  s < k
        BY <1>0, <2>1a, <3>1, SegmentFacts DEF Kernel
      <3> QED
        BY <1>0, <2>1, <2>1a, <3>1 DEF Loaded, Kernel, Disjoint, memory
    <2> QED
      BY <1>0, <2>1, <2>2, <2>3 DEF PagesInv
  <1>5. CASE InitGop
    <2>1. /\ pc = "segment" /\ pc' \in {"font", "lost"} /\ k = Len(Segments) + 1
          /\ UNCHANGED << k, headers, whole, refused, font, map, snapshot, services >>
          /\ font = Null /\ map = Null /\ snapshot = << >>
      BY <1>0, <1>5 DEF InitGop, StoreFails, At, Goto, Order, Early, Loading, mmap, kernel
    <2>2. Order'
      BY <1>0, <2>1 DEF Order, Early, Loading
    <2>3. ASSUME NEW q \in {Null} \cup Page, UNCHANGED << failures, wild >>,
                 IF q = Null THEN UNCHANGED << memory, lfb >> ELSE AllocatePool(q) /\ lfb' = q
          PROVE  PagesInv'
      <3>1. Keeps /\ Gives(q)
        BY <1>0, <2>3, PoolKeeps
      <3> QED
        BY <1>0, <1>1a, <2>1, <2>2, <2>3, <3>1
    <2>4. CASE StoreFails("font") /\ lfb' = Wild /\ UNCHANGED << type, gen, changes >>
      <3>1. Keeps /\ Gives(Wild) /\ wild' = TRUE /\ Fails
        BY <1>0, <2>4, StrayKeeps DEF StoreFails, StrayStore, Gives, Wild, Page
      <3> QED
        BY <1>0, <1>0a, <1>1a, <2>1, <2>2, <2>4, <3>1
    <2>5. \/ /\ UNCHANGED << failures, wild >>
             /\ \E q \in {Null} \cup Page :
                    IF q = Null THEN UNCHANGED << memory, lfb >> ELSE AllocatePool(q) /\ lfb' = q
          \/ StoreFails("font") /\ lfb' = Wild /\ UNCHANGED << type, gen, changes >>
      BY <1>5 DEF InitGop, Null, Page
    <2> QED
      BY <2>3, <2>4, <2>5
  <1>6. CASE LoadFont
    <2>1. /\ pc = "font" /\ pc' \in {"draw", "lost"} /\ k = Len(Segments) + 1 /\ font = Null
          /\ UNCHANGED << k, headers, whole, refused, lfb, map, snapshot, services >>
          /\ map = Null /\ snapshot = << >>
      BY <1>0, <1>6 DEF LoadFont, StoreFails, At, Goto, Order, Early, Loading, mmap, kernel
    <2>2. Order'
      BY <1>0, <2>1 DEF Order, Early, Loading
    <2>3. ASSUME NEW q \in {Null} \cup Page, UNCHANGED << failures, wild >>,
                 IF q = Null THEN UNCHANGED << memory, font >>
                             ELSE AllocatePool(q) /\ font' \in {q, Null}
          PROVE  PagesInv'
      <3>1. Keeps /\ Gives(q)
        BY <1>0, <2>3, PoolKeeps
      <3> QED
        BY <1>0, <1>1a, <2>1, <2>2, <2>3, <3>1
    <2>4. ASSUME StoreFails("draw"), NEW p \in Page, Take(p), font' \in {p, Null, Wild}
          PROVE  PagesInv'
      <3>1. Keeps /\ wild' = TRUE /\ Fails
        BY <1>0, <2>4, StrayKeeps DEF StoreFails, StrayStore
      <3>2. type'[p] = "loader"
        BY <1>0, <2>4 DEF Take, MemoryOK
      <3>3. Gives(font') /\ font' \in {Null, Wild} \cup Page
        BY <2>4, <3>1, <3>2 DEF Gives, Null, Wild, Page
      <3> QED
        BY <1>0, <1>0a, <1>1a, <2>1, <2>2, <2>4, <3>1, <3>3
    <2>5. CASE StoreFails("draw") /\ UNCHANGED << type, gen, changes >> /\ font' \in {Null, Wild}
      <3>1. Keeps /\ wild' = TRUE /\ Fails
        BY <1>0, <2>5, StrayKeeps DEF StoreFails, StrayStore
      <3>2. Gives(font')
        BY <2>5 DEF Gives, Null, Wild, Page
      <3> QED
        BY <1>0, <1>0a, <1>1a, <2>1, <2>2, <2>5, <3>1, <3>2
    <2>6. \/ /\ UNCHANGED << failures, wild >>
             /\ \E q \in {Null} \cup Page :
                    IF q = Null THEN UNCHANGED << memory, font >>
                                ELSE AllocatePool(q) /\ font' \in {q, Null}
          \/ /\ StoreFails("draw")
             /\ \/ \E p \in Page : Take(p) /\ font' \in {p, Null, Wild}
                \/ UNCHANGED << type, gen, changes >> /\ font' \in {Null, Wild}
      BY <1>6 DEF LoadFont, Null, Page
    <2> QED
      BY <2>3, <2>4, <2>5, <2>6
  <1>6a. CASE Menu \/ ReadKeyStroke
    <2>1. /\ UNCHANGED << type, gen, changes, mmap, services >>
          /\ UNCHANGED << k, headers, whole, refused, lfb, font, failures >>
          /\ UNCHANGED << data, wild >> \/ StrayStore
      BY <1>6a DEF Menu, DrawMenu, SelectReboot, SelectBoot, ChooseBoot, ChooseReboot,
                   ChooseLegacy, IgnoreKey, ReadKeyStroke, Draw, memory, loaded, kernel
    <2>2. pc \in {"draw", "key", "act"} /\ pc' \in {"key", "act", "size", "reset", "lost"}
      BY <1>6a DEF Menu, DrawMenu, SelectReboot, SelectBoot, ChooseBoot, ChooseReboot,
                   ChooseLegacy, IgnoreKey, ReadKeyStroke, Draw, At, Goto
    <2>3. Order' /\ snapshot = << >> /\ UNCHANGED << map, snapshot, services >>
      BY <1>0, <2>1, <2>2 DEF Order, Early, Loading, mmap
    <2>4. Keeps /\ Gives(Null) /\ wild' \in BOOLEAN
      <3>1. CASE UNCHANGED << data, wild >>
        BY <1>0, <2>1, <3>1 DEF Keeps, Gives, MemoryOK, Null, Page
      <3>2. CASE StrayStore
        BY <1>0, <2>1, <3>2, StrayKeeps DEF StrayStore, Gives, Null, Page
      <3> QED
        BY <2>1, <3>1, <3>2
    <2> QED
      BY <1>0, <1>1a, <2>1, <2>3, <2>4
  <1>7. CASE MapSize
    BY <1>0, <1>1, <1>7 DEF MapSize, At, Goto, Order, Early, Loading, loaded, kernel
  <1>8. CASE MapPool
    <2>1. /\ pc = "pool" /\ pc' = "map" /\ map = Null /\ snapshot = << >>
          /\ UNCHANGED << k, headers, whole, refused, lfb, font, failures, wild >>
          /\ UNCHANGED << snapshot, services >> /\ k = Len(Segments) + 1
      BY <1>0, <1>8 DEF MapPool, At, Goto, Order, Early, Loading, loaded, kernel
    <2>2. Order'
      BY <1>0, <2>1 DEF Order, Early, Loading
    <2>3. PICK q \in {Null} \cup Page :
            IF q = Null THEN UNCHANGED << memory, map >> ELSE AllocatePool(q) /\ map' = q
      BY <1>8 DEF MapPool, Null, Page
    <2>4. Keeps /\ Gives(q) /\ q # Wild
      BY <1>0, <2>1, <2>3, PoolKeeps DEF Wild, Null, Page
    <2> QED
      BY <1>0, <1>1a, <2>1, <2>2, <2>3, <2>4
  <1>9. CASE GetMap
    <2>1. /\ UNCHANGED << memory, loaded, map, services >> /\ pc = "map" /\ pc' = "rsdp"
          /\ snapshot' \in {snapshot, type}
      BY <1>9 DEF GetMap, At, Goto
    <2>2. Order'
      BY <1>0, <2>1 DEF Order, Early, Loading, loaded, kernel
    <2>3. MemoryOK' /\ Owned' /\ InMap' /\ snapshot' \in {<< >>} \cup [Page -> Types]
      BY <1>0, <2>1 DEF memory, loaded, MemoryOK, Owned, InMap
    <2>4. Loaded'
      BY <1>0, <2>1 DEF memory, loaded, kernel, Loaded, Kernel, Disjoint
    <2> QED
      BY <1>0, <2>1, <2>2, <2>3, <2>4 DEF loaded, kernel, PagesInv
  <1>10. CASE StartSearch \/ Search \/ SearchEnds
    BY <1>0, <1>1, <1>10
    DEF StartSearch, Search, SearchEnds, At, Goto, Order, Early, Loading, loaded, kernel, mmap
  <1>11. CASE ExitBootServices
    BY <1>0, <1>1, <1>11
    DEF ExitBootServices, At, Goto, Order, Early, Loading, loaded, kernel, mmap
  <1>12. CASE MapChanges
    <2>1. /\ MemoryOK'
          /\ \A q \in Page : type'[q] = "loader" <=> type[q] = "loader"
          /\ \A q \in Page : type[q] = "loader" => data'[q] = data[q]
      BY <1>0, <1>12, ChangeStep
    <2>2. UNCHANGED << pc, loaded, map, snapshot, services >>
      BY <1>12 DEF MapChanges, mmap
    <2>3. Loaded'
      BY <1>0, <2>1, <2>2, SegmentsKept DEF loaded, kernel
    <2>4. Order' /\ Owned' /\ InMap'
      BY <1>0, <2>1, <2>2 DEF Order, Early, Loading, Owned, InMap, loaded, kernel
    <2> QED
      BY <1>0, <2>1, <2>2, <2>3, <2>4 DEF PagesInv, loaded, kernel
  <1>13. CASE UNCHANGED vars
    BY <1>0, <1>1, <1>13 DEF vars, loaded, kernel, mmap, Order
  <1> QED
    BY <1>2, <1>3, <1>4, <1>5, <1>6, <1>6a, <1>7, <1>8, <1>9, <1>10, <1>11, <1>12, <1>13
    DEF Next, Loader, Load, HandOver

-----------------------------------------------------------------------------
(***************************************************************************)
(* The memory map                                                          *)
(***************************************************************************)
\* The key is current unless the firmware changed the map behind it.
KeyInv ==
    /\ mapKey \in {Null} \cup Nat /\ mapSize \in Nat /\ room \in Nat
    /\ seen \in 0 .. changes
    /\ (pc # "entered" /\ snapshot # << >> /\ changes = seen) => mapKey = gen
    /\ ServicesExited

\* A set with an element more.
LEMMA OneMore ==
    ASSUME NEW S, NEW e, IsFiniteSet(S)
    PROVE  /\ IsFiniteSet(S \cup {e}) /\ Cardinality(S \cup {e}) \in Nat
           /\ Cardinality(S \cup {e}) <= Cardinality(S) + 1
  <1>1. Cardinality(S) \in Nat
    BY FS_CardinalityType
  <1>2. /\ IsFiniteSet(S \cup {e})
        /\ Cardinality(S \cup {e}) = IF e \in S THEN Cardinality(S) ELSE Cardinality(S) + 1
    BY FS_AddElement
  <1> QED
    BY <1>1, <1>2

\* A part of a set is no larger.
LEMMA PartSmaller ==
    ASSUME NEW S, NEW T, IsFiniteSet(S), T \subseteq S
    PROVE  Cardinality(T) <= Cardinality(S)
  <1>1. T \in SUBSET S
    OBVIOUS
  <1> QED
    BY <1>1, FS_Subset

\* One page of another type makes at most two more descriptors.
LEMMA OnePage ==
    ASSUME NEW t, NEW u, NEW p \in Page, \A q \in Page : q # p => u[q] = t[q]
    PROVE  Descriptors(u) \in Nat /\ Descriptors(t) \in Nat /\ Descriptors(u) <= Descriptors(t) + 2
  <1> DEFINE D(f) == {q \in 1 .. (Pages - 1) : f[q] # f[q - 1]}
  <1>1. Pages \in Nat \ {0} /\ p \in Int
    BY LoaderAssumption DEF Page
  <1>2. IsFiniteSet(1 .. (Pages - 1))
    BY <1>1, FS_Interval
  <1>3. \A f : IsFiniteSet(D(f)) /\ Cardinality(D(f)) \in Nat
    <2> TAKE f
    <2>1. D(f) \subseteq 1 .. (Pages - 1)
      OBVIOUS
    <2>2. IsFiniteSet(D(f))
      BY <1>2, <2>1, FS_Subset
    <2> QED
      BY <2>2, FS_CardinalityType
  <1>4. D(u) \subseteq (D(t) \cup {p}) \cup {p + 1}
    <2> SUFFICES ASSUME NEW q \in D(u), q # p, q # p + 1 PROVE q \in D(t)
      OBVIOUS
    <2>1. q \in 1 .. (Pages - 1) /\ u[q] # u[q - 1]
      OBVIOUS
    <2>2. q \in Page /\ q - 1 \in Page /\ q - 1 # p
      BY <1>1, <2>1 DEF Page
    <2>3. u[q] = t[q] /\ u[q - 1] = t[q - 1]
      BY <2>2
    <2> QED
      BY <2>1, <2>3
  <1> HIDE DEF D
  <1>5. /\ IsFiniteSet(D(t) \cup {p}) /\ Cardinality(D(t) \cup {p}) \in Nat
        /\ Cardinality(D(t) \cup {p}) <= Cardinality(D(t)) + 1
    BY <1>3, OneMore
  <1>6. /\ IsFiniteSet((D(t) \cup {p}) \cup {p + 1})
        /\ Cardinality((D(t) \cup {p}) \cup {p + 1}) \in Nat
        /\ Cardinality((D(t) \cup {p}) \cup {p + 1}) <= Cardinality(D(t) \cup {p}) + 1
    BY <1>5, OneMore
  <1>7. Cardinality(D(u)) <= Cardinality((D(t) \cup {p}) \cup {p + 1})
    BY <1>4, <1>6, PartSmaller
  <1>8. Cardinality(D(u)) <= Cardinality(D(t)) + 2
    BY <1>3, <1>5, <1>6, <1>7
  <1>9. Descriptors(u) = 1 + Cardinality(D(u)) /\ Descriptors(t) = 1 + Cardinality(D(t))
    BY DEF Descriptors, D
  <1>10. Cardinality(D(u)) \in Nat /\ Cardinality(D(t)) \in Nat
    BY <1>3
  <1> QED
    BY <1>8, <1>9, <1>10

\* A map has a descriptor.
LEMMA DescriptorsType ==
    ASSUME NEW t
    PROVE  Descriptors(t) \in Nat
  <1>1. 0 \in Page
    BY LoaderAssumption DEF Page
  <1> QED
    BY <1>1, OnePage

\* The size GetMemoryMap gave, against the map as it is; the allocation of the
\* buffer comes between.
SizeInv ==
    changes = 0 =>
        /\ pc = "pool" => Descriptors(type) <= mapSize
        /\ pc = "map" /\ map # Null =>
            room = mapSize /\ Descriptors(type) <= mapSize + 2
        /\ pc \in {"rsdp", "search", "exit", "entered"} /\ map # Null =>
            IF snapshot # << >>
            THEN mapSize = Descriptors(snapshot) /\ mapSize <= room
            ELSE mapSize - room \in {1, 2}

\* A step of the loader keeps KeyInv (main.c:352-383).
LEMMA KeyStep == KeyInv /\ PagesInv /\ [Next]_vars => KeyInv'
  <1> SUFFICES ASSUME KeyInv, PagesInv, [Next]_vars PROVE KeyInv'
    OBVIOUS
  <1>0. /\ mapKey \in {Null} \cup Nat /\ mapSize \in Nat /\ room \in Nat
        /\ seen \in 0 .. changes /\ gen \in Nat /\ changes \in Nat
        /\ (pc # "entered" /\ snapshot # << >> /\ changes = seen) => mapKey = gen
        /\ ServicesExited /\ services \in BOOLEAN
        /\ pc \in Early \cup {"map"} => snapshot = << >>
    BY LoaderAssumption DEF KeyInv, PagesInv, MemoryOK, Order
  <1>1. CASE UNCHANGED << gen, changes, mapKey, mapSize, room, seen, snapshot, services >>
             /\ (pc' = "entered" <=> pc = "entered")
    BY <1>0, <1>1 DEF KeyInv, ServicesExited
  <1>2. CASE /\ snapshot = << >> /\ snapshot' = << >> /\ changes' = changes /\ seen' = seen
             /\ mapKey' \in {mapKey, gen} /\ mapSize' \in Nat /\ room' \in Nat
    BY <1>0, <1>2 DEF KeyInv, ServicesExited
  <1>3. CASE Load \/ MapPool \/ MapSize
    <2>1. pc \in Early /\ snapshot' = snapshot /\ seen' = seen /\ mapKey' \in {mapKey, gen}
      BY <1>3 DEF Load, OpenKernel, LoadSegment, SkipHeader, JunkHeader, AtHeader, InitGop,
                  LoadFont, MapPool, MapSize, At, Early, Loading, mmap
    <2>2. changes' = changes
      BY <1>3 DEF Load, OpenKernel, LoadSegment, SkipHeader, JunkHeader, InitGop, LoadFont,
                  MapPool, MapSize, AllocatePool, Take, memory
    <2>3. mapSize' \in Nat /\ room' \in Nat
      BY <1>0, <1>3, DescriptorsType
      DEF Load, OpenKernel, LoadSegment, SkipHeader, JunkHeader, InitGop, LoadFont, MapPool,
          MapSize, mmap
    <2> QED
      BY <1>0, <1>2, <2>1, <2>2, <2>3
  <1>4. CASE Menu \/ ReadKeyStroke
    BY <1>1, <1>4 DEF Menu, DrawMenu, SelectReboot, SelectBoot, ChooseBoot, ChooseReboot,
                      ChooseLegacy, IgnoreKey, ReadKeyStroke, Draw, At, Goto, memory, mmap
  <1>5. CASE GetMap
    <2>1. /\ pc = "map" /\ pc' = "rsdp" /\ seen' = changes /\ changes' = changes /\ gen' = gen
          /\ snapshot = << >> /\ services' = services /\ room' = room
          /\ (snapshot' # << >> => mapKey' = gen) /\ mapKey' \in {mapKey, gen}
          /\ mapSize' \in {mapSize, Descriptors(type)}
      BY <1>0, <1>5 DEF GetMap, At, Goto, memory
    <2> QED
      BY <1>0, <2>1, DescriptorsType DEF KeyInv, ServicesExited
  <1>6. CASE StartSearch \/ Search \/ SearchEnds
    BY <1>1, <1>6 DEF StartSearch, Search, SearchEnds, At, Goto, memory, mmap
  <1>7. CASE ExitBootServices
    <2>1. pc = "exit" /\ UNCHANGED << memory, mmap >>
      BY <1>7 DEF ExitBootServices, At
    <2>2. pc' = "entered" => (services' => mapKey # gen)
      <3>1. CASE font # Null
        BY <1>7, <3>1 DEF ExitBootServices
      <3>2. CASE font = Null
        BY <1>7, <3>2 DEF ExitBootServices, Goto
      <3> QED
        BY <3>1, <3>2
    <2>3. UNCHANGED << gen, changes, mapKey, mapSize, room, seen, snapshot >>
      BY <2>1 DEF memory, mmap
    <2>4. (snapshot # << >> /\ changes = seen) => mapKey = gen
      BY <1>0, <2>1
    <2>5. ServicesExited'
      BY <1>0, <2>2, <2>3, <2>4 DEF ServicesExited
    <2> QED
      BY <1>0, <2>3, <2>4, <2>5 DEF KeyInv
  <1>8. CASE MapChanges
    <2>1. /\ pc # "entered" /\ pc' = pc /\ changes' = changes + 1
          /\ UNCHANGED << mapKey, mapSize, room, seen, snapshot, services >>
      BY <1>8 DEF MapChanges, mmap
    <2> QED
      BY <1>0, <2>1 DEF KeyInv, ServicesExited
  <1>9. CASE UNCHANGED vars
    BY <1>1, <1>9 DEF vars, memory, mmap
  <1> QED
    BY <1>3, <1>4, <1>5, <1>6, <1>7, <1>8, <1>9 DEF Next, Loader, HandOver

\* A step of the loader keeps SizeInv (main.c:355-363).
LEMMA SizeStep == SizeInv /\ KeyInv /\ PagesInv /\ [Next]_vars => SizeInv'
  <1> SUFFICES ASSUME SizeInv, KeyInv, PagesInv, [Next]_vars, changes' = 0 PROVE SizeInv'
    BY DEF SizeInv
  <1>0. /\ mapSize \in Nat /\ room \in Nat /\ changes \in Nat
        /\ type \in [Page -> Types] /\ Descriptors(type) \in Nat
        /\ pc \in Early \cup {"map"} => snapshot = << >>
        /\ pc \in Early => map = Null
    BY DescriptorsType, LoaderAssumption DEF KeyInv, PagesInv, MemoryOK, Order
  <1>1. CASE /\ UNCHANGED << type, changes, map, snapshot, mapSize, room >>
             /\ \/ pc' = pc
                \/ pc' \notin {"pool", "map", "rsdp", "search", "exit", "entered"}
                \/ /\ pc \in {"rsdp", "search", "exit"}
                   /\ pc' \in {"rsdp", "search", "exit", "entered"}
    BY <1>1 DEF SizeInv
  <1>2. CASE Load
    <2>1. pc' \in {"segment", "font", "draw", "returned", "lost"}
      BY <1>2 DEF Load, OpenKernel, LoadSegment, AllocateAndRead, SkipHeader, JunkHeader,
                  AtHeader, InitGop, LoadFont, StoreFails, At, Goto
    <2> QED
      BY <2>1 DEF SizeInv
  <1>3. CASE Menu \/ ReadKeyStroke
    <2>1. pc' \in {"key", "act", "size", "reset", "lost"}
      BY <1>3 DEF Menu, DrawMenu, SelectReboot, SelectBoot, ChooseBoot, ChooseReboot,
                  ChooseLegacy, IgnoreKey, ReadKeyStroke, Draw, At, Goto
    <2> QED
      BY <2>1 DEF SizeInv
  <1>4. CASE MapSize
    <2>1. /\ pc = "size" /\ pc' = "pool" /\ type' = type
          /\ mapSize' = IF mapSize < Descriptors(type) THEN Descriptors(type) ELSE mapSize
      BY <1>4 DEF MapSize, At, Goto, memory
    <2> QED
      BY <1>0, <2>1 DEF SizeInv
  <1>5. CASE MapPool
    <2>1. /\ pc = "pool" /\ pc' = "map" /\ mapSize' = mapSize /\ map = Null
      BY <1>0, <1>5 DEF MapPool, At, Goto, Early
    <2>2. CASE UNCHANGED << memory, map, room >>
      BY <2>1, <2>2 DEF SizeInv
    <2>3. ASSUME NEW p \in Page, AllocatePool(p), map' = p, room' = mapSize
          PROVE  SizeInv'
      <3>1. changes' = changes /\ \A q \in Page : q # p => type'[q] = type[q]
        BY <2>3, PoolStep DEF PagesInv
      <3>2. Descriptors(type') \in Nat /\ Descriptors(type') <= Descriptors(type) + 2
        BY <3>1, OnePage
      <3>3. Descriptors(type) <= mapSize
        BY <2>1, <3>1 DEF SizeInv
      <3> QED
        BY <1>0, <2>1, <2>3, <3>2, <3>3 DEF SizeInv
    <2> QED
      BY <1>5, <2>2, <2>3 DEF MapPool
  <1>6. CASE GetMap
    <2>1. /\ pc = "map" /\ pc' = "rsdp" /\ UNCHANGED << type, changes, map, room >>
          /\ snapshot = << >>
      BY <1>0, <1>6 DEF GetMap, At, Goto, memory
    <2>2. ASSUME map # Null
          PROVE  room = mapSize /\ Descriptors(type) <= mapSize + 2
      BY <2>1, <2>2 DEF SizeInv
    <2>3. type # << >>
      <3>1. 0 \in DOMAIN type
        BY <1>0, LoaderAssumption DEF Page
      <3> QED
        BY <3>1
    <2>4. CASE map # Null /\ mapSize >= Descriptors(type)
      BY <1>0, <1>6, <2>1, <2>2, <2>3, <2>4 DEF GetMap, SizeInv
    <2>5. CASE map # Null /\ mapSize < Descriptors(type)
      <3>1. snapshot' = << >> /\ mapSize' = Descriptors(type)
        BY <1>0, <1>6, <2>1, <2>5 DEF GetMap
      <3>2. mapSize' - room' \in {1, 2}
        BY <1>0, <2>1, <2>2, <2>5, <3>1
      <3> QED
        BY <2>1, <3>1, <3>2 DEF SizeInv
    <2>6. CASE map = Null
      BY <2>1, <2>6 DEF SizeInv
    <2> QED
      BY <1>0, <2>4, <2>5, <2>6
  <1>7. CASE StartSearch \/ Search \/ SearchEnds \/ ExitBootServices
    BY <1>1, <1>7
    DEF StartSearch, Search, SearchEnds, ExitBootServices, At, Goto, memory, mmap
  <1>8. CASE MapChanges
    BY <1>0, <1>8 DEF MapChanges
  <1>9. CASE UNCHANGED vars
    BY <1>1, <1>9 DEF vars, memory, loaded, mmap
  <1> QED
    BY <1>2, <1>3, <1>4, <1>5, <1>6, <1>7, <1>8, <1>9 DEF Next, Loader, HandOver

-----------------------------------------------------------------------------
(***************************************************************************)
(* The search for the RSDP                                                 *)
(***************************************************************************)
Acpi == RSDP!Entry("ACPI_20_TABLE_GUID") \cup RSDP!Entry("ACPI_TABLE_GUID")

\* What the iterations done so far have found.
SearchInv ==
    /\ pc \in {"search", "exit", "entered"} =>
        /\ table \in RSDP!Tables /\ idx \in 0 .. Len(table)
        /\ RSDP!OnlyRsdp
        /\ \A e \in Acpi :
            (e < idx /\ e + e < Len(table) /\ e + e \notin RSDP!Entry("ACPI_20_TABLE_GUID"))
                => rsdp # RSDP!NULL
    /\ pc \in {"exit", "entered"} => idx = Len(table)

\* A function on an interval is a sequence.
LEMMA IntervalSeq ==
    ASSUME NEW S, NEW n \in Nat, NEW f \in [1 .. n -> S]
    PROVE  f \in Seq(S)
  BY SeqDef

\* The entries of a configuration table.
LEMMA TableFacts ==
    ASSUME NEW t \in RSDP!Tables
    PROVE  /\ Len(t) \in Nat /\ DOMAIN t = 1 .. Len(t)
           /\ \A e \in DOMAIN t : t[e].guid \in RSDP!Guids
                                /\ (t[e].signed <=> t[e].guid # "other")
  <1>1. PICK n \in 0 .. MaxEntries : t \in [1 .. n -> [guid : RSDP!Guids, signed : BOOLEAN]]
    BY DEF RSDP!Tables
  <1>2. n \in Nat
    BY <1>1, LoaderAssumption
  <1>3. t \in Seq([guid : RSDP!Guids, signed : BOOLEAN])
    BY <1>1, <1>2, IntervalSeq
  <1>4. DOMAIN t = 1 .. Len(t) /\ Len(t) \in Nat
    BY <1>3, LenProperties
  <1>5. \A e \in DOMAIN t : t[e].guid \in RSDP!Guids
    BY <1>1
  <1> QED
    BY <1>4, <1>5 DEF RSDP!Tables

\* An iteration of the search (main.c:370-378).
LEMMA IterationStep ==
    ASSUME SearchInv, pc = "search", RSDP!Iterate, pc' = pc
    PROVE  SearchInv'
  <1>1. /\ table \in RSDP!Tables /\ idx \in 0 .. Len(table) /\ RSDP!OnlyRsdp
        /\ \A e \in Acpi :
            (e < idx /\ e + e < Len(table) /\ e + e \notin RSDP!Entry("ACPI_20_TABLE_GUID"))
                => rsdp # RSDP!NULL
    BY DEF SearchInv
  <1>2. /\ Len(table) \in Nat /\ DOMAIN table = 1 .. Len(table)
        /\ \A e \in DOMAIN table : table[e].guid \in RSDP!Guids
                                 /\ (table[e].signed <=> table[e].guid # "other")
    BY <1>1, TableFacts
  <1>3. idx < Len(table) /\ idx' = idx + 1 /\ table' = table
    BY DEF RSDP!Iterate
  <1>4. PICK guid \in RSDP!GuidAt(idx + idx) :
          rsdp' = IF RSDP!CompareGuid(guid, "ACPI_20_TABLE_GUID") # 0 /\ table[idx + 1].signed
                  THEN idx ELSE rsdp
    BY DEF RSDP!Iterate
  <1>5. idx' \in 0 .. Len(table) /\ idx \in Nat /\ idx + 1 \in DOMAIN table
    BY <1>1, <1>2, <1>3
  <1>6. rsdp' \in {rsdp, idx}
    BY <1>4
  <1>7. ASSUME rsdp' # rsdp
        PROVE  idx \in Acpi
    <2>1. table[idx + 1].signed
      BY <1>4, <1>7
    <2>2. table[idx + 1].guid \in {"ACPI_20_TABLE_GUID", "ACPI_TABLE_GUID"}
      BY <1>2, <1>5, <2>1 DEF RSDP!Guids
    <2> QED
      BY <1>3, <1>5, <2>2, <1>1, <1>2 DEF Acpi, RSDP!Entry
  <1>8. RSDP!OnlyRsdp'
    BY <1>1, <1>3, <1>6, <1>7 DEF RSDP!OnlyRsdp, Acpi, RSDP!Entry
  <1>9. ASSUME NEW e \in Acpi, e < idx + 1, e + e < Len(table),
               e + e \notin RSDP!Entry("ACPI_20_TABLE_GUID")
        PROVE  rsdp' # RSDP!NULL
    <2>1. e \in 0 .. (Len(table) - 1)
      BY DEF Acpi, RSDP!Entry
    <2>2. CASE e < idx
      BY <1>1, <1>5, <1>6, <1>9, <2>2 DEF RSDP!NULL
    <2>3. CASE e = idx
      <3>1. table[idx + 1].guid # "other" /\ table[idx + 1].signed
        BY <1>2, <1>5, <2>3 DEF Acpi, RSDP!Entry
      <3>2. guid = table[(idx + idx) + 1].guid
        BY <1>2, <1>4, <1>5, <1>9, <2>3 DEF RSDP!GuidAt
      <3>3. guid # "ACPI_20_TABLE_GUID"
        BY <1>2, <1>5, <1>9, <2>3, <3>2 DEF RSDP!Entry
      <3>4. rsdp' = idx
        BY <1>4, <3>1, <3>3 DEF RSDP!CompareGuid
      <3> QED
        BY <1>5, <3>4 DEF RSDP!NULL
    <2> QED
      BY <1>5, <1>9, <2>1, <2>2, <2>3
  <1>10. Acpi' = Acpi /\ RSDP!Entry("ACPI_20_TABLE_GUID")' = RSDP!Entry("ACPI_20_TABLE_GUID")
    BY <1>3 DEF Acpi, RSDP!Entry
  <1> QED
    BY <1>1, <1>3, <1>5, <1>8, <1>9, <1>10 DEF SearchInv

\* A step of the loader keeps SearchInv.
LEMMA SearchStep == SearchInv /\ MenuInv /\ [Next]_vars => SearchInv'
  <1> SUFFICES ASSUME SearchInv, MenuInv, [Next]_vars PROVE SearchInv'
    OBVIOUS
  <1>1. CASE /\ pc' = pc \/ pc' \notin {"search", "exit", "entered"}
             /\ UNCHANGED << table, idx, rsdp >>
    BY <1>1 DEF SearchInv, Acpi, RSDP!Entry, RSDP!OnlyRsdp
  <1>2. CASE Load
    BY <1>1, <1>2 DEF Load, OpenKernel, LoadSegment, AllocateAndRead, SkipHeader, JunkHeader,
                      AtHeader, InitGop, LoadFont, StoreFails, At, Goto, search
  <1>3. CASE Menu \/ ReadKeyStroke
    BY <1>1, <1>3 DEF Menu, DrawMenu, SelectReboot, SelectBoot, ChooseBoot, ChooseReboot,
                      ChooseLegacy, IgnoreKey, ReadKeyStroke, Draw, At, Goto, search
  <1>4. CASE MapSize \/ MapPool \/ GetMap
    BY <1>1, <1>4 DEF MapSize, MapPool, GetMap, At, Goto, search
  <1>5. CASE StartSearch
    <2>1. /\ pc' = "search" /\ table' \in RSDP!Tables /\ idx' = 0 /\ rsdp' = Null
      BY <1>5, LoaderAssumption DEF StartSearch, Goto
    <2>2. Len(table') \in Nat
      BY <2>1, TableFacts
    <2>3. \A e \in Acpi' : ~(e < idx')
      BY <2>1, <2>2 DEF Acpi, RSDP!Entry
    <2> QED
      BY <2>1, <2>2, <2>3 DEF SearchInv, RSDP!OnlyRsdp, Null, RSDP!NULL
  <1>6. CASE Search
    BY <1>6, IterationStep DEF Search, At
  <1>7. CASE SearchEnds
    <2>1. /\ pc = "search" /\ pc' = "exit" /\ idx >= Len(table) /\ UNCHANGED << table, idx, rsdp >>
      BY <1>7 DEF SearchEnds, At, Goto, search
    <2>2. idx \in 0 .. Len(table) /\ Len(table) \in Nat
      BY <2>1, TableFacts DEF SearchInv
    <2>3. idx = Len(table)
      BY <2>1, <2>2
    <2> QED
      BY <2>1, <2>3 DEF SearchInv, Acpi, RSDP!Entry, RSDP!OnlyRsdp
  <1>8. CASE ExitBootServices
    <2>1. pc = "exit" /\ pc' \in {"entered", "returned"} /\ UNCHANGED << table, idx, rsdp >>
      BY <1>8 DEF ExitBootServices, At, Goto, search
    <2> QED
      BY <2>1 DEF SearchInv, Acpi, RSDP!Entry, RSDP!OnlyRsdp
  <1>9. CASE MapChanges \/ UNCHANGED vars
    BY <1>1, <1>9 DEF MapChanges, vars, search
  <1> QED
    BY <1>2, <1>3, <1>4, <1>5, <1>6, <1>7, <1>8, <1>9 DEF Next, Loader, HandOver

-----------------------------------------------------------------------------
(***************************************************************************)
(* Theorems                                                                *)
(***************************************************************************)
LoaderInv == MenuInv /\ PagesInv /\ KeyInv /\ SizeInv /\ SearchInv

\* The state in which the firmware calls efi_main.
LEMMA InitLoader == Init => LoaderInv
  <1> SUFFICES ASSUME Init PROVE LoaderInv
    OBVIOUS
  <1>1. MenuInv
    BY DEF Init, MenuInv, MenuShowsEntry, Places, Loading, Keys, Boot, Reboot
  <1>2. PagesInv
    <2>1. /\ pc = "open" /\ k = 1 /\ refused = FALSE /\ whole = TRUE /\ wild = FALSE
          /\ failures = 0 /\ headers = Null /\ lfb = Null /\ font = Null /\ map = Null
          /\ snapshot = << >> /\ services = TRUE
      BY DEF Init
    <2>2. MemoryOK
      BY LoaderAssumption DEF Init, MemoryOK, Types, Writers, Page
    <2>3. k \in 1 .. (Len(Segments) + 1)
      BY <2>1, LoaderAssumption
    <2>4. Order /\ Owned /\ InMap
      BY <2>1 DEF Order, Owned, InMap, Early, Loading, Null, Page
    <2>5. Loaded
      BY <2>1, SegmentFacts DEF Loaded, Kernel
    <2> QED
      <3>1. failures \in 0 .. MaxFailures
        BY <2>1, LoaderAssumption
      <3> QED
        BY <2>1, <2>2, <2>3, <2>4, <2>5, <3>1 DEF PagesInv
  <1>3. KeyInv
    BY LoaderAssumption DEF Init, KeyInv, ServicesExited
  <1>4. SizeInv /\ SearchInv
    BY DEF Init, SizeInv, SearchInv
  <1> QED
    BY <1>1, <1>2, <1>3, <1>4 DEF LoaderInv

\* The inductive invariant of the boot loader.
THEOREM LoaderInvariant == Spec => []LoaderInv
  <1>1. LoaderInv /\ [Next]_vars => LoaderInv'
    BY MenuStep, PagesStep, KeyStep, SizeStep, SearchStep DEF LoaderInv
  <1> QED
    BY <1>1, InitLoader, PTL DEF Spec

\* Every variable keeps its type; no action of the loader leads out of the
\* places of efi_main (main.c:266-389).
THEOREM LoaderTypeCorrect == Spec => []TypeOK
  <1>1. LoaderInv => TypeOK
    <2> SUFFICES ASSUME LoaderInv PROVE TypeOK
      OBVIOUS
    <2>1. seen \in 0 .. MaxChanges
      BY LoaderAssumption DEF LoaderInv, PagesInv, MemoryOK, KeyInv
    <2> QED
      BY <2>1 DEF LoaderInv, MenuInv, Places, PagesInv, MemoryOK, Types, Writers, KeyInv, TypeOK
  <1> QED
    BY <1>1, LoaderInvariant, PTL

\* The menu's screen and the entry chosen agree, for any keys and any value Key
\* starts from (main.c:317-345).
THEOREM MenuIsConsistent == Spec => []MenuShowsEntry
  BY LoaderInvariant, PTL DEF LoaderInv, MenuInv

\* The kernel's segments stay what was read from its file, for any list of
\* program headers whose segments do not overlap, any number of failures that
\* spare the segments, and whatever the firmware takes for itself
\* (main.c:294-306).
THEOREM KernelStaysIntact == Spec => []KernelIntact
  <1>1. LoaderInv => KernelIntact
    <2> SUFFICES ASSUME LoaderInv, pc = "entered", whole, ~refused, ~wild, Disjoint,
                        NEW s \in Kernel
                 PROVE  /\ \A p \in Range0(Segments[s].first, Segments[s].file) : data[p] = s
                        /\ snapshot # << >> =>
                            \A p \in Range0(Segments[s].first, Segments[s].mem) :
                                snapshot[p] = "loader"
      BY DEF KernelIntact
    <2>1. s \in 1 .. Len(Segments) /\ Range0(Segments[s].first, Segments[s].mem) \subseteq Page
      BY SegmentFacts DEF Kernel
    <2>2. Loaded /\ InMap /\ k = Len(Segments) + 1
      BY DEF LoaderInv, PagesInv, Order
    <2>3. s < k
      BY <2>1, <2>2, LoaderAssumption
    <2> QED
      BY <2>1, <2>2, <2>3 DEF Loaded, InMap
  <1> QED
    BY <1>1, LoaderInvariant, PTL

\* What AllocatePool gave for the kernel lies on pages its map reserves, after
\* any failures (main.c:51, :101-122, :356-384).
THEOREM HandedPagesStay == Spec => []HandedPagesReserved
  <1>1. LoaderInv => HandedPagesReserved
    <2> SUFFICES ASSUME LoaderInv, snapshot # << >>, NEW p \in {lfb, font, map} \cap Page
                 PROVE  snapshot[p] = "loader" /\ (~wild => data[p] = Pool)
      BY DEF HandedPagesReserved
    <2>1. p \in Page /\ Owned /\ InMap
      BY DEF LoaderInv, PagesInv
    <2> QED
      BY <2>1 DEF Owned, InMap
  <1> QED
    BY <1>1, LoaderInvariant, PTL

\* Boot services end unless the firmware changed the map or there is none
\* (main.c:357-383).
THEOREM BootServicesEnd == Spec => []ServicesExited
  BY LoaderInvariant, PTL DEF LoaderInv, KeyInv

\* The kernel gets the map unless the buffer is one or two descriptors short
\* (main.c:355-363).
THEOREM MapReachesKernel == Spec => []MapHandedOver
  <1>1. LoaderInv => MapHandedOver
    BY DEF LoaderInv, SizeInv, MapHandedOver
  <1> QED
    BY <1>1, LoaderInvariant, PTL

\* The RSDP the kernel gets is one, and which tables it is found in
\* (main.c:370-378).
THEOREM RsdpReachesKernel == Spec => []RsdpHanded
  <1>1. LoaderInv => RsdpHanded
    <2> SUFFICES ASSUME LoaderInv, pc = "entered" PROVE RsdpHanded
      BY DEF RsdpHanded
    <2>1. /\ table \in RSDP!Tables /\ RSDP!OnlyRsdp /\ idx = Len(table)
          /\ \A e \in Acpi :
              (e < idx /\ e + e < Len(table) /\ e + e \notin RSDP!Entry("ACPI_20_TABLE_GUID"))
                  => rsdp # RSDP!NULL
      BY DEF LoaderInv, SearchInv
    <2>2. \A e \in Acpi : e \in 0 .. (Len(table) - 1)
      BY DEF Acpi, RSDP!Entry
    <2>3. \A e \in Acpi : e < idx
      BY <2>1, <2>2, TableFacts
    <2> QED
      BY <2>1, <2>3 DEF RsdpHanded, RSDP!FoundIfElsewhere, Acpi
  <1> QED
    BY <1>1, LoaderInvariant, PTL
=============================================================================
