----------------------------- MODULE BootLoader -----------------------------
(***************************************************************************)
(* efi_main: loading the kernel's segments and the font, the menu, the     *)
(* memory map and ExitBootServices, up to the call of the kernel's entry.  *)
(*                                                                         *)
(* Memory is a sequence of pages with the type the firmware gives each and *)
(* what was last written there; a pool allocation is a page of its own.    *)
(* The firmware may change the map whenever boot services run, and refuse  *)
(* any allocation and any read. Pixels are left out. The search for the    *)
(* RSDP is module RsdpSearch.                                              *)
(***************************************************************************)
EXTENDS Integers, Sequences, FiniteSets

CONSTANTS
    Pages,      \* pages of memory, numbered from 0
    PoolPages,  \* those AllocatePool may take
    Initial,    \* types the firmware's map starts with
    Segments,   \* program headers: PT_LOAD or not, first page, file and memory pages
    Sizes,      \* values mapSize has before it is set
    MaxChanges, \* bound: changes of the map by the firmware itself
    MaxFailures,  \* bound: allocations and reads that fail unnoticed
    MaxEntries, \* bound: entries of the configuration table
    ConfigTables  \* what the configuration table may be

VARIABLES
    pc,        \* the call of efi_main that comes next
    k,         \* the program header
    type,      \* the firmware's memory map
    data,      \* data[p]: the segment last written to page p, or who else wrote it
    headers,   \* the page of the program headers, or Wild; Null if they were not read
    whole,     \* whether the segments so far were read to their ends
    refused,   \* whether AllocatePages refused a segment
    gen,       \* the map key
    changes,   \* changes of the map by the firmware itself
    lfb, font, \* pages of what these pointers point to, or Wild, or Null
    failures,  \* allocations and reads that failed unnoticed
    wild,      \* whether the loader stored through a pointer that nobody set
    screen, menuEntry, Key, legacy_boot,     \* the menu
    mapSize, mapKey, map, snapshot,          \* the memory map as the loader has it
    room,      \* descriptors the buffer at map has room for
    seen,      \* changes when the map was read; no action reads it
    table, idx, rsdp,  \* the configuration table and the search in it
    services   \* whether boot services run

\* The search for the RSDP.
RSDP == INSTANCE RsdpSearch WITH i <- idx

ASSUME LoaderAssumption ==
    /\ Pages \in Nat \ {0} /\ PoolPages \subseteq 0 .. (Pages - 1)
    /\ Initial \subseteq [0 .. (Pages - 1) -> {"free", "loader", "firmware"}]
    /\ Segments \in Seq([load : BOOLEAN, first : Nat, file : Nat, mem : Nat])
    /\ \A s \in DOMAIN Segments :
        /\ Segments[s].file <= Segments[s].mem
        /\ Segments[s].first + Segments[s].mem <= Pages
    /\ Sizes \subseteq Nat /\ {MaxChanges, MaxFailures, MaxEntries} \subseteq Nat
    /\ ConfigTables \subseteq RSDP!Tables

memory == << type, data, gen, changes >>
kernel == << k, headers, whole, refused >>
loaded == << kernel, lfb, font, failures, wild >>
menu == << screen, menuEntry, Key, legacy_boot >>
mmap == << mapSize, mapKey, map, snapshot, room, seen >>
search == << table, idx, rsdp >>
vars == << pc, memory, loaded, menu, mmap, search, services >>

Null == -1
Wild == -2
Junk == 0
Firmware == -1
Pool == -2
Unknown == -3
Page == 0 .. (Pages - 1)
Boot == 1
Reboot == 0
Up == 1
Down == 2
Right == 3
Left == 4
Other == 0
Keys == {Other, Up, Down, Right, Left}

\* Descriptors of a map: one for each run of pages of a type.
Descriptors(t) == 1 + Cardinality({p \in 1 .. (Pages - 1) : t[p] # t[p - 1]})

\* Key and mapSize are not initialised; Key is read after ReadKeyStroke only, which
\* may leave it whatever it was.
Init ==
    /\ pc = "open" /\ k = 1 /\ headers = Null /\ whole = TRUE /\ refused = FALSE
    /\ type \in Initial /\ data = [p \in Page |-> Junk]
    /\ gen = 0 /\ changes = 0
    /\ lfb = Null /\ font = Null /\ failures = 0 /\ wild = FALSE
    /\ screen = "none" /\ menuEntry = Boot /\ Key = Other /\ legacy_boot = FALSE
    /\ mapSize \in Sizes /\ mapKey = Null /\ map = Null /\ snapshot = << >>
    /\ room = 0 /\ seen = 0
    /\ table = << >> /\ idx = 0 /\ rsdp = Null
    /\ services = TRUE

-----------------------------------------------------------------------------
(***************************************************************************)
(* The firmware                                                            *)
(***************************************************************************)
Free(ps) == \A p \in ps : type[p] = "free"

\* AllocatePool: a page of the firmware's choice.
Take(p) ==
    /\ p \in PoolPages /\ type[p] = "free"
    /\ type' = [type EXCEPT ![p] = "loader"]
    /\ gen' = gen + 1
    /\ UNCHANGED changes
AllocatePool(p) == Take(p) /\ data' = [data EXCEPT ![p] = Pool]

\* A page taken or given back by the firmware itself.
MapChanges ==
    /\ services /\ changes < MaxChanges /\ pc \notin {"entered", "returned", "reset"}
    /\ \E p \in Page :
        \/ /\ type[p] = "free"
           /\ type' = [type EXCEPT ![p] = "firmware"]
           /\ data' = [data EXCEPT ![p] = Firmware]
        \/ /\ type[p] = "firmware"
           /\ type' = [type EXCEPT ![p] = "free"]
           /\ UNCHANGED data
    /\ gen' = gen + 1 /\ changes' = changes + 1
    /\ UNCHANGED << pc, loaded, menu, mmap, search, services >>

At(l) == pc = l
Goto(l) == pc' = l
-----------------------------------------------------------------------------
(***************************************************************************)
(* The kernel's segments, the frame buffer and the font                    *)
(***************************************************************************)
\* An allocation or a read that fails, which the loader does not look at.
Fails == failures < MaxFailures /\ failures' = failures + 1

\* A store through a pointer that nobody set may hit any page.
StrayStore == wild' = TRUE /\ data' = [p \in Page |-> Unknown]

\* A store through a pointer that AllocatePool failed to set; it may fault, or hit
\* something the loader or the firmware cannot do without.
StoreFails(next) ==
    /\ Fails /\ StrayStore
    /\ Goto(next) \/ Goto("lost")

\* loadFile and the test of the ELF header: without a good kernel the loader
\* returns.  Then AllocatePool and Read for the program headers.
OpenKernel ==
    /\ At("open")
    /\ \/ Goto("returned") /\ UNCHANGED << memory, headers, failures, wild >>
       \/ /\ Goto("segment") /\ UNCHANGED wild
          /\ \E p \in Page :
                /\ AllocatePool(p)
                /\ \/ headers' = p /\ UNCHANGED failures
                   \/ Fails /\ UNCHANGED headers
       \/ StoreFails("segment") /\ headers' = Wild /\ UNCHANGED << type, gen, changes >>
    /\ UNCHANGED << k, whole, refused, lfb, font, menu, mmap, search, services >>

Range0(first, count) == first .. (first + count - 1)

\* AllocatePages and Read for segment k: what Read does not write and the bytes
\* beyond the file's are left as they are.
AllocateAndRead(pages) ==
    LET s == Segments[k]
    IN /\ \E count \in 0 .. s.file :
            /\ data' = [p \in Page |-> IF p \in Range0(s.first, count) THEN k ELSE data[p]]
            /\ IF count = s.file THEN UNCHANGED << failures, whole >> ELSE Fails /\ whole' = FALSE
       /\ IF Free(pages)
          THEN /\ type' = [p \in Page |-> IF p \in pages THEN "loader" ELSE type[p]]
               /\ gen' = gen + 1 /\ UNCHANGED << refused, pc >>
          ELSE /\ refused' = TRUE /\ UNCHANGED << type, gen >>
               /\ UNCHANGED pc \/ Goto("lost")

\* Program header k is where the headers were read to.
AtHeader ==
    /\ At("segment") /\ k <= Len(Segments)
    /\ headers # Null /\ (headers \in Page => data[headers] = Pool)

\* Mutant: pages for the bytes in the file only, rounded down.
LoadSegmentShort ==
    /\ AtHeader /\ Segments[k].load
    /\ AllocateAndRead(Range0(Segments[k].first, Segments[k].file - 1))
    /\ k' = k + 1
    /\ UNCHANGED << headers, changes, lfb, font, wild, menu, mmap, search, services >>
LoadSegment ==
    /\ AtHeader /\ Segments[k].load
    /\ AllocateAndRead(Range0(Segments[k].first, Segments[k].mem))
    /\ k' = k + 1
    /\ UNCHANGED << headers, changes, lfb, font, wild, menu, mmap, search, services >>

SkipHeader ==
    /\ AtHeader /\ ~Segments[k].load
    /\ k' = k + 1
    /\ UNCHANGED << pc, memory, headers, whole, refused, lfb, font, failures, wild >>
    /\ UNCHANGED << menu, mmap, search, services >>

\* What stands in the place of header k is not it, and not PT_LOAD but by chance.
JunkHeader ==
    /\ At("segment") /\ k <= Len(Segments)
    /\ headers \in Page => data[headers] # Pool
    /\ k' = k + 1 /\ whole' = FALSE
    /\ UNCHANGED pc \/ Goto("lost")
    /\ UNCHANGED << memory, headers, refused, lfb, font, failures, wild >>
    /\ UNCHANGED << menu, mmap, search, services >>

\* No protocol, no frame buffer: NULL.  Without memory the record is stored
\* through fb as it was.
InitGop ==
    /\ At("segment") /\ k > Len(Segments)
    /\ \/ /\ Goto("font")
          /\ \/ \E p \in Page : AllocatePool(p) /\ lfb' = p
             \/ UNCHANGED << memory, lfb >>
          /\ UNCHANGED << failures, wild >>
       \/ StoreFails("font") /\ lfb' = Wild /\ UNCHANGED << type, gen, changes >>
    /\ UNCHANGED << kernel, font, menu, mmap, search, services >>

\* Mutant: loadFont frees its buffers before it returns.
LoadFontFreed ==
    /\ At("font") /\ Goto("draw")
    /\ \/ \E p \in PoolPages :
            /\ type[p] = "free" /\ data' = [data EXCEPT ![p] = Pool] /\ font' = p
            /\ gen' = gen + 2 /\ UNCHANGED << type, changes >>
       \/ UNCHANGED << memory, font >>
    /\ UNCHANGED << kernel, lfb, failures, wild, menu, mmap, search, services >>

\* The header, the glyphs and the record of a font count as one allocation.  No
\* file, or a header without the magic bits: NULL, the header allocated all the
\* same.  Without memory for one of the three it is read or stored through a
\* pointer as it was, the one that is returned or one that the record keeps.
LoadFont ==
    /\ At("font")
    /\ \/ /\ Goto("draw")
          /\ \/ \E p \in Page : AllocatePool(p) /\ font' \in {p, Null}
             \/ UNCHANGED << memory, font >>
          /\ UNCHANGED << failures, wild >>
       \/ /\ StoreFails("draw")
          /\ \/ \E p \in Page : Take(p) /\ font' \in {p, Null, Wild}
             \/ UNCHANGED << type, gen, changes >> /\ font' \in {Null, Wild}
    /\ UNCHANGED << kernel, lfb, menu, mmap, search, services >>

-----------------------------------------------------------------------------
(***************************************************************************)
(* The menu                                                                *)
(***************************************************************************)
\* Pixels are stored through lfb, and glyphs read through font, unchecked.  Page 0
\* is mapped: with either NULL the loader uses what lies there, and may go on.
Draw(used, next) ==
    LET set(p) == p \in Page /\ data[p] = Pool
    IN /\ Goto(next) \/ ((\E p \in used : ~set(p)) /\ Goto("lost"))
       /\ IF set(lfb) THEN UNCHANGED << data, wild >> ELSE StrayStore
       /\ UNCHANGED << type, gen, changes, kernel, lfb, font, failures, mmap, search, services >>

DrawMenu ==
    /\ At("draw") /\ Draw({lfb, font}, "key")
    /\ screen' = "boot"
    /\ UNCHANGED << menuEntry, Key, legacy_boot >>

\* Without a keystroke Key stays or is cleared, as the firmware likes.
ReadKeyStroke ==
    /\ At("key") /\ Goto("act")
    /\ Key' \in Keys
    /\ UNCHANGED << memory, loaded, screen, menuEntry, legacy_boot, mmap, search, services >>

SelectReboot ==
    /\ At("act") /\ Key = Down /\ menuEntry = Boot
    /\ Draw({lfb, font}, "key")
    /\ screen' = "reboot" /\ menuEntry' = Reboot
    /\ UNCHANGED << Key, legacy_boot >>
SelectBoot ==
    /\ At("act") /\ Key = Up /\ menuEntry = Reboot
    /\ Draw({lfb, font}, "key")
    /\ screen' = "boot" /\ menuEntry' = Boot
    /\ UNCHANGED << Key, legacy_boot >>

\* The screen is cleared behind the menu.
ChooseBoot ==
    /\ At("act") /\ Key = Right /\ menuEntry = Boot
    /\ Draw({lfb}, "size")
    /\ UNCHANGED menu

\* The byte to port 0x64 resets a machine that has the legacy controller.
ChooseReboot ==
    /\ At("act") /\ Key = Right /\ menuEntry = Reboot
    /\ Goto("reset") \/ Goto("key")
    /\ UNCHANGED << memory, loaded, menu, mmap, search, services >>

\* Mutant: the entry is not tested.
ChooseLegacyAnywhere ==
    /\ At("act") /\ Key = Left
    /\ legacy_boot' = TRUE
    /\ Draw({lfb}, "size")
    /\ UNCHANGED << screen, menuEntry, Key >>
ChooseLegacy ==
    /\ At("act") /\ Key = Left /\ menuEntry = Boot
    /\ legacy_boot' = TRUE
    /\ Draw({lfb}, "size")
    /\ UNCHANGED << screen, menuEntry, Key >>

IgnoreKey ==
    /\ At("act")
    /\ \/ Key = Other
       \/ Key = Down /\ menuEntry = Reboot
       \/ Key = Up /\ menuEntry = Boot
       \/ Key = Left /\ menuEntry = Reboot
    /\ Goto("key")
    /\ UNCHANGED << memory, loaded, menu, mmap, search, services >>

-----------------------------------------------------------------------------
(***************************************************************************)
(* The memory map and the kernel                                           *)
(***************************************************************************)
\* GetMemoryMap without a buffer: the size needed, or an error that changes
\* nothing if the size passed in would have been enough.
MapSize ==
    /\ At("size") /\ Goto("pool")
    /\ IF mapSize < Descriptors(type)
       THEN mapSize' = Descriptors(type) /\ mapKey' \in {mapKey, gen}
       ELSE UNCHANGED << mapSize, mapKey >>
    /\ UNCHANGED << memory, loaded, menu, map, snapshot, room, seen, search, services >>

\* A failure leaves map NULL; its status is ignored.
MapPool ==
    /\ At("pool") /\ Goto("map")
    /\ \/ \E p \in Page : AllocatePool(p) /\ map' = p /\ room' = mapSize
       \/ UNCHANGED << memory, map, room >>
    /\ UNCHANGED << loaded, menu, mapSize, mapKey, snapshot, seen, search, services >>

\* Mutant: one call does for the size and the map.
GetMapNot ==
    /\ At("map") /\ Goto("rsdp")
    /\ UNCHANGED << memory, loaded, menu, mmap, search, services >>

\* GetMemoryMap: the map and its key, or BUFFER_TOO_SMALL and the size needed.
GetMap ==
    /\ At("map") /\ Goto("rsdp")
    /\ IF map # Null /\ mapSize >= Descriptors(type)
       THEN snapshot' = type /\ mapSize' = Descriptors(type) /\ mapKey' = gen
       ELSE /\ mapKey' \in {mapKey, gen}
            /\ mapSize' = IF mapSize < Descriptors(type) THEN Descriptors(type) ELSE mapSize
            /\ UNCHANGED snapshot
    /\ seen' = changes
    /\ UNCHANGED << memory, loaded, menu, map, room, search, services >>

\* configTable is set to the table as it is by now.
StartSearch ==
    /\ At("rsdp") /\ Goto("search")
    /\ table' \in ConfigTables /\ idx' = 0 /\ rsdp' = Null
    /\ UNCHANGED << memory, loaded, menu, mmap, services >>

Search ==
    /\ At("search") /\ RSDP!Iterate
    /\ UNCHANGED << pc, memory, loaded, menu, mmap, services >>

\* Mutant: the pointer the search returns is a copy in pool memory.
SearchEndsCopy ==
    /\ At("search") /\ idx >= Len(table) /\ Goto("exit")
    /\ \E p \in Page : AllocatePool(p)
    /\ UNCHANGED << loaded, menu, mmap, search, services >>
SearchEnds ==
    /\ At("search") /\ idx >= Len(table) /\ Goto("exit")
    /\ UNCHANGED << memory, loaded, menu, mmap, search, services >>

\* ExitBootServices refuses a key that is not current; the kernel is entered
\* all the same.  Without a font the loader returns.
ExitBootServices ==
    /\ At("exit")
    /\ IF font # Null
       THEN services' = (mapKey # gen) /\ Goto("entered")
       ELSE UNCHANGED services /\ Goto("returned")
    /\ UNCHANGED << memory, loaded, menu, mmap, search >>

Load == OpenKernel \/ LoadSegment \/ SkipHeader \/ JunkHeader \/ InitGop \/ LoadFont
Menu ==
    \/ DrawMenu \/ SelectReboot \/ SelectBoot \/ ChooseBoot \/ ChooseReboot
    \/ ChooseLegacy \/ IgnoreKey
HandOver ==
    \/ MapSize \/ MapPool \/ GetMap \/ StartSearch \/ Search \/ SearchEnds
    \/ ExitBootServices
Loader == Load \/ Menu \/ HandOver
Next == Loader \/ ReadKeyStroke \/ MapChanges

Spec == Init /\ [][Next]_vars
-----------------------------------------------------------------------------
(***************************************************************************)
(* Properties                                                              *)
(***************************************************************************)
TypeOK ==
    /\ pc \in {"open", "segment", "font", "draw", "key", "act", "size", "pool",
               "map", "rsdp", "search", "exit", "entered", "returned", "reset", "lost"}
    /\ k \in 1 .. (Len(Segments) + 1)
    /\ type \in [Page -> {"free", "loader", "firmware"}]
    /\ data \in [Page -> {Junk, Firmware, Pool, Unknown} \cup DOMAIN Segments]
    /\ {whole, refused, wild} \subseteq BOOLEAN
    /\ gen \in Nat /\ changes \in 0 .. MaxChanges /\ failures \in 0 .. MaxFailures
    /\ {headers, lfb, font} \subseteq {Null, Wild} \cup Page /\ map \in {Null} \cup Page
    /\ screen \in {"none", "boot", "reboot"} /\ menuEntry \in {Boot, Reboot}
    /\ Key \in Keys /\ legacy_boot \in BOOLEAN
    /\ mapSize \in Nat /\ mapKey \in {Null} \cup Nat
    /\ snapshot \in {<< >>} \cup [Page -> {"free", "loader", "firmware"}]
    /\ room \in Nat /\ seen \in 0 .. MaxChanges
    /\ services \in BOOLEAN

\* The menu's screen shows the entry a key would act on, and the kernel is
\* started from BOOT only, whatever stale value Key had (main.c:317-345).
MenuShowsEntry ==
    /\ pc \in {"key", "act"} => screen = (IF menuEntry = Boot THEN "boot" ELSE "reboot")
    /\ pc \in {"size", "pool", "map", "rsdp", "search", "exit", "entered"} =>
        /\ menuEntry = Boot
        /\ legacy_boot <=> Key = Left

\* The failures the loader does not look at are the only ones that can damage the
\* kernel: every page of a segment's file holds the segment when the kernel is
\* entered, and the map it gets reserves all its pages, unless AllocatePages
\* refused one, a Read fell short, or something was stored through a pointer that
\* AllocatePool did not set.  Nobody was given a page of the kernel in between
\* (main.c:294-306, :363).
Kernel == {s \in DOMAIN Segments : Segments[s].load}
Disjoint == \A s, t \in Kernel :
    s # t => Range0(Segments[s].first, Segments[s].mem)
                \cap Range0(Segments[t].first, Segments[t].mem) = {}
KernelIntact ==
    (pc = "entered" /\ whole /\ ~refused /\ ~wild /\ Disjoint) =>
        \A s \in Kernel :
            /\ \A p \in Range0(Segments[s].first, Segments[s].file) : data[p] = s
            /\ snapshot # << >> =>
                \A p \in Range0(Segments[s].first, Segments[s].mem) : snapshot[p] = "loader"

\* The kernel takes its page tables from the free pages of the map it gets: what
\* AllocatePool gave for the frame buffer's record, the font and the map itself is
\* on none of them, and holds what was put there unless something was stored
\* through a pointer that it did not set (main.c:51, :101-122, :356-363, :384).
HandedPagesReserved ==
    (pc = "entered" /\ snapshot # << >>) =>
        \A p \in {lfb, font, map} \cap Page :
            snapshot[p] = "loader" /\ (~wild => data[p] = Pool)

\* Boot services still run under the kernel only if the firmware itself changed
\* the map behind the key, or there is no map: no call of the loader's own comes
\* between GetMemoryMap and ExitBootServices (main.c:357-383).
ServicesExited ==
    (pc = "entered" /\ services) => (snapshot = << >> \/ changes > seen)

\* The kernel gets the map, and its size, if there is a buffer for it and the
\* firmware did not change it; or else the buffer, whose own allocation comes
\* after the size, is one or two descriptors short (main.c:355-363).
MapHandedOver ==
    (pc = "entered" /\ map # Null /\ changes = 0) =>
        IF snapshot # << >>
        THEN mapSize = Descriptors(snapshot) /\ mapSize <= room
        ELSE mapSize - room \in {1, 2}

\* The kernel gets NULL or a pointer to an RSDP, the search's detours past the
\* end of the table notwithstanding, and gets one whenever the firmware has one
\* in an entry e such that entry 2e exists and is not ACPI 2.0's (main.c:370-378).
RsdpHanded ==
    pc = "entered" => RSDP!OnlyRsdp /\ RSDP!FoundIfElsewhere
=============================================================================
