# KessOS Paranoid Edition: specifications and proofs

KessOS Paranoid Edition is a small x86-64 kernel booted by its own UEFI loader.
This directory models it in TLA+. Each module is translated from the C and
assembly under `src/`, checked with TLC on small instances and, where the table
below says so, proved with TLAPS for every value of its constants.

The modules cover the project's own code from the call of `efi_main` to the
`hlt` loop of `_start`, in six parts: the boot loader, the start of the kernel
with its ACPI search, the virtual memory manager, the timer, the console, and
the pure conversions. The vendored UEFI library is left out.

## The system

The loader (`gnu-efi/bootloader/main.c`) shows a menu, loads the kernel's ELF
segments and font, finds the RSDP, takes the firmware's memory map, leaves boot
services and calls `_start`. `_start` (`kernel.c`) sets up, in this order, the
GDT, the exception gates and the gate of IRQ 0, paging, IOPL, ACPI, the PIC and
the PIT; it enables interrupts, sleeps 200 ticks, clears the screen, greets and
stays in a `hlt` loop. There is one thread. The only concurrency is between it,
the interrupt of the PIT and the CPU itself (its TLB); nothing is persisted.

| Component | State it keeps | Operations | Talks to |
|---|---|---|---|
| Virtual memory manager, `vmm.c` | `pml4` and the tables below it, `placement`, `segment_usable`, `biggestSegment`; CR3 and the TLB | `set_alloc_base`, `internel_alloc_page`, `map_page`, `unmap_page`, `vmm_init` | the loader's memory map; the CPU walks its tables; the log |
| Timer, `pit.c`, `irq.asm`, `legacy-pic.c` | `ticks`; the PIC's mask, request and in-service bits; RFLAGS.IF; the stack | `init_pic`, `pit_init`, `irq0_handler`, `pit_tick`, `pit_sleep` | `_start`, which it interrupts |
| Kernel start, `kernel.c` | `kern_flags`, the order of `init` | `_start`, `init` | everything |
| Firmware memory map, `memory.c`, `memory.h` | the descriptors the loader passes | iteration, `getMemSize` | memory manager |
| IDT and exceptions, `IDT.c`, `exceptions.asm`, `exception_handling.c` | 256 gates, the IDTR | `idt_set_vec`, `idt_install`, the panic handlers | the canvas |
| ACPI, `acpi.c` | `rsdt`, `apic_madt`, bits of `kern_flags` | `acpi_init`, `find_madt`, checksums | tables the firmware left in memory, the log |
| Console, `FrameBuffer.c`, `log` in `kernel.c` | cursor, the frame buffer | `putChar`, `kwrite`, `clearScreen`, `log` | all components |
| Boot loader, `main.c` | menu choice, map key, boot parameters | menu, ELF loading, RSDP search, `ExitBootServices` | UEFI, `_start` |
| String conversions, `string.c` | static buffers | `dec2str`, `hex2str`, `strncmp`, `strncpy`, ... | `log` |
| PCI configuration space, `pci.c` | none | `pci_read_word`, `pci_get_header_type` | no caller |
| GDT, IOPL, port I/O, `memzero` | the CPU's | straight-line code | |
| gnu-efi, build files, firmware image | | vendored or not code | |

Which behaviours are hard:

* **Memory manager.** `map_page` calls itself to map each table it allocates,
  while it holds pointers into the very tree the inner call changes. The
  allocator may run dry in the middle. Loading CR3 changes what the kernel can
  touch, its own tables included. The CPU caches translations at any time.
* **Timer.** A tick strikes between any two instructions. `irq0_handler` saves
  no register, and leaves by `retq` where `iretq` belongs, so the interrupted
  code goes on with RAX, the carry flag and its stack pointer changed. Counters
  have 16 bits on one side of a comparison and 32 on the other.
* **ACPI, console, strings, PCI, loader.** Lengths, bounds and pointers that
  come from outside and are not checked; statuses of firmware calls that are
  ignored; a menu loop and a memory-map handshake with the firmware.

What makes each correct:

* Memory manager: the allocator hands out each page of a usable segment once;
  the tables form a tree at every point of the recursion; each table is mapped,
  and writable, when CR3 is loaded; leaf entries are the identity; the TLB
  agrees with the tables; every call ends.
* Timer: the handler does not nest, loses no tick and acknowledges each; a
  sleep lasts at least as long as asked, ends and returns to its caller; the
  idle loop runs for ever. The last two fail in places, and the properties say
  in which.
* Kernel start: whatever strikes finds descriptor tables that belong together;
  an exception is reported under its number once the kernel's IDT is installed;
  `kern_flags` names the controller in use.
* ACPI: the search stays in the RSDT and finds its first MADT; nothing is used
  of a table whose bytes do not sum to zero.
* Console: glyphs stay in the frame buffer and on the screen, lines do not
  overlap, a panic screen is complete wherever it strikes.
* Loader: the kernel's pages, and those it is handed, stay what they are and are
  reserved in its memory map, for all the failures it does not look at; boot
  services end with the map the kernel gets; the RSDP is one.
* Strings: the result reads back as the argument. PCI: a field is made of the
  bits of its register, each from its place.

Several of these hold with an exception. Each property says which, so that a
change of the code that makes it worse, or better, shows.

`PROJECT.json` lists every component, modelled or not, and under "hazards" each
place in the code where one of these can go wrong, with the properties that
cover it.

## Modules

| Module | What it is |
|---|---|
| `Vmm` | the memory manager, its properties and its refinement mapping |
| `AddressSpace` | what it promises: a partial identity map that grows page by page, goes live when complete, loses a page only when it is unmapped |
| `MCVmm` | the instance TLC checks |
| `VmmProofs`, `VmmMapProofs` | its proofs: the allocator and the tree of tables; on top of it, what the tables map, and the refinement |
| `Timer` | PIT, PIC, `irq0_handler`, `pit_sleep`, and `_start` from `init_pic` on |
| `MCTimer` | the instance TLC checks |
| `TimerProofs` | its proofs |
| `Acpi` | `acpi_init`: the checks of RSDP and RSDT, the search for the MADT |
| `KernelStart` | `_start` and `init` up to the first `STI`, with `Acpi` inside, and all that may strike |
| `MCKernelStart`, `KernelStartProofs` | the instance TLC checks, and the proofs of both |
| `Console` | the canvas: `kwrite`, `putChar`, `clearScreen`, panics |
| `MCConsole`, `ConsoleProofs` | the instance TLC checks, and its proofs |
| `RsdpSearch` | the loader's search of the configuration table |
| `BootLoader` | `efi_main`, with an instance of `RsdpSearch` inside |
| `MCRsdpSearch`, `MCBootLoader`, `BootLoaderProofs` | the instances TLC checks, and the proofs of `BootLoader` |
| `KernelString` | `dec2str`, `hex2str` |
| `MCKernelString`, `KernelStringProofs` | the instance TLC checks, and its proofs |
| `PciConfig` | `pci_read_word` and the getters |
| `MCPciConfig`, `PciConfigProofs` | the instance TLC checks, and its proofs |

Operators marked *Mutant* are variants of the definition below them with a bug
in it. No specification uses them: they are there to show that a property would
notice (`PROJECT.json`, "mutants").

### Vmm and the code

Addresses are page numbers, `addr >> 12`; a table has `Radix` entries instead of
512. `table` holds the tables that were zeroed, by page; `kind` remembers at
which level each was linked and no action reads it.

* `ScanDescriptor`, `SetAllocBase`: one iteration of the loop of
  `set_alloc_base`, and its end with the zeroing of `pml4`. The test against
  `0xDEADBEEF` in `vmm_init` is part of `SetAllocBase`. `biggestSegment` starts
  with a base of zero. In the code `nPages` is set to zero (`vmm.c:34`), and
  `physAddr` is whatever `.bss` held, which is read only when no segment is
  usable; `placement` then is that value, and `0xDEADBEEF` only by chance.
* `IdentityMapNext`, `LoadPml4`: the loop of `vmm_init` and the load of CR3.
* `stack` is the stack of active invocations of `map_page`, each with its
  arguments, level and local table pointer. `Descend` follows a present entry,
  `AllocTable` allocates, zeroes and links a table and pushes the recursive
  call, `MapLeaf` fills the entry and returns. The code spells out three levels
  that do the same; here it is one action for each level above the leaf.
* `OutOfMemory` and `PageFault` are how `map_page` may stop the kernel. After
  CR3 is loaded a table is touched through the tables themselves (`Accessible`).
* `UnmapClear`, `FlushTlb`: `unmap_page` in two steps, so that the TLB may be
  filled in between. `UnmapWild` is the walk through a missing table, which
  takes page 0 for a table: nothing is modelled after it.
* `TlbFill`: the CPU caches a translation whenever the tables provide one.

The rest of the kernel is any sequence of calls for `ClientPages` with
`ClientFlags`, one at a time, as there is one thread and the interrupt handlers
call neither function.

### Timer and the code

One step is one instruction, or several between which a tick makes no
difference. The instructions are those GCC emits with the flags of
`kernel/Makefile`, which has no `-O`: RAX carries every value, and `pit_sleep`
has a frame with `leave` at its end.

* `pc` is the label of the next instruction: `push` ... `ret` are `pit_sleep`,
  `tick`, `out`, `hsti`, `retq` are `irq0_handler`, the rest is `_start`.
  `stack` holds the words pushed since `_start` set up its frame.
* `Deliver`: the CPU takes the interrupt and pushes five words. `PitTick`,
  `Eoi`, `HandlerSti`, `Retq`: the handler. `Retq` pops one word of the five.
* `sti` holds interrupts off for one more instruction (`shadow`).
* `PitRaise` is a pulse of the PIT; at least `MinGap` steps of the CPU lie
  between two of them. A pulse that finds the last one requested is lost.
* `log` (with the handler's changes to RAX, and through functions without a
  frame of their own) may go astray when a tick strikes in it: `Log` then may
  end in `wild`. `clearScreen` runs with interrupts off.
* `elapsed` and `struck` record the ticks and the instructions struck since
  `pit_sleep` was called; only `Log` reads `struck`.
* After `wild` (a return to a word that is no return address) and `overrun`
  (the stack is full) nothing is modelled.

The gate of IRQ 0 is taken to be one the CPU can use: its `ist`, which
`idt_set_vec` does not write, was zero when the kernel was loaded. The other
case is `KernelStart`'s (`"stray"` gates). The mutant of `IdleOverruns` is
the repair of the handler, `iretq` for `retq`: the property says what the code
does wrong, and the mutant that it hangs on that instruction.

Every label is a boundary at which the architecture allows an interrupt. A CPU
that fuses `cmp` and `jb`, or an emulator that takes interrupts at branches
only, has fewer of them, hence fewer behaviours.

### KernelStart, Acpi and the code

* `pc` is the call of `_start` or `init` that comes next. `IdtSetVec` is one
  call of `idt_set_vec`; `Gates` are its vectors in the order of `init`.
* `idt` starts all absent or all junk: it lies in `.bss`, which the loader does
  not zero. So does `apic_madt`. `idt_set_vec` writes every field of an entry but
  `ist`: over junk it leaves a `"stray"` gate, whose handler may run on whatever
  stack the junk selects, or never run.
* `Dispatch` is what the CPU does with a vector, given whose IDT and GDT are
  loaded; `Outcomes` are what may become of it. A gate without P raises exception
  0xB. Between `gdt_load` and `idt_install` the firmware's gates name selectors
  that no longer exist.
* `Strike`: an exception or an NMI at any step; `Interrupt`: a device the
  firmware set up, or the kernel's timer, while interrupts are on.
* `AcpiStep` takes a step of `Acpi`: `VerifyRsdp`, `VerifyRsdt`, then `FindMadt`
  an iteration at a time. `EntryCount` computes in the code's widths, the
  subtraction in 64 bits and the result in 32. Past the table a read may fault
  (`ScanFaults`) or find anything.
* `strncmp` returns "equal" as soon as one of its arguments is NULL. So a NULL
  RSDP passes its signature test, and what is then read as the RSDT is whatever
  the low memory says (`SumFaults` if it is not mapped); and an entry of 0 is
  taken for the MADT, which sets `USING_APIC` with `apic_madt` NULL.
* A table is its length field, whether its bytes sum to zero, and the
  signatures of what its entries point to.

### Console and the code

One step is one store to the canvas or the screen, so that a panic may strike
between any two. `Char` is the next character of the log, any, or of the panic's
text; `Glyph` tests the height and `ColumnX`, `ColumnY` start a new column;
`CallClear` is `_start`'s call of `clearScreen`. `Panic` abandons what it
interrupts, which may be another panic. `glyphs` are the upper left corners of
what was drawn since the screen was cleared, `over` the rows in which one was
drawn over another; `line`, `lines` and `longest` count for the properties.
`putChar` addresses pixel `x + y * ppsl`, so two glyphs overlap (`Overlap`) also
when one runs past the end of a scanline and comes out at the start of the next.

### BootLoader, RsdpSearch and the code

* Memory is a function from pages to the type the firmware gives each and to
  who last wrote there. An `AllocatePool` takes any free page of `PoolPages`;
  `MapChanges` is the firmware's own use of memory while boot services run.
* The loader looks at the status of no `AllocatePool`, `AllocatePages` or `Read`.
  `Fails` counts those that fail unnoticed. A pointer `AllocatePool` did not set
  is `Wild`; a store through it (`StrayStore`) makes every page `Unknown` and
  sets `wild`, and may end the loader (`"lost"`, after which nothing is
  modelled). A `Read` that falls short leaves the rest of the page as it was.
* `OpenKernel` ends with the `AllocatePool` and `Read` of the program headers.
  Their page, `headers`, may lie where a segment goes: if `AllocatePages` refuses
  it, `Read` writes over them all the same. `LoadSegment` and `SkipHeader` are a
  round of the loop over them, `JunkHeader` one over what is no header any more.
  `whole` and `refused` tell whether every segment was read and allocated.
  `Range0` rounds nothing: segments are whole pages here.
* `LoadFont` takes the font's three buffers as one allocation, of which any may
  have failed.
* `DrawMenu` ... `IgnoreKey` are the menu; `ReadKeyStroke` may leave `Key`, which
  is not initialised, as anything. The pixels are left out, but not that they are
  stored through `lfb` (`Draw`): through NULL, page 0, which is mapped, or
  through a wild pointer, the loader writes and may go on.
* `MapSize`, `MapPool`, `GetMap`, `ExitBootServices`: the handshake over the
  memory map. A size counts descriptors, `Descriptors(type)`, one for each run
  of pages of a type. `gen` is the firmware's map key. `seen` remembers when the
  map was read; no action reads it.
* `StartSearch`, `Search`, `SearchEnds`: an iteration of the search per step,
  `RSDP!Iterate`. `configTable` has advanced by `i` when the loop indexes it by
  `i`, so it compares the GUID of entry `2i`, past the end of the table if need
  be, and takes the pointer of entry `i` when `CompareGuid` is *not* 0.

### KernelString, PciConfig and the code

`KernelString` takes a step per digit, on buffers that keep what earlier calls
left. `Int32` is the negation's width. In `PciConfig` a number that goes into an
address is the set of its bits that are one, so that shifts and ors are shifts
and unions of sets. A value that is read is a function from bit places to the
name of the bit each was read from, so that a getter's result says where every
bit comes from; a BAR is two words. `Register`, `First` and `Size` are where the
field lies that a getter is named for.

## What TLC checks

| Run | Expected | Shows |
|---|---|---|
| `vmm` | pass, 1960 states | over six memory maps, boot and then any calls: the invariants, that boot and calls end, that `Vmm` implements `AddressSpace` |
| `timer` | pass, 246 424 states | ticks between any two instructions from `init_pic` to the `hlt` loop |
| `kernel_start` | pass, 1 168 680 states | `init` with what strikes at any step, from a good, a NULL and an overwritten RSDP, over RSDTs of every length that matters |
| `console` | pass, 2 255 623 states | a log, a `clearScreen`, and two panics between any two stores |
| `boot_loader` | pass, 5 063 228 states | `efi_main` against a firmware that places pools, refuses pages, fails an allocation or a read, and changes its map |
| `kernel_string` | pass, 244 115 states | any sequence of conversions on the static buffers |
| `pci_config` | pass, 1296 states | every getter at the ends of bus, slot and function |
| `vmm_no_memory` | violation of `NoUsableMemoryReported` | the test for NO USABLE MEMORY never fires |
| `vmm_unmap_bits` | violation of `UnmapKeepsOtherBits` | `unmap_page` clears more than PRESENT |
| `timer_wrap` | violation of `SleepAlwaysEnds` | a sleep across the wrap of `ticks` does not end |
| `rsdp_search_guid` | violation of `FindsAcpi20` | the search passes over the entry it looks for |
| `kernel_string_min` | violation of `PositiveValues` | the smallest int stays negative |

`CHECK_DEADLOCK FALSE` is given where the system may stop: the kernel halts by
itself (`FULL_HALT`, a page fault), `wild` and `overrun` have no successor, and
the start, a panic, the loader and a PCI read come to an end.

Properties of `vmm`: `LargestSegment`, `AllocatorExact`, `TreeWellFormed`,
`LocalsFresh`, `TablesMapped`, `TablesWritable`, `IdentityMapped`,
`TlbCoherent`, `FaultsBeyondLimit` and `TypeOK` are invariants; `BootEnds` and
`CallsReturn` are liveness; `RefinesAddressSpace` is the refinement.

Properties of `timer`: `LostOnlyIfStruck` (where a tick sends `pit_sleep`
astray, and that it returns otherwise), `NotStruckLeaving` (a tick never strikes
the end of `pit_sleep`, because the sleep ends right after one), `NoNesting`,
`SleepsLongEnough`, `NoTickLost` are safety; `TickAcknowledged`, `SleepEnds` and `IdleOverruns` are
liveness. `IdleOverruns` says what the code does and no one would want: each
tick leaves four words on the stack, and nothing takes them back in the `hlt`
loop.

Properties of `kernel_start`: `InterruptsHaveHandlers` (a tick ends the kernel
only through an `ist` nobody wrote), `FaultsReported` (with a zeroed `idt` an
exception resets the machine in one window only, and what is shown instead of a
vector without a gate; without, what remains of that), `FlagNamesController`,
`ScanInTable` (from a good RSDP the search leaves the RSDT only if its length is
below its header's), `OnlySummedTables` (ACPI goes on exactly if signature and sum
pass, a NULL RSDP passing the first; where `apic_madt` may come from),
`FirstTaken` (the search ends at the first MADT or zero entry).

Properties of `console`: `GlyphsInFrame` (which heights let the last row run over
the end of the frame buffer: 1080 fits no column, 768 all but the first),
`NoOverlap` (which lines stay apart, the wrap at the end of a scanline included),
`StaysOnScreen` (for how many lines of which length), `PanicScreen`. The kernel's
own log has lines longer than a column of 300 pixels; for those `NoOverlap` speaks
of the first column only, where they do stay apart while they fit the scanline.

Properties of `boot_loader`: `MenuShowsEntry`, `KernelIntact` (the three
unchecked failures that can damage the kernel's pages are the only ones),
`HandedPagesReserved` (after any failures), `ServicesExited` (the two ways boot
services survive), `MapHandedOver` (by how much the buffer may be short),
`RsdpHanded` (that it is an RSDP, and when the detours of the search are certain
to find one). `MenuShowsEntry` holds for any `Key` at any read, so it covers the
stale one without singling it out.

`ConversionsRight` compares with the number. `FieldPlaces` compares with the field
a getter is named for: the fields in the upper half of a register, and the upper
halves of BARs, come out wrong, each bit from 12 places too low.

### Bounds

* `MCVmm`: `Radix` 3, 81 pages, `Limit` 12. With 3 entries to a table the pages
  below 12 need several tables at each level above the leaf, tables of the pool
  need tables of their own, and a client page lies under another PML4 entry.
  The six memory maps: all of the segment below `Limit`; a segment across
  `Limit`, with a tie; a segment beyond `Limit` across PDPTs; one too small;
  none usable; an empty map. Client pages: one below `Limit`, two beyond, one
  far away. Client flags: writable and not.
* `MCTimer`: `TickMod` 6 and `SleepTicks` 3, so that a sleep may or may not
  cross the wrap; `ByteMod` 3 and `EoiByte` 1, so that the byte the handler
  writes to AL is neither the value nor 0. `StackRoom` 48 words hold what a
  round of the counter leaves behind and more than one sleep needs. `MinGap` 13
  is the least the assumption allows; ticks strike at every label of `pit_sleep`
  but `leave` and `ret`, where they cannot (`NotStruckLeaving`). `elapsed`
  stops at `TickMod` and `gap` at `MinGap`: no property tells higher values
  apart.

* `MCKernelStart`: words of 5 bits and a header of two entries' size, so that a
  short length wraps to a count far beyond the table; lengths below the header's,
  at it, between entries and at the end of three entries, the longest table.
  The exceptions: two with a gate, one without, the NMI.
* `MCConsole`: glyphs, rows and margins as in the code. Frames of 70 and 71 rows:
  one row of text below the start and three or four below the margin. Columns of
  three glyphs on scanlines of 64 pixels, two columns and a rest; lines of up to
  four glyphs, so that a line may be longer than a column or run past the end of
  the scanline, and six lines. Two panics, so that one strikes in the other.
* `MCBootLoader`: seven pages, with the firmware on page 0; a segment of one page,
  a header to skip, a segment of `.bss` only. A pool may take the first segment's
  page, so that the headers may lie in the kernel's way. One failure that goes
  unnoticed, and one change of the map, at any point: before, between or after
  the two calls of `GetMemoryMap`; the proofs cover any number of both. Three
  configuration tables, one for each outcome of the search; the proof covers every
  table, and `MCRsdpSearch` steps through all of up to five entries.
* `MCKernelString`: ints of 12 bits, buffers of 8 characters, both ends of the
  range and the numbers about the powers of each base.
* `MCPciConfig`: the ends of each field and one value between.

### Fairness

* `Vmm`: `WF(KernelStep)`, the CPU executes the next instruction. Calls and TLB
  fills are never forced.
* `Timer`: `WF(CpuStep)`, `WF(Busy)`, `WF(PitRaise)`: the CPU executes, time
  passes in long instructions and functions and in `hlt`, and the PIT in mode 3
  does not stop.
* The other modules state no fairness and no liveness: the menu may wait for a
  key for ever, and the loops of the rest end by their counters.

### Findings

* `vmm.c:142` tests `placement` against its initial value after `set_alloc_base`
  has overwritten it: a memory map without usable memory is not reported there,
  and the kernel halts in `map_page` with OUT OF MEMORY.
* `vmm.c:129` says "Just unset the PRESENT bit."; the statement also clears the
  writable and user bits.
* `pit.c:38` says the wrap of `ticks` needs no care; `pit_sleep` computes its end
  in 32 bits, and waits for a value the counter cannot have.
* `main.c:371` takes an entry when `CompareGuid` is not 0, and
  `efirtlib.c:124` says it is 0 for equal GUIDs: the search for
  `ACPI_20_TABLE_GUID` refuses the entry that has it.
* `string.c:25` negates "to work with positive values"; the smallest int stays
  negative and is printed as a lone sign.

## What is proved

Every theorem holds for all constants that satisfy the assumptions named in the
modules. `Vmm`: any radix, set of pages, limit, memory maps with descriptors
of existing pages, and clients that leave the kernel image and usable memory
alone. `Timer`: any size of counter, byte, sleep and stack, and a gap of more
than 12 instructions between pulses. `Acpi`, `KernelStart`: any word, header and
entry size with the header smaller than a word's range, any lengths, signatures
and exceptions. `Console`: any frame, font, layout and panic text, with a row no
lower than a glyph and the first row below a glyph at the margin. `BootLoader`:
any memory, initial map, segments within memory, configuration table and number
of changes of the map and of calls that fail. `KernelString`: any width of an int and set of arguments,
with buffers of five characters or more that have room for the digits of the
largest magnitude in both bases (`StringAssumption`; the code's hold 80
characters, and its ints have 32 bits). `PciConfig`: all buses, slots and functions.

**Memory manager.** The properties are not inductive: why a table pointer is
still valid after a recursive call depends on the shape of the whole tree, which
depends on what the allocator has handed out. The invariant is built in layers:

1. `CoreInv` (`VmmProofs`): types; `biggestSegment` is the best so far; tables
   are `pml4` and the pages of the segment below `placement`; present entries
   lead to tables one level down; frames point to tables of their level. It
   gives `TypeCorrect`, `LargestSegmentChosen`, `AllocatorIsExact`.
2. `TreeInv` (`VmmProofs`) adds that no table has two parents, and that
   frames are fresh. The key is `Grows`: `map_page` never changes a present
   entry, so walks go on leading where they led. It gives `TablesFormTree`,
   `LocalsStayFresh`.
3. `MapInv` (`VmmMapProofs`) adds what is mapped: leaf entries are the identity,
   the pages the loop has passed are mapped, tables are mapped or about to be.
   It gives `TablesAreMapped`, `IdentityIsMapped`, `TlbIsCoherent`,
   `FaultsAreBeyondLimit`.
4. `WriteInv` (`VmmMapProofs`) adds the flags of entries and active
   calls. It gives `TablesStayWritable`; with `MapInv` each step is shown to map
   to a step or stutter of `AddressSpace`: `ImplementsAddressSpace`.

From `CoreInv` follows also the safety half of `BootEnds` and `CallsReturn`,
`KernelProgresses`: `Rank` (phases of the kernel left, iterations of the loop
that runs, pages of the allocator, active invocations of `map_page`, levels of
the innermost, a flush that is due) is made of natural numbers, every
`KernelStep` lowers it in lexicographic order, and while the kernel boots or
maps a page no other step changes it. So the recursion of `map_page` ends for
every radix and every memory map; that the steps are taken at all is fairness
and `ENABLED`, and stays with TLC.

**Timer.** `TimerInv` (`TimerProofs`) follows the thread through the handler:
`Cur` is the instruction it is at or will go back to, `Depth` how much of the
stack lies below that return address.

* `Shape`: the word `leave` and `ret` will find is the return address, unless a
  tick struck where there is no frame. It gives `SleepReturnsUnlessStruck`.
* `HandlerFlags`, `PicReady`, `GapSmall`: the interrupt flag is clear until the
  handler's `retq`; in `pit_sleep` a requested interrupt is taken at once, so
  that no more than four instructions follow a pulse before it is. They give
  `HandlerNeverNests`, `NoTickIsLost`.
* `Values`: what RAX, the carry flag and the locals hold unless a tick struck
  where it matters; `Enough` relates the counter, the end of the sleep and the
  ticks that have elapsed, also across the wrap. It gives `SleepsAsLongAsAsked`.
* `ExitInv` adds when the sleep may end. `Prompt`: only a tick ends it, as the loop
  compares the same two numbers until the next, and from the tick to `ret` the
  thread takes twelve instructions at most (`Late` counts them, `Ahead` those to
  come). The next pulse is more than twelve away, so none strikes `leave` or
  `ret`: `LeavesUndisturbed`. `Positive` is why it asks for a sleep of a tick or
  more, as one of no ticks ends without one, and for an `EoiByte` above 0 (0x20 in
  the code): the handler leaves it in AL, and struck at the right place the sleep
  is of that many ticks.

**Kernel start.** `StartInv` (`KernelStartProofs`) is two invariants side by side,
that of `acpi_init` and that of the calls around it:

* `AcpiInv`: `Checked` says what has been verified by the time a step is reached,
  `Passed` that the entries the search has passed are neither MADTs nor 0. Both
  rest on `CountExact`: an index is below `rsdt_entry_count`, with its wraps,
  exactly if the entry lies in the table, given a length no shorter than the
  header. They give `SearchStaysInTable`, `OnlySummedTablesUsed`,
  `FindsFirstTaken`; only the first and the last need a good RSDP.
* `Sequence`: what each call leaves behind for those after it; `GatesSet`: the
  first `n` vectors have their gates; `InterruptsReturn`: what struck last. They
  give `InterruptsAreHandled`, `FaultsAreReported`, `FlagNamesTheController`.

**Console.** `ConsoleInv` (`ConsoleProofs`): while the canvas is written, `y` is a
whole number of rows below the start of its column, which `prevX` tells; a panic
may leave it anywhere, but clears the screen before it writes. With the
arithmetic of `RowEnds` it gives `GlyphsStayInFrame`. `PanicInv` adds `Progress`: once `j`
characters of the panic's text are written, the glyphs on the screen are those the
layout gives the first `j`, and the canvas is where it puts the next, provided the
text fits the frame. `WriteProgress` shows it step by step of a character; it
starts anew at each panic's `clearScreen`. It gives `PanicShowsItsText`.

`ColumnsInv` is about the log and the panics alike, for lines of any length; what
needs lines that fit a column is conditional on the longest so far (`Narrow`). It
has a part for each thing that has to be known of the others:

* `LineInv`: how many glyphs the line has; none has more than the longest.
* `CanvasInv`: the canvas is `Before` glyphs from the start of its column, or, in
  the line in which the column changed, from the start of the one before
  (`Carried`); it is in the top row in that line only, or in the first column of a
  cleared screen.
* `GlyphInv`: no glyph is further right than the longest line from the canvas's
  column, so that within the scanline nothing wraps; and every glyph is `Behind`
  the canvas: in an earlier column, in a row above, or to the left in its own. A
  canvas that is not `Carried` overlaps none.
* `TopInv`: before the clear, the top row holds carried lines only, each in the
  column before its own, so that those do not overlap either. With these `NoOverlap`
  is inductive (`LinesStayApart`).
* `GridInv`: a row of a column is reached after as many newlines at the least as
  there are rows before it (`Filled`). It gives `GlyphsStayOnScreen`.

**Boot loader.** `LoaderInv` (`BootLoaderProofs`) has a part for each concern:

* `MenuInv`: LEGACY mode is chosen by the step that leaves the menu
  (`MenuIsConsistent`).
* `PagesInv`: what is handed over, and the segments loaded so far, lie on pages
  of the loader's own, and the map that was read reserves them. `SegmentStep`,
  `PoolStep`, `StrayStep` and `ChangeStep` say what each use of memory leaves
  alone: the types of the loader's own pages always, what they hold until a stray
  store (`Keeps`). It gives `KernelStaysIntact`, whose hypotheses are those of
  `KernelIntact`, and `HandedPagesStay`.
* `KeyInv`: the key is current unless the map changed behind it
  (`BootServicesEnd`).
* `SizeInv`: how many descriptors the map may have more than the buffer has room
  for; one page of another type adds two at most (`OnePage`, on the cardinality of
  the borders between runs). It gives `MapReachesKernel`.
* `SearchInv`: what the iterations so far have found (`RsdpReachesKernel`).

**String conversions.** `StringInv` (`KernelStringProofs`) follows the quotients.
`Digits`: a chain of divisions by the base leads from the argument to the number
that is left, and the bytes written so far are their remainders, lowest first;
none but 0 itself has a zero quotient before the last. `Room`: the number that is
left is below the power of the base that has as many digits as the buffer has
places left, which `StringAssumption` grants at the start and each division keeps
(`TakeDigit`). So the writes stay in the buffer (`StaysInBuffers`), and when
nothing is left the bytes, read backwards behind sign or prefix, are the digits of
the argument without leading zeros (`StrFinal`, `ValueOfDigits`): `Converts`.

What `Value` and `Powers` compute is by recursion, so this needs induction over
the numbers. The library's induction theorems take an operator and cannot be used
here; `Induction` is the same for a set of numbers instead of a predicate, proved
from the existence of a least number in a set that is not empty (`LeastNumber`),
which the well-foundedness of strict inclusion of finite sets gives. `Recursion` then
gives the recursive functions their defining equations.

**PCI.** `PciInv` (`PciConfigProofs`): while a getter runs, each bit it has is 0 or
one of the register it was asked for. `AddressSelects` says that the parts of an
address do not run into each other, whatever the bus, slot and function;
`Offsets`, with `SameRegister`, that both offsets of a BAR lie in one register, 0x13 for
the upper half of BAR 0 too. It gives `GettersRead`.

**Model-checked only.** With this every invariant that TLC checks, and the
refinement, is a theorem. Liveness (`BootEnds`, `CallsReturn`, `TickAcknowledged`,
`SleepEnds`, `IdleOverruns`) rests on fairness and on which actions are enabled,
which the prover does not handle: TLC checks it on the instances above.

## What is not modelled

* What happens after a wild jump, a stack overrun or a walk through page 0, and
  where a stray store of the loader leads if it does not go on. One such store may
  hit the loader's own code or stack, or the firmware's; what goes on keeps the
  pages' types and the loader's variables.
* `HandleProtocol`, `OpenVolume` and `GetInfo` in the loader are taken to succeed;
  the size `GetInfo` gets is not initialised, and it might write through NULL
  before anything is loaded. Junk in the place of a program header that happens to
  say `PT_LOAD` ends in `"lost"`.
* gnu-efi, by far the largest part of the repository's lines: a vendored library
  of headers, printing, device paths and wrappers of firmware calls, of which the
  loader uses a handful. What those do to the loader is modelled as external, and
  `CompareGuid` from its source; to model more of the library would say nothing
  about this kernel. The share of lines covered is small for that reason.
* The pixels: which of a glyph's 128 are set, the menu's text and `clear_screen`;
  `put_pix`, `draw_square` and `get_pixel_idx`, which nothing calls.
* How `log` formats its arguments; `strlen`, `strncmp` and `strncpy` beyond the
  use their callers make of them.
* `PIC_sendEOI` and `getMemSize`, which nothing calls yet.
* Huge pages, caching bits and physical address width of table entries: the
  code sets none of them.
* The bytes of a segment's last page beyond the file's: segments are whole pages.
* An APIC: no code drives one.
* Build files and the firmware image. The compiler's flags decide the
  instructions `Timer` steps through.

## What is left

* `KernelStart` and `BootLoader` each take `vmm_init` or the firmware's image
  loader as one step. A composition that hands `BootLoader`'s map to `Vmm` as its
  memory map would join the two ends of `HandedPagesReserved`.
