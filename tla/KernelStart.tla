---------------------------- MODULE KernelStart -----------------------------
(***************************************************************************)
(* _start and init up to the first STI: the GDT, the interrupt descriptor  *)
(* table, the VMM, IOPL, ACPI and the choice of the interrupt controller,  *)
(* with exceptions and the firmware's interrupts striking at any step.     *)
(*                                                                         *)
(* acpi_init is module Acpi. vmm_init, whose insides are module Vmm, is a  *)
(* step that succeeds or ends in a FULL_HALT.                              *)
(***************************************************************************)
EXTENDS Acpi

CONSTANTS
    Vectors,      \* the exceptions that strike, and the NMI
    FirmwareIrq   \* the vector of the firmware's own interrupts

ASSUME StartAssumption ==
    /\ Vectors \subseteq 0 .. 31
    /\ FirmwareIrq \in 33 .. 255

VARIABLES
    pc,     \* the call of _start or init that comes next
    n,      \* gates set so far
    idt,    \* idt[v]: "absent" or "junk" before idt_set_vec, "gate" or "stray" after
    idtr,   \* whose table IDTR points to
    gdtr,   \* whose table GDTR points to
    ief,    \* RFLAGS.IF
    pic,    \* who programmed the PIC, and whether IRQ 0 is unmasked
    fate,   \* what became of the kernel
    fired,  \* the last vector that struck
    shown   \* the vector its panic screen names

cpu == << idtr, gdtr, ief >>
end == << fate, fired, shown >>
vars == << pc, n, idt, cpu, pic, end, acpiVars >>

None == -1
NP == 11     \* segment not present, the CPU's answer to a gate without P
Irq0 == 32

\* The vectors init sets, in its order.
Gates == << 0, 1, 3, 4, 5, 6, 7, 8, 10, 11, 12, 13, 14, Irq0 >>
GateVectors == {Gates[g] : g \in DOMAIN Gates}

\* idt lies in .bss, which the loader does not zero.
Init ==
    /\ pc = "welcome" /\ n = 0
    /\ \/ idt = [v \in 0 .. 255 |-> "absent"]
       \/ idt = [v \in 0 .. 255 |-> "junk"]
    /\ idtr = "firmware" /\ gdtr = "firmware"
    /\ ief \in BOOLEAN
    /\ pic = "firmware"
    /\ fate = "running" /\ fired = None /\ shown = None
    /\ AcpiInit

-----------------------------------------------------------------------------
(***************************************************************************)
(* What strikes                                                            *)
(***************************************************************************)
\* What may become of vector w by the gate g. A stray gate names a stack that was
\* never set up: whatever lies there, the handler runs on it or never does.
\* Irq0's handler returns, all others end in a hlt.  Once the kernel's GDT is
\* loaded the selectors in the firmware's gates name no code segment: the fault
\* that follows finds none either.  Before that the firmware's handlers of its
\* own interrupts return.
Outcomes(w, g) ==
    LET is(f, s) == [fate |-> f, shown |-> s]
        handled == IF w = Irq0 THEN is("running", None) ELSE is("panic", w)
    IN CASE g = "gate" -> {handled}
         [] g = "stray" -> {handled, is("wild", None), is("reset", None)}
         [] g = "junk" -> {is("wild", None)}
         [] g = "firmware" -> {is(IF w = FirmwareIrq THEN "running" ELSE "firmware", None)}
         [] OTHER -> {is("reset", None)}

Dispatch(v) ==
    LET gate(w) == IF idtr = "kernel" THEN idt[w]
                   ELSE IF gdtr = "firmware" THEN "firmware" ELSE "none"
        raised == IF gate(v) = "absent" THEN NP ELSE v
    IN /\ fired' = v
       /\ \E o \in Outcomes(raised, gate(raised)) : fate' = o.fate /\ shown' = o.shown

\* An exception or an NMI.
Strike(v) ==
    /\ fate = "running"
    /\ Dispatch(v)
    /\ UNCHANGED << pc, n, idt, cpu, pic, acpiVars >>

\* A device the firmware set up interrupts, or the kernel's timer.
Interrupt ==
    /\ fate = "running" /\ ief
    /\ Dispatch(IF pic = "firmware" THEN FirmwareIrq ELSE Irq0)
    /\ UNCHANGED << pc, n, idt, cpu, pic, acpiVars >>

-----------------------------------------------------------------------------
(***************************************************************************)
(* _start and init                                                         *)
(***************************************************************************)
At(l, next) == fate = "running" /\ pc = l /\ pc' = next

Welcome ==
    /\ At("welcome", "gdt")
    /\ UNCHANGED << n, idt, cpu, pic, end, acpiVars >>

\* Mutant: gdt_load without its cli.
GdtLoadOpen ==
    /\ At("gdt", "gates")
    /\ gdtr' = "kernel"
    /\ UNCHANGED << n, idt, idtr, ief, pic, end, acpiVars >>
GdtLoad ==
    /\ At("gdt", "gates")
    /\ gdtr' = "kernel" /\ ief' = FALSE
    /\ UNCHANGED << n, idt, idtr, pic, end, acpiVars >>

\* Mutant: P is left as it is.
IdtSetVecAbsent ==
    /\ fate = "running" /\ pc = "gates" /\ n < Len(Gates)
    /\ n' = n + 1
    /\ UNCHANGED << pc, idt, cpu, pic, end, acpiVars >>
\* Every field of the entry is written but ist, which stays as .bss had it.
IdtSetVec ==
    /\ fate = "running" /\ pc = "gates" /\ n < Len(Gates)
    /\ idt' = [idt EXCEPT ![Gates[n + 1]] =
                    IF @ \in {"absent", "gate"} THEN "gate" ELSE "stray"]
    /\ n' = n + 1
    /\ UNCHANGED << pc, cpu, pic, end, acpiVars >>

IdtInstall ==
    /\ n = Len(Gates) /\ At("gates", "vmm")
    /\ idtr' = "kernel"
    /\ UNCHANGED << n, idt, gdtr, ief, pic, end, acpiVars >>

\* No usable memory, or too little, ends in cli; hlt.
VmmInit ==
    /\ At("vmm", "iopl")
    /\ fate' \in {"running", "halted"}
    /\ UNCHANGED << n, idt, cpu, pic, fired, shown, acpiVars >>

\* zero_iopl gives RFLAGS back with IF as it was.
ZeroIopl ==
    /\ At("iopl", "acpi")
    /\ UNCHANGED << n, idt, cpu, pic, end, acpiVars >>

\* A step of acpi_init; one that faults raises a page fault.
AcpiStep ==
    /\ fate = "running" /\ pc = "acpi"
    /\ AcpiNext
    /\ IF apc' = "fault" THEN Dispatch(14) ELSE UNCHANGED end
    /\ UNCHANGED << pc, n, idt, cpu, pic >>

\* Mutant: the line a TODO wants removed is removed.
ClearApicNot ==
    /\ apc = "done" /\ At("acpi", "controller")
    /\ UNCHANGED << n, idt, cpu, pic, end, acpiVars >>
ClearApic ==
    /\ apc = "done" /\ At("acpi", "controller")
    /\ usingApic' = FALSE
    /\ UNCHANGED << n, idt, cpu, pic, end, rsdp, rsdt, apc, i, usingAcpi, apic_madt >>

\* init_pic leaves every IRQ masked, pit_init unmasks IRQ 0.
SetUpController ==
    /\ At("controller", "sti")
    /\ pic' = IF usingApic THEN pic ELSE "kernel"
    /\ UNCHANGED << n, idt, cpu, end, acpiVars >>

Sti ==
    /\ At("sti", "on")
    /\ ief' = TRUE
    /\ UNCHANGED << n, idt, idtr, gdtr, pic, end, acpiVars >>

Kernel ==
    \/ Welcome \/ GdtLoad \/ IdtSetVec \/ IdtInstall \/ VmmInit \/ ZeroIopl
    \/ AcpiStep \/ ClearApic \/ SetUpController \/ Sti
Next == Kernel \/ Interrupt \/ \E v \in Vectors : Strike(v)

Spec == Init /\ [][Next]_vars
-----------------------------------------------------------------------------
(***************************************************************************)
(* Properties                                                              *)
(***************************************************************************)
TypeOK ==
    /\ pc \in {"welcome", "gdt", "gates", "vmm", "iopl", "acpi", "controller", "sti", "on"}
    /\ n \in 0 .. Len(Gates)
    /\ idt \in [0 .. 255 -> {"absent", "junk", "gate", "stray"}]
    /\ idtr \in {"firmware", "kernel"} /\ gdtr \in {"firmware", "kernel"}
    /\ ief \in BOOLEAN
    /\ pic \in {"firmware", "kernel"}
    /\ fate \in {"running", "panic", "halted", "reset", "wild", "firmware"}
    /\ fired \in {None} \cup 0 .. 255 /\ shown \in {None} \cup 0 .. 255
    /\ AcpiTypeOK

\* While interrupts are enabled the tables belong together, and with the
\* kernel's own the PIC raises IRQ 0 only, whose gate is set: no interrupt of
\* the firmware's ends the kernel, and a tick does only through the ist that
\* idt_set_vec leaves as it was (GDT.asm:48, kernel.c:139-154, :165, IDT.c:31-44).
InterruptsHaveHandlers ==
    /\ ief => /\ idtr = gdtr
              /\ idtr = "kernel" => (pic = "kernel" /\ idt[Irq0] \in {"gate", "stray"})
    /\ fate \in {"panic", "reset", "wild"} =>
        fired # FirmwareIrq /\ (fired = Irq0 => idt[Irq0] = "stray")

\* If the memory of idt was zero when the kernel was loaded, an exception resets
\* the machine only between gdt_load and idt_install, and from then on every
\* vector that has a gate reports itself and one that has none is reported as
\* 0xB.  If it was not, an exception that is reported still is so under its own
\* number (kernel.c:123-141, IDT.c:8, :31-44, main.c:301-304).
Zeroed == \A v \in 0 .. 255 : idt[v] \in {"absent", "gate"}
FaultsReported ==
    /\ fate = "reset" => (gdtr = "kernel" /\ (idtr = "firmware" \/ ~Zeroed))
    /\ fate = "wild" => (idtr = "kernel" /\ ~Zeroed)
    /\ fate = "panic" => \/ shown = fired
                        \/ (shown = NP /\ idt[fired] = "absent")

\* Bit 0 of kern_flags, kernel.c:19: "Using APIC if set, otherwise legacy PIC".
\* It says which controller drives the timer, and no code drives an APIC, so it
\* is clear when interrupts are enabled although find_madt may have set it and
\* apic_madt still points to the table (kernel.c:148-154, acpi.c:45-46).
FlagNamesController ==
    pc = "on" => (pic = "kernel" /\ ~usingApic)
=============================================================================
