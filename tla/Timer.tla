------------------------------- MODULE Timer -------------------------------
(***************************************************************************)
(* The timer: the PIT and the PIC as the kernel programs them,             *)
(* irq0_handler with pit_tick, and the kernel's one thread from init_pic   *)
(* to the hlt loop of _start, with pit_sleep in between.                   *)
(*                                                                         *)
(* A tick may strike between any two instructions, and irq0_handler leaves *)
(* by retq, so it returns with RAX, the carry flag and the stack pointer   *)
(* changed. pit_sleep is therefore modelled instruction by instruction,    *)
(* as the Makefile's flags (no -O) compile it; instructions between which  *)
(* no tick can make a difference are one step. log and clearScreen are a   *)
(* step each.                                                              *)
(***************************************************************************)
EXTENDS Integers, Sequences

CONSTANTS
    TickMod,     \* values of the 16-bit counter ticks
    ByteMod,     \* values of AL
    EoiByte,     \* 0x20, what irq0_handler leaves in AL
    SleepTicks,  \* the argument _start passes to pit_sleep
    StackRoom,   \* words the stack has left when _start runs
    MinGap       \* steps the CPU makes, at the least, between two PIT pulses

ASSUME TimerAssumption ==
    /\ TickMod \in Nat /\ ByteMod \in Nat \ {0} /\ TickMod % ByteMod = 0
    /\ EoiByte \in 0 .. (ByteMod - 1)
    /\ SleepTicks \in 0 .. (TickMod - 1)
    /\ StackRoom \in Nat

\* 100 pulses a second leave the CPU time for far more than one run of the
\* handler and two of pit_sleep's loop.
ASSUME GapAssumption == MinGap \in Nat /\ MinGap > 12

VARIABLES
    pc,      \* the instruction the CPU executes next
    stack,   \* the words pushed since _start set up its frame, newest last
    rbp,     \* the frame pointer, as a length of stack
    eax, edx, cf,      \* registers, and the carry flag
    ief, shadow,       \* RFLAGS.IF, interrupts enabled; held off for one instruction by sti
    ticks,             \* the static counter of pit.c
    nticks, eticks,    \* pit_sleep's locals
    masked, irr, isr,  \* the PIC's mask, request and in-service bits of IRQ 0
    gap,     \* steps since the last pulse, up to MinGap
    elapsed, \* ticks counted since pit_sleep was called; no action reads it
    struck   \* instructions a tick has struck since then; only Log reads it

regs == << rbp, eax, edx, cf >>
flags == << ief, shadow >>
locals == << nticks, eticks >>
pic == << masked, irr, isr >>
history == << elapsed, struck >>
vars == << pc, stack, regs, flags, ticks, locals, pic, gap, history >>

Boot == {"init_pic", "pit_init", "sti", "call"}
Entry == {"push", "mov", "sub", "keep", "log"}
Sum == {"loadticks", "loadn", "add", "store"}
Loop == {"load", "widen", "cmp", "jb"}
Exit == {"leave", "ret"}
Main == {"awake", "clear", "sti2", "hello", "hlt"}
Handler == {"tick", "out", "hsti", "retq"}
Lost == {"wild", "overrun"}
Label == Boot \cup Entry \cup Sum \cup Loop \cup Exit \cup Main \cup Handler \cup Lost

\* A word on the stack is a return address, a saved register or a local; those
\* the CPU pushes on an interrupt are named for what they are.
InterruptFrame == << "ss", "rsp", "rflags", "cs" >>
Word == Label \cup {"saved", "local", "ss", "rsp", "rflags", "cs"}

\* gdt_load has cleared RFLAGS.IF.  The loader does not zero .bss, so ticks may
\* have any value.
Init ==
    /\ pc = "init_pic" /\ stack = << >> /\ rbp = 0
    /\ eax = 0 /\ edx = 0 /\ cf = FALSE
    /\ ief = FALSE /\ shadow = FALSE
    /\ ticks \in 0 .. (TickMod - 1)
    /\ nticks = 0 /\ eticks = 0
    /\ masked \in BOOLEAN /\ irr \in BOOLEAN /\ isr = FALSE
    /\ gap = 0 /\ elapsed = 0 /\ struck = {}

-----------------------------------------------------------------------------
(***************************************************************************)
(* The hardware                                                            *)
(***************************************************************************)
Tock == gap' = IF gap < MinGap THEN gap + 1 ELSE gap

\* A pulse while the last one is still requested is lost.
PitRaise ==
    /\ gap = MinGap
    /\ irr' = TRUE
    /\ gap' = 0
    /\ UNCHANGED << pc, stack, regs, flags, ticks, locals, masked, isr, history >>

\* The CPU takes an interrupt between two instructions.
Interrupt == ief /\ ~shadow /\ irr /\ ~masked /\ ~isr /\ pc \notin Lost

\* Words pushed beyond the stack's room overwrite memory that is not stack.
Push(ws, l) ==
    IF Len(stack) + Len(ws) <= StackRoom
    THEN pc' = l /\ stack' = stack \o ws
    ELSE pc' = "overrun" /\ UNCHANGED stack

\* irq0_handler's gate is an interrupt gate, which clears IF.
Deliver ==
    /\ Interrupt
    /\ Push(Append(InterruptFrame, pc), "tick")
    /\ irr' = FALSE /\ isr' = TRUE
    /\ ief' = FALSE
    /\ struck' = struck \cup {pc}
    /\ UNCHANGED << regs, shadow, ticks, locals, masked, gap, elapsed >>

\* The next instruction is at label l, and no interrupt comes first.
At(l) == pc = l /\ ~Interrupt /\ shadow' = FALSE /\ Tock
-----------------------------------------------------------------------------
(***************************************************************************)
(* irq0_handler                                                            *)
(***************************************************************************)
\* Mutant: the counter has more than 16 bits.
PitTickWide ==
    /\ At("tick") /\ pc' = "out"
    /\ ief' = FALSE
    /\ ticks' = ticks + 1
    /\ eax' = ((ticks + 1) \div ByteMod) * ByteMod + EoiByte
    /\ cf' = FALSE
    /\ elapsed' = IF elapsed < TickMod THEN elapsed + 1 ELSE elapsed
    /\ UNCHANGED << stack, rbp, edx, locals, pic, struck >>

\* cli; call pit_tick; mov al, 0x20.  pit_tick leaves the incremented counter
\* in EAX and no carry.
PitTick ==
    /\ At("tick") /\ pc' = "out"
    /\ ief' = FALSE
    /\ ticks' = (ticks + 1) % TickMod
    /\ eax' = ((ticks + 1) \div ByteMod) * ByteMod + EoiByte
    /\ cf' = FALSE
    /\ elapsed' = IF elapsed < TickMod THEN elapsed + 1 ELSE elapsed
    /\ UNCHANGED << stack, rbp, edx, locals, pic, struck >>

\* Mutant: the byte goes to no PIC.
EoiNot ==
    /\ At("out") /\ pc' = "hsti"
    /\ UNCHANGED << stack, regs, ief, ticks, locals, pic, history >>

\* out 0x20, al: end of interrupt.
Eoi ==
    /\ At("out") /\ pc' = "hsti"
    /\ isr' = FALSE
    /\ UNCHANGED << stack, regs, ief, ticks, locals, masked, irr, history >>

\* Mutants: sti takes effect at once; there is no sti.
HandlerStiAtOnce ==
    /\ pc = "hsti" /\ ~Interrupt /\ Tock /\ pc' = "retq"
    /\ ief' = TRUE /\ shadow' = FALSE
    /\ UNCHANGED << stack, regs, ticks, locals, pic, history >>
HandlerStiNot ==
    /\ pc = "hsti" /\ ~Interrupt /\ Tock /\ pc' = "retq"
    /\ UNCHANGED << stack, regs, flags, ticks, locals, pic, history >>

\* sti takes effect after the instruction that follows it.
HandlerSti ==
    /\ pc = "hsti" /\ ~Interrupt /\ Tock /\ pc' = "retq"
    /\ ief' = TRUE /\ shadow' = TRUE
    /\ UNCHANGED << stack, regs, ticks, locals, pic, history >>

\* Pops one word, and goes where it says if it is a return address.
Return(l) ==
    /\ At(l)
    /\ stack' = SubSeq(stack, 1, Len(stack) - 1)
    /\ pc' = IF stack[Len(stack)] \in Label THEN stack[Len(stack)] ELSE "wild"
    /\ UNCHANGED << regs, ief, ticks, locals, pic, history >>

\* Mutant: iretq, which gives the interrupted code its registers of the frame back.
Iretq ==
    /\ At("retq")
    /\ stack' = SubSeq(stack, 1, Len(stack) - 5)
    /\ pc' = stack[Len(stack)]
    /\ UNCHANGED << regs, ief, ticks, locals, pic, history >>

\* retq, where iretq would pop the rest of the frame too.
Retq == Return("retq")
-----------------------------------------------------------------------------
(***************************************************************************)
(* init and _start                                                         *)
(***************************************************************************)
\* init_pic ends with every IRQ masked; its first command word resets the PIC.
InitPic ==
    /\ At("init_pic") /\ pc' = "pit_init"
    /\ masked' = TRUE /\ irr' = FALSE /\ isr' = FALSE
    /\ UNCHANGED << stack, regs, ief, ticks, locals, history >>

\* kern_flags has USING_APIC cleared, so pit_init unmasks IRQ 0.  How much of
\* the PIT's first period is over when _start goes on is left open.
PitInit ==
    /\ pc = "pit_init" /\ ~Interrupt /\ shadow' = FALSE /\ pc' = "sti"
    /\ masked' = FALSE
    /\ gap' \in 0 .. MinGap
    /\ UNCHANGED << stack, regs, ief, ticks, locals, irr, isr, history >>

Sti(l, next) ==
    /\ pc = l /\ ~Interrupt /\ Tock /\ pc' = next
    /\ ief' = TRUE /\ shadow' = TRUE
    /\ UNCHANGED << stack, regs, ticks, locals, pic, history >>

CallSleep ==
    /\ At("call")
    /\ Push(<< "awake" >>, "push")
    /\ elapsed' = 0 /\ struck' = {}
    /\ UNCHANGED << regs, ief, ticks, locals, pic >>

\* CLI once pit_sleep has returned.
Cli ==
    /\ At("awake") /\ pc' = "clear"
    /\ ief' = FALSE
    /\ elapsed' = 0 /\ struck' = {}
    /\ UNCHANGED << stack, regs, ticks, locals, pic >>

ClearScreen ==
    /\ At("clear") /\ pc' = "sti2"
    /\ UNCHANGED << stack, regs, ief, ticks, locals, pic, history >>

\* log at label l.  A tick may strike in it where RAX holds a pointer, or in a
\* function it calls that returns without leave: then log need not return.
Log(l, next) ==
    /\ At(l)
    /\ \/ pc' = next
       \/ l \in struck /\ pc' = "wild"
    /\ UNCHANGED << stack, regs, ief, ticks, locals, pic, history >>

\* The CPU stays in clearScreen, in log or in hlt for longer than a step.
Busy ==
    /\ pc \in {"clear", "log", "hello", "hlt"} /\ ~Interrupt
    /\ gap < MinGap /\ gap' = gap + 1
    /\ shadow' = FALSE
    /\ UNCHANGED << pc, stack, regs, ief, ticks, locals, pic, history >>

-----------------------------------------------------------------------------
(***************************************************************************)
(* pit_sleep                                                               *)
(***************************************************************************)
\* push rbp
SleepPush ==
    /\ At("push")
    /\ Push(<< "saved" >>, "mov")
    /\ UNCHANGED << regs, ief, ticks, locals, pic, history >>

\* mov rbp, rsp
SleepFrame ==
    /\ At("mov") /\ pc' = "sub"
    /\ rbp' = Len(stack)
    /\ UNCHANGED << stack, eax, edx, cf, ief, ticks, locals, pic, history >>

\* sub rsp, 0x20; mov eax, edi
SleepRoom ==
    /\ At("sub")
    /\ Push(<< "local", "local", "local", "local" >>, "keep")
    /\ eax' = SleepTicks
    /\ UNCHANGED << rbp, edx, cf, ief, ticks, locals, pic, history >>

\* The argument goes to its place in the frame.
SleepArgument ==
    /\ At("keep") /\ pc' = "log"
    /\ nticks' = eax % TickMod
    /\ UNCHANGED << stack, regs, ief, ticks, eticks, pic, history >>

\* eticks = ticks + nticks, in four instructions.
SumTicks ==
    /\ At("loadticks") /\ pc' = "loadn"
    /\ eax' = ticks
    /\ UNCHANGED << stack, rbp, edx, cf, ief, ticks, locals, pic, history >>
SumNticks ==
    /\ At("loadn") /\ pc' = "add"
    /\ edx' = eax % TickMod
    /\ eax' = nticks
    /\ UNCHANGED << stack, rbp, cf, ief, ticks, locals, pic, history >>
SumAdd ==
    /\ At("add") /\ pc' = "store"
    /\ eax' = eax + edx
    /\ UNCHANGED << stack, rbp, edx, cf, ief, ticks, locals, pic, history >>
SumStore ==
    /\ At("store") /\ pc' = "load"
    /\ eticks' = eax
    /\ UNCHANGED << stack, regs, ief, ticks, nticks, pic, history >>

\* while (ticks < eticks);
LoopLoad ==
    /\ At("load") /\ pc' = "widen"
    /\ eax' = ticks
    /\ struck' = struck \ Loop
    /\ UNCHANGED << stack, rbp, edx, cf, ief, ticks, locals, pic, elapsed >>
LoopWiden ==
    /\ At("widen") /\ pc' = "cmp"
    /\ eax' = eax % TickMod
    /\ UNCHANGED << stack, rbp, edx, cf, ief, ticks, locals, pic, history >>
\* Mutants of the comparison: off by one, either way.
LoopCompareLate ==
    /\ At("cmp") /\ pc' = "jb"
    /\ cf' = (eax <= eticks)
    /\ UNCHANGED << stack, rbp, eax, edx, ief, ticks, locals, pic, history >>
LoopCompareEarly ==
    /\ At("cmp") /\ pc' = "jb"
    /\ cf' = (eax < eticks - 1)
    /\ UNCHANGED << stack, rbp, eax, edx, ief, ticks, locals, pic, history >>
LoopCompare ==
    /\ At("cmp") /\ pc' = "jb"
    /\ cf' = (eax < eticks)
    /\ UNCHANGED << stack, rbp, eax, edx, ief, ticks, locals, pic, history >>
\* Mutant: an if for the while.
LoopJumpOnce ==
    /\ At("jb") /\ pc' = "leave"
    /\ UNCHANGED << stack, regs, ief, ticks, locals, pic, history >>
LoopJump ==
    /\ At("jb")
    /\ pc' = IF cf THEN "load" ELSE "leave"
    /\ UNCHANGED << stack, regs, ief, ticks, locals, pic, history >>

\* Mutant: pit_sleep ends as a function without a frame does, with pop rbp.
LeavePop ==
    /\ At("leave") /\ pc' = "ret"
    /\ stack' = SubSeq(stack, 1, Len(stack) - 5)
    /\ rbp' = 0
    /\ nticks' = 0 /\ eticks' = 0
    /\ UNCHANGED << eax, edx, cf, ief, ticks, pic, history >>

\* leave: mov rsp, rbp; pop rbp.  The locals are gone with the frame.
Leave ==
    /\ At("leave") /\ pc' = "ret"
    /\ stack' = SubSeq(stack, 1, rbp - 1)
    /\ rbp' = 0
    /\ nticks' = 0 /\ eticks' = 0
    /\ UNCHANGED << eax, edx, cf, ief, ticks, pic, history >>

Ret == Return("ret")
-----------------------------------------------------------------------------
HandlerStep == PitTick \/ Eoi \/ HandlerSti \/ Retq
StartStep ==
    \/ InitPic \/ PitInit \/ Sti("sti", "call") \/ CallSleep
    \/ Cli \/ ClearScreen \/ Sti("sti2", "hello") \/ Log("hello", "hlt")
SleepStep ==
    \/ SleepPush \/ SleepFrame \/ SleepRoom \/ SleepArgument
    \/ Log("log", "loadticks")
    \/ SumTicks \/ SumNticks \/ SumAdd \/ SumStore
    \/ LoopLoad \/ LoopWiden \/ LoopCompare \/ LoopJump
    \/ Leave \/ Ret

CpuStep == Deliver \/ HandlerStep \/ StartStep \/ SleepStep
Next == PitRaise \/ CpuStep \/ Busy

\* The CPU executes instructions, time passes in the long ones, and the PIT,
\* in mode 3, never stops.
Spec ==
    /\ Init /\ [][Next]_vars
    /\ WF_vars(CpuStep) /\ WF_vars(Busy) /\ WF_vars(PitRaise)
-----------------------------------------------------------------------------
(***************************************************************************)
(* Properties                                                              *)
(***************************************************************************)
TypeOK ==
    /\ pc \in Label
    /\ stack \in Seq(Word) /\ Len(stack) <= StackRoom
    /\ rbp \in 0 .. StackRoom
    /\ eax \in Nat /\ edx \in 0 .. (TickMod - 1) /\ cf \in BOOLEAN
    /\ ief \in BOOLEAN /\ shadow \in BOOLEAN
    /\ ticks \in 0 .. (TickMod - 1)
    /\ nticks \in 0 .. (TickMod - 1) /\ eticks \in Nat
    /\ masked \in BOOLEAN /\ irr \in BOOLEAN /\ isr \in BOOLEAN
    /\ gap \in 0 .. MinGap
    /\ elapsed \in 0 .. TickMod
    /\ struck \in SUBSET Label

\* irq0_handler is never entered while it runs: a second frame under the first
\* would hide the first return address for good (irq.asm:8-13).
NoNesting == [][Deliver => pc \notin Handler]_vars

\* A tick makes pit_sleep lose its way if it strikes before the frame is set up
\* or after it is torn down, and only then, or in log: everywhere else leave
\* undoes what retq leaves on the stack (pit.c:42-46, irq.asm:13, etc.h:6-7).
Frameless == {"push", "mov", "ret"}
LostOnlyIfStruck ==
    /\ pc = "wild" => struck \cap (Frameless \cup {"log", "hello"}) # {}
    /\ pc = "awake" => struck \cap Frameless = {}

\* A tick never strikes pit_sleep once its loop is over, where it would be fatal:
\* a sleep of a tick or more only ends right after one (pit.c:45-46).
NotStruckLeaving == struck \cap Exit = {}

\* pit_sleep's loop ends before SleepTicks ticks were counted since the call
\* only if a tick struck where EAX or the carry flag held a value (pit.c:42-46).
SleepsLongEnough ==
    [][pc = "jb" /\ pc' = "leave" =>
        \/ elapsed >= SleepTicks
        \/ struck \cap {"keep", "loadn", "add", "store", "widen", "cmp", "jb"} # {}]_vars

\* No pulse is lost while pit_sleep waits (irq.asm, pit.c:45).
NoTickLost == [][irr /\ pc \in Loop => ~PitRaise]_vars

\* Every tick that is taken is acknowledged, unless the stack is full: IRQ 0
\* is not blocked for good (irq.asm:10-11).
TickAcknowledged == isr ~> ~isr \/ pc = "overrun"

\* A sleep whose last tick the counter can hold ends, given stack for the words
\* the ticks of a whole round of the counter leave behind (pit.c:44-45,
\* irq.asm:13).
RoomToSleep ==
    StackRoom - Len(stack) >= Len(InterruptFrame) * (TickMod + 2)
SleepEnds == (pc = "load" /\ eticks < TickMod /\ RoomToSleep) ~> pc = "leave"

\* Nothing takes back the words the ticks leave while _start is in its hlt
\* loop: the idle kernel runs out of stack (kernel.c:175-177, irq.asm:13).
IdleOverruns == pc = "hlt" ~> pc = "overrun"

\* pit.c:38, "Will overflow and wrap around to 0, so no need to worry to reset
\* the value": a sleep whose end was computed undisturbed ends.
SleepAlwaysEnds ==
    (pc = "load" /\ struck \cap Sum = {} /\ RoomToSleep) ~> pc = "leave"
=============================================================================
