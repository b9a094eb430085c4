---------------------------- MODULE TimerProofs ----------------------------
(***************************************************************************)
(* Proofs about Timer, for every size of the counter, of the stack and of  *)
(* the gap between two pulses.  The inductive invariant says, for the      *)
(* instruction the thread is at or will return to from irq0_handler, what  *)
(* the words pit_sleep is going to pop are, what its registers hold unless *)
(* a tick has struck where it matters, and how the interrupt flag, the PIC *)
(* and the gap stand.                                                      *)
(***************************************************************************)
EXTENDS Timer, TLAPS

Sleep == Entry \cup Sum \cup Loop \cup Exit
Framed == (Sleep \ {"push", "mov", "ret"})

\* Where the thread is, and how much of the stack is below the return address
\* irq0_handler will pop.
Cur == IF pc \in Handler THEN stack[Len(stack)] ELSE pc
Depth == IF pc \in Handler THEN Len(stack) - 1 ELSE Len(stack)

Unstruck(S) == S \cap struck = {}
Good(S, w) == IF Unstruck(S) THEN w = "awake" ELSE w \notin Label

\* The words on the stack.
Resumes ==
    pc \in Handler =>
        /\ Len(stack) > 0
        /\ stack[Len(stack)] \in (Label \ (Handler \cup Lost)) \cap struck
AtPush == Cur = "push" =>
    Depth >= 1 /\ Good({"push"}, stack[Depth]) /\ Unstruck({"mov", "ret"})
AtMov == Cur = "mov" =>
    Depth >= 2 /\ Good({"push", "mov"}, stack[Depth - 1]) /\ Unstruck({"ret"})
InFrame == Cur \in Framed =>
    /\ rbp >= 2 /\ rbp <= Depth
    /\ Good({"push", "mov"}, stack[rbp - 1]) /\ Unstruck({"ret"})
AtRet == Cur = "ret" => Depth >= 1 /\ Good(Frameless, stack[Depth])
AtAwake == Cur = "awake" => Unstruck(Frameless)
Shape == Resumes /\ AtPush /\ AtMov /\ InFrame /\ AtRet /\ AtAwake

\* The interrupt flag and the PIC.
HandlerFlags ==
    /\ pc \in {"tick", "out", "hsti"} => ~ief
    /\ pc = "retq" => shadow /\ ief
    /\ pc \notin Handler => ief \/ Cur \notin Sleep \cup {"call"}
    /\ shadow => pc \in {"retq", "call", "hello"}
PicReady ==
    /\ Cur \in Sleep \cup {"sti", "call"} => ~masked
    /\ Cur \in Sleep \cup {"pit_init", "sti", "call"} /\ isr => pc \in {"tick", "out"}
GapSmall ==
    Cur \in Sleep /\ irr /\ pc # "push" =>
        /\ pc = "tick" => gap <= 0
        /\ pc = "out" => gap <= 1
        /\ pc = "hsti" => gap <= 2
        /\ pc = "retq" => gap <= 3
        /\ gap <= 4

\* What registers and locals hold.
Argument == pc = "keep" /\ Unstruck({"keep"}) => eax = SleepTicks
Nticks ==
    Cur \in {"log"} \cup Sum /\ Unstruck({"keep"}) => nticks = SleepTicks
Summing ==
    /\ pc = "loadn" /\ Unstruck({"loadn"}) => eax = ticks
    /\ pc = "add" /\ Unstruck({"keep", "loadn", "add"}) => eax = SleepTicks /\ edx = ticks
    /\ pc = "store" /\ Unstruck({"keep", "loadn", "add", "store"}) => eax = SleepTicks + ticks
Enough(t, end, count) == count >= SleepTicks \/ t + SleepTicks <= end + count
Disturbed == {"keep", "loadn", "add", "store"}
Counting == Cur \in Loop /\ Unstruck(Disturbed) => Enough(ticks, eticks, elapsed)
Comparing ==
    /\ pc \in {"widen", "cmp"} /\ Unstruck(Disturbed \cup {"widen", "cmp"}) =>
            Enough(eax, eticks, elapsed)
    /\ pc = "jb" /\ Unstruck(Disturbed \cup {"widen", "cmp", "jb"}) =>
            cf \/ elapsed >= SleepTicks
Values == Argument /\ Nticks /\ Summing /\ Counting /\ Comparing

TimerInv ==
    /\ TypeOK /\ Shape /\ LostOnlyIfStruck
    /\ HandlerFlags /\ PicReady /\ GapSmall /\ Values

-----------------------------------------------------------------------------
(***************************************************************************)
(* Words pushed and popped, and remainders.                                *)
(***************************************************************************)
LEMMA PushFacts ==
    ASSUME NEW s \in Seq(Word), NEW ws \in Seq(Word)
    PROVE  /\ s \o ws \in Seq(Word)
           /\ Len(s \o ws) = Len(s) + Len(ws)
           /\ \A i \in 1 .. Len(s) : (s \o ws)[i] = s[i]
           /\ \A i \in 1 .. Len(ws) : (s \o ws)[Len(s) + i] = ws[i]
  OBVIOUS

\* The first n words of a stack.
LEMMA PopFacts ==
    ASSUME NEW s \in Seq(Word), NEW n \in 0 .. Len(s)
    PROVE  /\ SubSeq(s, 1, n) \in Seq(Word)
           /\ Len(SubSeq(s, 1, n)) = n
           /\ \A i \in 1 .. n : SubSeq(s, 1, n)[i] = s[i]
  OBVIOUS

\* A remainder is below its divisor and at most the number.
LEMMA ModRange ==
    ASSUME NEW a \in Nat, NEW b \in Nat \ {0}
    PROVE  a % b \in 0 .. (b - 1) /\ a % b <= a
  OBVIOUS

\* A quotient of naturals, and its product with the divisor, are naturals.
LEMMA DivNat ==
    ASSUME NEW a \in Nat, NEW b \in Nat \ {0}
    PROVE  a \div b \in Nat /\ (a \div b) * b \in Nat
  OBVIOUS

-----------------------------------------------------------------------------
(***************************************************************************)
(* Types.                                                                  *)
(***************************************************************************)
LEMMA Constants ==
    /\ TickMod \in Nat \ {0} /\ ByteMod \in Nat \ {0} /\ EoiByte \in Nat
    /\ SleepTicks \in Nat /\ SleepTicks < TickMod
    /\ StackRoom \in Nat /\ MinGap \in Nat /\ MinGap > 12
  BY TimerAssumption, GapAssumption

\* A push of words leaves a stack of words within its room, and moves on to the
\* next instruction or overruns.
LEMMA PushType ==
    ASSUME TypeOK, NEW ws \in Seq(Word), NEW l \in Label, Push(ws, l)
    PROVE  /\ pc' \in Label
           /\ stack' \in Seq(Word) /\ Len(stack') <= StackRoom
  BY PushFacts, Constants DEF TypeOK, Push, Label, Lost

\* The gap stays within its bound.
LEMMA TockType == ASSUME TypeOK, Tock PROVE gap' \in 0 .. MinGap
  BY Constants DEF TypeOK, Tock

\* A return from a stack that holds a word keeps the types.
LEMMA ReturnType ==
    ASSUME TypeOK, Len(stack) > 0, NEW l, Return(l)
    PROVE  TypeOK'
  <1>1. /\ stack' = SubSeq(stack, 1, Len(stack) - 1)
        /\ stack' \in Seq(Word) /\ Len(stack') <= StackRoom
    <2>1. Len(stack) - 1 \in 0 .. Len(stack)
      BY DEF TypeOK
    <2>. QED
      BY <2>1, PopFacts, Constants DEF Return, TypeOK
  <1>2. pc' \in Label
    BY DEF Return, Label, Lost
  <1>3. gap' \in 0 .. MinGap
    BY TockType DEF Return, At
  <1>. QED
    BY <1>1, <1>2, <1>3 DEF TypeOK, Return, At, regs, locals, pic, history

\* Every step keeps the types.
LEMMA TypeStep ==
    ASSUME TimerInv, [Next]_vars
    PROVE  TypeOK'
  <1>. USE DEF TimerInv, regs, flags, locals, pic, history
  <1>. DEFINE instrs == {"pit_init", "sti", "call", "push", "mov", "sub", "keep", "log",
            "loadticks", "loadn", "add", "store", "load", "widen", "cmp", "jb", "leave",
            "ret", "awake", "clear", "sti2", "hello", "hlt", "tick", "out", "hsti",
            "retq", "wild"}
  <1>0. \A l \in instrs : l \in Label
    BY DEF Label, Boot, Entry, Sum, Loop, Exit, Main, Handler, Lost
  <1>z. 0 \in 0 .. TickMod /\ 0 \in 0 .. StackRoom /\ 0 \in 0 .. (TickMod - 1)
    BY Constants
  <1>1. CASE PitRaise
    BY <1>0, <1>1, Constants DEF PitRaise, TypeOK
  <1>2. CASE Deliver
    <2>1. Append(InterruptFrame, pc) \in Seq(Word)
      BY DEF InterruptFrame, Word, TypeOK
    <2>2. /\ pc' \in Label /\ stack' \in Seq(Word) /\ Len(stack') <= StackRoom
      BY <1>0, <1>2, <2>1, PushType DEF Deliver
    <2>. QED
      BY <1>0, <1>2, <2>2 DEF Deliver, TypeOK
  <1>3. CASE PitTick
    <2>1. ticks' \in 0 .. (TickMod - 1)
      BY <1>0, <1>3, ModRange, Constants DEF PitTick, TypeOK
    <2>2. eax' \in Nat
      BY <1>0, <1>3, DivNat, Constants DEF PitTick, TypeOK
    <2>3. elapsed' \in 0 .. TickMod
      BY <1>0, <1>3, Constants DEF PitTick, TypeOK
    <2>. QED
      BY <1>0, <1>3, <2>1, <2>2, <2>3, TockType DEF PitTick, At, TypeOK
  <1>4. CASE Eoi \/ HandlerSti
    BY <1>0, <1>4, TockType DEF Eoi, HandlerSti, At, TypeOK
  <1>5. CASE Retq
    <2>1. Len(stack) > 0
      BY <1>5 DEF Retq, Return, At, Shape, Resumes, Handler
    <2>. QED
      BY <1>0, <1>5, <2>1, ReturnType DEF Retq
  <1>6. CASE InitPic \/ PitInit
    BY <1>0, <1>6, TockType DEF InitPic, PitInit, At, TypeOK
  <1>7. CASE Sti("sti", "call") \/ Sti("sti2", "hello")
    BY <1>0, <1>7, TockType DEF Sti, TypeOK
  <1>8. CASE CallSleep
    <2>1. << "awake" >> \in Seq(Word)
      BY <1>0 DEF Word
    <2>2. pc' \in Label /\ stack' \in Seq(Word) /\ Len(stack') <= StackRoom
      BY <1>0, <1>8, <2>1, PushType DEF CallSleep
    <2>. QED
      BY <1>0, <1>8, <2>2, <1>z, TockType DEF CallSleep, At, TypeOK
  <1>9. CASE Cli \/ ClearScreen
    BY <1>0, <1>9, <1>z, TockType DEF Cli, ClearScreen, At, TypeOK
  <1>10. CASE Log("hello", "hlt") \/ Log("log", "loadticks")
    BY <1>0, <1>10, TockType DEF Log, At, TypeOK
  <1>11. CASE SleepPush
    <2>1. << "saved" >> \in Seq(Word)
      BY DEF Word
    <2>2. pc' \in Label /\ stack' \in Seq(Word) /\ Len(stack') <= StackRoom
      BY <1>0, <1>11, <2>1, PushType DEF SleepPush
    <2>. QED
      BY <1>0, <1>11, <2>2, TockType DEF SleepPush, At, TypeOK
  <1>12. CASE SleepFrame
    <2>1. rbp' \in 0 .. StackRoom
      BY <1>12, Constants DEF SleepFrame, TypeOK
    <2>. QED
      BY <1>0, <1>12, <2>1, TockType DEF SleepFrame, At, TypeOK
  <1>13. CASE SleepRoom
    <2>1. << "local", "local", "local", "local" >> \in Seq(Word)
      BY DEF Word
    <2>2. pc' \in Label /\ stack' \in Seq(Word) /\ Len(stack') <= StackRoom
      BY <1>0, <1>13, <2>1, PushType DEF SleepRoom
    <2>. QED
      BY <1>0, <1>13, <2>2, TockType, Constants DEF SleepRoom, At, TypeOK
  <1>14. CASE SleepArgument
    <2>1. nticks' \in 0 .. (TickMod - 1)
      BY <1>0, <1>14, ModRange, Constants DEF SleepArgument, TypeOK
    <2>. QED
      BY <1>0, <1>14, <2>1, TockType DEF SleepArgument, At, TypeOK
  <1>15. CASE SumTicks \/ SumAdd \/ SumStore
    <2>1. eax' \in Nat /\ eticks' \in Nat
      BY <1>15, Constants DEF SumTicks, SumAdd, SumStore, TypeOK
    <2>. QED
      BY <1>0, <1>15, <2>1, TockType DEF SumTicks, SumAdd, SumStore, At, TypeOK
  <1>16. CASE SumNticks
    <2>1. edx' \in 0 .. (TickMod - 1)
      BY <1>0, <1>16, ModRange, Constants DEF SumNticks, TypeOK
    <2>2. eax' \in Nat
      BY <1>16, Constants DEF SumNticks, TypeOK
    <2>. QED
      BY <1>0, <1>16, <2>1, <2>2, TockType DEF SumNticks, At, TypeOK
  <1>17. CASE LoopWiden
    <2>1. eax' \in Nat
      BY <1>0, <1>17, ModRange, Constants DEF LoopWiden, TypeOK
    <2>. QED
      BY <1>0, <1>17, <2>1, TockType DEF LoopWiden, At, TypeOK
  <1>18. CASE LoopLoad \/ LoopCompare \/ LoopJump
    <2>1. eax' \in Nat
      BY <1>18, Constants DEF LoopLoad, LoopCompare, LoopJump, TypeOK
    <2>2. cf' \in BOOLEAN
      <3>1. CASE LoopCompare
        <4>1. (eax < eticks) \in BOOLEAN
          OBVIOUS
        <4>. QED
          BY <3>1, <4>1 DEF LoopCompare
      <3>2. CASE LoopLoad \/ LoopJump
        BY <3>2 DEF LoopLoad, LoopJump, TypeOK
      <3>. QED
        BY <1>18, <3>1, <3>2
    <2>. QED
      BY <1>0, <1>18, <2>1, <2>2, TockType DEF LoopLoad, LoopCompare, LoopJump, At, TypeOK
  <1>19. CASE Leave
    <2>1. rbp - 1 \in 0 .. Len(stack)
      BY <1>19 DEF Leave, At, Shape, InFrame, Cur, Depth, Framed, Sleep, Exit, Handler, TypeOK
    <2>2. stack' \in Seq(Word) /\ Len(stack') <= StackRoom
      BY <1>0, <1>19, <2>1, PopFacts, Constants DEF Leave, TypeOK
    <2>. QED
      BY <1>0, <1>19, <2>2, <1>z, TockType DEF Leave, At, TypeOK
  <1>20. CASE Ret
    <2>1. Len(stack) > 0
      BY <1>20 DEF Ret, Return, At, Shape, AtRet, Cur, Depth, Handler, TypeOK
    <2>. QED
      BY <1>0, <1>20, <2>1, ReturnType DEF Ret
  <1>21. CASE Busy
    <2>1. gap' \in 0 .. MinGap
      BY <1>21, Constants DEF Busy, TypeOK
    <2>. QED
      BY <1>21, <2>1 DEF Busy, TypeOK
  <1>22. CASE UNCHANGED vars
    BY <1>22 DEF vars, TypeOK
  <1>. QED
    BY <1>1, <1>2, <1>3, <1>4, <1>5, <1>6, <1>7, <1>8, <1>9, <1>10, <1>11, <1>12,
       <1>13, <1>14, <1>15, <1>16, <1>17, <1>18, <1>19, <1>20, <1>21, <1>22
    DEF Next, CpuStep, HandlerStep, StartStep, SleepStep

-----------------------------------------------------------------------------
(***************************************************************************)
(* The words on the stack.                                                 *)
(***************************************************************************)
Labels == {"init_pic", "pit_init", "sti", "call", "push", "mov", "sub", "keep", "log",
    "loadticks", "loadn", "add", "store", "load", "widen", "cmp", "jb", "leave", "ret",
    "awake", "clear", "sti2", "hello", "hlt", "tick", "out", "hsti", "retq", "wild",
    "overrun"}

\* The labels one by one.
LEMMA LabelsAre == Label = Labels
  BY DEF Labels, Label, Boot, Entry, Sum, Loop, Exit, Main, Handler, Lost

\* Instructions of the thread that leave the stack, the frame pointer and the
\* history alone, and go from one place in the frame to another or are outside
\* pit_sleep altogether, keep the shape.
LEMMA PlainShape ==
    ASSUME TimerInv, stack' = stack, rbp' = rbp, struck' = struck \ Loop \/ struck' = struck,
           pc \notin Handler, pc' \notin Handler,
           \/ pc \in Framed /\ pc' \in Framed
           \/ pc' \notin Sleep \cup {"awake"}
    PROVE  Shape'
  <1>. USE DEF TimerInv, Shape, Resumes, AtPush, AtMov, InFrame, AtRet, AtAwake, Cur, Depth,
               Framed, Sleep, Good, Unstruck, Handler, Entry, Sum, Loop, Exit, Frameless
  <1>1. CASE pc \in Framed /\ pc' \in Framed
    BY <1>1
  <1>2. CASE pc' \notin Sleep \cup {"awake"}
    BY <1>2
  <1>. QED
    BY <1>1, <1>2

\* Every step keeps the words on the stack in shape: one case per action that
\* pushes, pops or moves the frame pointer.
LEMMA ShapeStep ==
    ASSUME TimerInv, [Next]_vars
    PROVE  Shape'
  <1>. USE DEF TimerInv, regs, flags, locals, pic, history
  <1>1. CASE PitRaise \/ Busy \/ UNCHANGED vars
    BY <1>1 DEF PitRaise, Busy, vars, Shape, Resumes, AtPush, AtMov, InFrame, AtRet, AtAwake,
       Cur, Depth, Good, Unstruck
  <1>2. CASE PitTick \/ Eoi \/ HandlerSti
    BY <1>2 DEF PitTick, Eoi, HandlerSti, At, Shape, Resumes, AtPush, AtMov, InFrame, AtRet,
       AtAwake, Cur, Depth, Good, Unstruck, Handler
  <1>3. CASE \/ InitPic \/ PitInit \/ Sti("sti", "call") \/ ClearScreen
             \/ Sti("sti2", "hello") \/ Log("hello", "hlt")
    BY <1>3, PlainShape DEF InitPic, PitInit, Sti, ClearScreen, Log, At, Handler, Sleep,
       Entry, Sum, Loop, Exit
  <1>4. CASE \/ SleepArgument \/ Log("log", "loadticks") \/ SumTicks \/ SumNticks \/ SumAdd
             \/ SumStore \/ LoopWiden \/ LoopCompare \/ LoopJump
    BY <1>4, PlainShape DEF SleepArgument, Log, SumTicks, SumNticks, SumAdd, SumStore,
       LoopWiden, LoopCompare, LoopJump, At, Handler, Framed, Sleep, Entry, Sum, Loop, Exit
  <1>5. CASE LoopLoad
    BY <1>5, PlainShape DEF LoopLoad, At, Handler, Framed, Sleep, Entry, Sum, Loop, Exit
  <1>6. CASE Cli
    BY <1>6 DEF Cli, At, Shape, Resumes, AtPush, AtMov, InFrame, AtRet, AtAwake, Cur, Depth,
       Handler, Framed, Sleep, Entry, Sum, Loop, Exit
  <1>7. CASE Deliver
    <2>. DEFINE frame == Append(InterruptFrame, pc)
    <2>1. /\ Len(frame) = 5 /\ frame \in Seq(Word)
          /\ frame[3] = "rflags" /\ frame[4] = "cs" /\ frame[5] = pc
      BY DEF InterruptFrame, Word, TypeOK
    <2>2. pc \notin Lost
      BY <1>7 DEF Deliver, Interrupt
    <2>3. pc \notin Handler
      BY <1>7 DEF Deliver, Interrupt, HandlerFlags, Handler
    <2>4. CASE pc' = "overrun" /\ stack' = stack
      BY <2>4 DEF Shape, Resumes, AtPush, AtMov, InFrame, AtRet, AtAwake, Cur, Depth, Handler,
         Framed, Sleep, Entry, Sum, Loop, Exit
    <2>5. CASE pc' = "tick" /\ stack' = stack \o frame
      <3>1. /\ stack' \in Seq(Word) /\ Len(stack') = Len(stack) + 5
            /\ \A i \in 1 .. Len(stack) : stack'[i] = stack[i]
            /\ stack'[Len(stack) + 3] = "rflags" /\ stack'[Len(stack) + 4] = "cs"
            /\ stack'[Len(stack) + 5] = pc
        BY <2>1, <2>5, PushFacts DEF TypeOK
      <3>2. Cur' = pc /\ Depth' = Len(stack) + 4 /\ Cur = pc /\ Depth = Len(stack)
        BY <2>3, <2>5, <3>1 DEF Cur, Depth, Handler, TypeOK
      <3>3. struck' = struck \cup {pc} /\ rbp' = rbp
        BY <1>7 DEF Deliver
      <3>4. Len(stack) \in Nat /\ rbp \in Nat /\ pc \in Label
        BY Constants DEF TypeOK
      <3>5. "rflags" \notin Label /\ "cs" \notin Label
        BY LabelsAre DEF Labels
      <3>6. Resumes'
        BY <2>2, <2>3, <3>1, <3>3, <3>4 DEF Resumes
      <3>7. AtPush' /\ AtRet'
        BY <3>1, <3>2, <3>3, <3>4, <3>5 DEF AtPush, AtRet, Good, Unstruck, Frameless, Shape
      <3>8. AtMov'
        BY <3>1, <3>2, <3>3, <3>4, <3>5 DEF AtMov, Good, Unstruck, Shape
      <3>9. InFrame'
        BY <3>1, <3>2, <3>3, <3>4, <3>5 DEF InFrame, Good, Unstruck, Shape, Framed
      <3>10. AtAwake'
        BY <3>2, <3>3 DEF AtAwake, Unstruck, Shape, Frameless
      <3>. QED
        BY <3>6, <3>7, <3>8, <3>9, <3>10 DEF Shape
    <2>. QED
      BY <1>7, <2>4, <2>5 DEF Deliver, Push
  <1>8. CASE Retq
    <2>1. pc = "retq" /\ Len(stack) > 0 /\ stack[Len(stack)] \in Label \ (Handler \cup Lost)
      BY <1>8 DEF Retq, Return, At, Shape, Resumes, Handler
    <2>2. /\ stack' = SubSeq(stack, 1, Len(stack) - 1) /\ Len(stack') = Len(stack) - 1
          /\ \A i \in 1 .. (Len(stack) - 1) : stack'[i] = stack[i]
      <3>1. Len(stack) - 1 \in 0 .. Len(stack)
        BY <2>1 DEF TypeOK
      <3>. QED
        BY <1>8, <3>1, PopFacts DEF Retq, Return, TypeOK
    <2>3. pc' = stack[Len(stack)]
      BY <1>8, <2>1 DEF Retq, Return
    <2>4. Cur' = Cur /\ Depth' = Depth
      BY <2>1, <2>2, <2>3 DEF Cur, Depth, Handler
    <2>5. struck' = struck /\ rbp' = rbp
      BY <1>8 DEF Retq, Return
    <2>6. Len(stack) \in Nat /\ Depth = Len(stack) - 1 /\ rbp \in Nat
      BY <2>1, Constants DEF TypeOK, Depth, Handler
    <2>. QED
      BY <2>1, <2>2, <2>3, <2>4, <2>5, <2>6 DEF Shape, Resumes, AtPush, AtMov, InFrame, AtRet,
         AtAwake, Good, Unstruck
  <1>9. CASE CallSleep
    <2>1. pc \notin Handler /\ struck' = {} /\ rbp' = rbp
      BY <1>9 DEF CallSleep, At, Handler
    <2>2. CASE pc' = "overrun"
      BY <2>2 DEF Shape, Resumes, AtPush, AtMov, InFrame, AtRet, AtAwake, Cur, Handler,
         Framed, Sleep, Entry, Sum, Loop, Exit
    <2>3. CASE pc' = "push" /\ stack' = stack \o << "awake" >>
      <3>1. Len(stack') = Len(stack) + 1 /\ stack'[Len(stack) + 1] = "awake"
        BY <2>3 DEF TypeOK
      <3>2. Cur' = "push" /\ Depth' = Len(stack) + 1
        BY <2>3, <3>1 DEF Cur, Depth, Handler
      <3>. QED
        BY <2>1, <2>3, <3>1, <3>2 DEF Shape, Resumes, AtPush, AtMov, InFrame, AtRet, AtAwake,
           Good, Unstruck, Handler, Framed, Sleep, Entry, Sum, Loop, Exit, TypeOK
    <2>. QED
      BY <1>9, <2>2, <2>3 DEF CallSleep, Push
  <1>10. CASE SleepPush
    <2>1. pc = "push" /\ struck' = struck /\ rbp' = rbp
      BY <1>10 DEF SleepPush, At
    <2>2. CASE pc' = "overrun"
      BY <2>2 DEF Shape, Resumes, AtPush, AtMov, InFrame, AtRet, AtAwake, Cur, Handler,
         Framed, Sleep, Entry, Sum, Loop, Exit
    <2>3. CASE pc' = "mov" /\ stack' = stack \o << "saved" >>
      <3>1. Len(stack') = Len(stack) + 1 /\ \A i \in 1 .. Len(stack) : stack'[i] = stack[i]
        BY <2>3 DEF TypeOK
      <3>2. Cur' = "mov" /\ Depth' = Len(stack) + 1 /\ Cur = "push" /\ Depth = Len(stack)
        BY <2>1, <2>3, <3>1 DEF Cur, Depth, Handler
      <3>3. "mov" \notin struck /\ "ret" \notin struck
        BY <2>1, <3>2 DEF Shape, AtPush, Unstruck
      <3>. QED
        BY <2>1, <2>3, <3>1, <3>2, <3>3 DEF Shape, Resumes, AtPush, AtMov, InFrame, AtRet,
           AtAwake, Good, Unstruck, Handler, Framed, Sleep, Entry, Sum, Loop, Exit, TypeOK
    <2>. QED
      BY <1>10, <2>2, <2>3 DEF SleepPush, Push
  <1>11. CASE SleepFrame
    <2>1. pc = "mov" /\ pc' = "sub" /\ struck' = struck /\ rbp' = Len(stack) /\ stack' = stack
      BY <1>11 DEF SleepFrame, At
    <2>. QED
      BY <2>1 DEF Shape, Resumes, AtPush, AtMov, InFrame, AtRet, AtAwake, Cur, Depth,
         Good, Unstruck, Handler, Framed, Sleep, Entry, Sum, Loop, Exit, TypeOK
  <1>12. CASE SleepRoom
    <2>1. pc = "sub" /\ struck' = struck /\ rbp' = rbp
      BY <1>12 DEF SleepRoom, At
    <2>2. CASE pc' = "overrun"
      BY <2>2 DEF Shape, Resumes, AtPush, AtMov, InFrame, AtRet, AtAwake, Cur, Handler,
         Framed, Sleep, Entry, Sum, Loop, Exit
    <2>3. CASE pc' = "keep" /\ stack' = stack \o << "local", "local", "local", "local" >>
      <3>1. Len(stack') = Len(stack) + 4 /\ \A i \in 1 .. Len(stack) : stack'[i] = stack[i]
        BY <2>3 DEF TypeOK
      <3>. QED
        BY <2>1, <2>3, <3>1 DEF Shape, Resumes, AtPush, AtMov, InFrame, AtRet, AtAwake, Cur,
           Depth, Good, Unstruck, Handler, Framed, Sleep, Entry, Sum, Loop, Exit, TypeOK
    <2>. QED
      BY <1>12, <2>2, <2>3 DEF SleepRoom, Push
  <1>13. CASE Leave
    <2>1. pc = "leave" /\ pc' = "ret" /\ struck' = struck
      BY <1>13 DEF Leave, At
    <2>2. rbp >= 2 /\ rbp <= Len(stack) /\ Good({"push", "mov"}, stack[rbp - 1])
      BY <2>1 DEF Shape, InFrame, Cur, Depth, Handler, Framed, Sleep, Exit
    <2>3. Len(stack') = rbp - 1 /\ stack'[rbp - 1] = stack[rbp - 1]
      <3>1. rbp - 1 \in 0 .. Len(stack)
        BY <2>2, Constants DEF TypeOK
      <3>. QED
        BY <1>13, <2>2, <3>1, PopFacts DEF Leave, TypeOK
    <2>4. "ret" \notin struck
      BY <2>1 DEF Shape, InFrame, Unstruck, Cur, Handler, Framed, Sleep, Exit
    <2>. QED
      BY <2>1, <2>2, <2>3, <2>4 DEF Shape, Resumes, AtPush, AtMov, InFrame, AtRet, AtAwake, Cur,
         Depth, Good, Unstruck, Handler, Framed, Sleep, Entry, Sum, Loop, Exit, Frameless, TypeOK
  <1>14. CASE Ret
    <2>1. pc = "ret" /\ struck' = struck
      BY <1>14 DEF Ret, Return, At
    <2>2. Len(stack) >= 1 /\ Good(Frameless, stack[Len(stack)])
      BY <2>1 DEF Shape, AtRet, Cur, Depth, Handler
    <2>3. CASE Unstruck(Frameless)
      <3>1. pc' = "awake"
        BY <1>14, <2>2, <2>3, LabelsAre DEF Ret, Return, Good, Labels
      <3>. QED
        BY <2>1, <2>3, <3>1 DEF Shape, Resumes, AtPush, AtMov, InFrame, AtRet, AtAwake, Cur,
           Unstruck, Handler, Framed, Sleep, Entry, Sum, Loop, Exit
    <2>4. CASE ~Unstruck(Frameless)
      <3>1. pc' = "wild"
        BY <1>14, <2>2, <2>4 DEF Ret, Return, Good
      <3>. QED
        BY <3>1 DEF Shape, Resumes, AtPush, AtMov, InFrame, AtRet, AtAwake, Cur,
           Handler, Framed, Sleep, Entry, Sum, Loop, Exit
    <2>. QED
      BY <2>3, <2>4
  <1>. QED
    BY <1>1, <1>2, <1>3, <1>4, <1>5, <1>6, <1>7, <1>8, <1>9, <1>10, <1>11, <1>12, <1>13, <1>14
    DEF Next, CpuStep, HandlerStep, StartStep, SleepStep

\* The thread loses its way in log, and where Ret finds the wrong word.
LEMMA LostStep ==
    ASSUME TimerInv, [Next]_vars, Shape'
    PROVE  LostOnlyIfStruck'
  <1>. USE DEF TimerInv, LostOnlyIfStruck, regs, flags, locals, pic, history
  <1>1. pc' = "awake" => (struck \cap Frameless = {})'
    BY DEF Shape, AtAwake, Cur, Unstruck, Handler
  <1>2. SUFFICES ASSUME pc' = "wild"
                 PROVE  struck' \cap (Frameless \cup {"log", "hello"}) # {}
    BY <1>1
  <1>3. CASE PitRaise \/ Busy \/ UNCHANGED vars
    BY <1>2, <1>3 DEF PitRaise, Busy, vars
  <1>4. CASE Log("log", "loadticks") \/ Log("hello", "hlt")
    BY <1>2, <1>4 DEF Log
  <1>5. CASE Retq
    BY <1>2, <1>5 DEF Retq, Return, At, Shape, Resumes, Handler, Lost
  <1>6. CASE Ret
    <2>1. Cur = "ret" /\ Depth = Len(stack) /\ Len(stack) >= 1
      BY <1>6 DEF Ret, Return, At, Cur, Depth, Handler, Shape, AtRet
    <2>2. Good(Frameless, stack[Len(stack)])
      BY <2>1 DEF Shape, AtRet
    <2>3. CASE Unstruck(Frameless)
      BY <1>2, <1>6, <2>2, <2>3, LabelsAre DEF Ret, Return, Good, Labels
    <2>4. CASE ~Unstruck(Frameless)
      BY <1>6, <2>4 DEF Ret, Return, Unstruck
    <2>. QED
      BY <2>3, <2>4
  <1>7. CASE Deliver \/ CallSleep \/ SleepPush \/ SleepRoom
    BY <1>2, <1>7 DEF Deliver, CallSleep, SleepPush, SleepRoom, Push
  <1>8. CASE PitTick \/ Eoi \/ HandlerSti
    BY <1>2, <1>8 DEF PitTick, Eoi, HandlerSti
  <1>9. CASE \/ InitPic \/ PitInit \/ Sti("sti", "call") \/ Cli \/ ClearScreen
             \/ Sti("sti2", "hello")
    BY <1>2, <1>9 DEF InitPic, PitInit, Sti, Cli, ClearScreen
  <1>10. CASE \/ SleepFrame \/ SleepArgument \/ SumTicks \/ SumNticks \/ SumAdd \/ SumStore
              \/ LoopLoad \/ LoopWiden \/ LoopCompare \/ LoopJump \/ Leave
    BY <1>2, <1>10 DEF SleepFrame, SleepArgument, SumTicks, SumNticks, SumAdd, SumStore,
       LoopLoad, LoopWiden, LoopCompare, LoopJump, Leave
  <1>. QED
    BY <1>3, <1>4, <1>5, <1>6, <1>7, <1>8, <1>9, <1>10
    DEF Next, CpuStep, HandlerStep, StartStep, SleepStep

-----------------------------------------------------------------------------
(***************************************************************************)
(* The interrupt flag, the PIC and the gap.                                *)
(***************************************************************************)
\* While irq0_handler runs, the thread stays where it is.
LEMMA CurStep ==
    ASSUME TimerInv, Deliver \/ HandlerStep
    PROVE  pc' = "overrun" \/ Cur' = Cur
  <1>. USE DEF TimerInv
  <1>1. CASE Deliver
    <2>1. pc \notin Handler
      BY <1>1 DEF Deliver, Interrupt, HandlerFlags, Handler
    <2>2. CASE pc' = "tick" /\ stack' = stack \o Append(InterruptFrame, pc)
      <3>1. /\ Append(InterruptFrame, pc) \in Seq(Word) /\ Len(Append(InterruptFrame, pc)) = 5
            /\ Append(InterruptFrame, pc)[5] = pc
        BY DEF InterruptFrame, Word, TypeOK
      <3>2. Len(stack') = Len(stack) + 5 /\ stack'[Len(stack) + 5] = pc
        BY <2>2, <3>1, PushFacts DEF TypeOK
      <3>. QED
        BY <2>1, <2>2, <3>2 DEF Cur, Handler
    <2>. QED
      BY <1>1, <2>2 DEF Deliver, Push
  <1>2. CASE PitTick \/ Eoi \/ HandlerSti
    BY <1>2 DEF PitTick, Eoi, HandlerSti, At, Cur, Handler
  <1>3. CASE Retq
    BY <1>3 DEF Retq, Return, At, Shape, Resumes, Cur, Handler
  <1>. QED
    BY <1>1, <1>2, <1>3 DEF HandlerStep

\* retq goes back to the instruction that was struck.
LEMMA RetqFacts ==
    ASSUME TimerInv, Retq
    PROVE  /\ pc = "retq" /\ pc' = Cur /\ Cur' = Cur
           /\ pc' \in struck /\ pc' \notin Handler \cup Lost
  BY DEF TimerInv, Retq, Return, At, Shape, Resumes, Cur, Handler

\* In pit_sleep an interrupt that is requested is taken.
LEMMA NothingRequested ==
    ASSUME TimerInv, pc \in Sleep, ~Interrupt
    PROVE  ~irr
  <1>1. pc \notin Handler /\ pc \notin Lost /\ Cur = pc
    BY DEF Sleep, Entry, Sum, Loop, Exit, Handler, Lost, Cur
  <1>2. ief /\ ~shadow
    BY <1>1 DEF TimerInv, HandlerFlags, Sleep, Entry, Sum, Loop, Exit
  <1>3. ~masked /\ ~isr
    BY <1>1 DEF TimerInv, PicReady, Handler
  <1>. QED
    BY <1>1, <1>2, <1>3 DEF Interrupt

\* A step of pit_sleep leaves the interrupt flag and the PIC alone, and goes on in
\* pit_sleep, back to _start or astray.
LEMMA SleepPath ==
    ASSUME TimerInv, SleepStep
    PROVE  /\ pc \in Sleep /\ Cur = pc /\ ~irr
           /\ pc' \in Sleep \cup {"awake", "wild", "overrun"} /\ Cur' = pc'
           /\ UNCHANGED << ief, masked, irr, isr, ticks >> /\ shadow' = FALSE
  <1>. USE DEF TimerInv, regs, flags, locals, pic, history
  <1>1. /\ pc \in Sleep /\ ~Interrupt
        /\ UNCHANGED << ief, masked, irr, isr, ticks >> /\ shadow' = FALSE
    BY DEF SleepStep, SleepPush, SleepFrame, SleepRoom, SleepArgument, Log, SumTicks,
       SumNticks, SumAdd, SumStore, LoopLoad, LoopWiden, LoopCompare, LoopJump, Leave, Ret,
       Return, At, Sleep, Entry, Sum, Loop, Exit
  <1>2. pc' \in Sleep \cup {"awake", "wild", "overrun"}
    <2>1. CASE Ret
      <3>1. Len(stack) >= 1 /\ Good(Frameless, stack[Len(stack)])
        BY <2>1 DEF Ret, Return, At, Shape, AtRet, Cur, Depth, Handler
      <3>. QED
        BY <2>1, <3>1 DEF Ret, Return, Good
    <2>2. CASE ~Ret
      BY <2>2 DEF SleepStep, SleepPush, SleepFrame, SleepRoom, SleepArgument, Log, SumTicks,
         SumNticks, SumAdd, SumStore, LoopLoad, LoopWiden, LoopCompare, LoopJump, Leave, At,
         Push, Sleep, Entry, Sum, Loop, Exit
    <2>. QED
      BY <2>1, <2>2
  <1>3. Cur = pc /\ Cur' = pc'
    BY <1>1, <1>2 DEF Cur, Handler, Sleep, Entry, Sum, Loop, Exit
  <1>. QED
    BY <1>1, <1>2, <1>3, NothingRequested

\* Every step keeps what is known of the interrupt flag and the PIC.
LEMMA FlagStep ==
    ASSUME TimerInv, [Next]_vars
    PROVE  HandlerFlags' /\ PicReady'
  <1>. USE DEF TimerInv, HandlerFlags, PicReady, regs, flags, locals, pic, history
  <1>1. CASE PitRaise \/ Busy \/ UNCHANGED vars
    BY <1>1 DEF PitRaise, Busy, vars, Cur
  <1>2. CASE Deliver
    <2>1. pc' = "tick" \/ pc' = "overrun"
      BY <1>2 DEF Deliver, Push
    <2>2. pc' = "overrun" \/ Cur' = Cur
      BY <1>2, CurStep
    <2>3. pc' = "overrun" => Cur' = "overrun"
      BY DEF Cur, Handler
    <2>. QED
      BY <1>2, <2>1, <2>2, <2>3 DEF Deliver, Interrupt, Handler, Sleep, Entry, Sum, Loop, Exit
  <1>3. CASE PitTick \/ Eoi \/ HandlerSti
    <2>1. pc' \in {"out", "hsti", "retq"}
      BY <1>3 DEF PitTick, Eoi, HandlerSti
    <2>2. Cur' = Cur
      BY <1>3, <2>1, CurStep DEF HandlerStep
    <2>. QED
      BY <1>3, <2>1, <2>2 DEF PitTick, Eoi, HandlerSti, At, Handler
  <1>4. CASE Retq
    BY <1>4, RetqFacts DEF Retq, Return, At, Handler
  <1>5. CASE \/ InitPic \/ PitInit \/ Sti("sti", "call") \/ Cli \/ ClearScreen
             \/ Sti("sti2", "hello") \/ Log("hello", "hlt")
    BY <1>5 DEF InitPic, PitInit, Sti, Cli, ClearScreen, Log, At, Cur, Handler,
       Sleep, Entry, Sum, Loop, Exit
  <1>6. CASE CallSleep
    <2>1. pc = "call" /\ (pc' = "push" \/ pc' = "overrun")
      BY <1>6 DEF CallSleep, At, Push
    <2>. QED
      BY <1>6, <2>1 DEF CallSleep, At, Cur, Handler, Sleep, Entry, Sum, Loop, Exit
  <1>7. CASE SleepStep
    <2>1. /\ pc \in Sleep /\ Cur = pc /\ Cur' = pc'
          /\ pc' \in Sleep \cup {"awake", "wild", "overrun"}
          /\ UNCHANGED << ief, masked, isr >> /\ shadow' = FALSE
      BY <1>7, SleepPath
    <2>2. pc \notin Handler /\ pc' \notin Handler
      BY <2>1 DEF Handler, Sleep, Entry, Sum, Loop, Exit
    <2>3. ief /\ ~masked /\ ~isr
      BY <2>1, <2>2 DEF Handler
    <2>4. Cur' \notin {"retq", "sti", "call", "pit_init"}
      BY <2>1 DEF Sleep, Entry, Sum, Loop, Exit
    <2>. QED
      BY <2>1, <2>2, <2>3, <2>4 DEF Handler
  <1>. QED
    BY <1>1, <1>2, <1>3, <1>4, <1>5, <1>6, <1>7
    DEF Next, CpuStep, HandlerStep, StartStep

\* Every step keeps the gap small while a tick is requested in pit_sleep.
LEMMA GapStep ==
    ASSUME TimerInv, [Next]_vars
    PROVE  GapSmall'
  <1>. USE DEF TimerInv, GapSmall, regs, flags, locals, pic, history
  <1>0. gap \in Nat
    BY Constants DEF TypeOK
  <1>1. CASE PitRaise
    BY <1>1 DEF PitRaise
  <1>2. CASE UNCHANGED vars
    BY <1>2 DEF vars, Cur
  <1>3. CASE Deliver
    BY <1>3 DEF Deliver
  <1>4. CASE PitTick \/ Eoi \/ HandlerSti
    <2>1. pc' \in {"out", "hsti", "retq"}
      BY <1>4 DEF PitTick, Eoi, HandlerSti
    <2>2. Cur' = Cur
      BY <1>4, <2>1, CurStep DEF HandlerStep
    <2>3. irr' = irr /\ gap' <= gap + 1
      BY <1>0, <1>4 DEF PitTick, Eoi, HandlerSti, At, Tock
    <2>4. gap' \in Nat
      BY <1>4, TockType, Constants DEF PitTick, Eoi, HandlerSti, At
    <2>. QED
      BY <1>0, <1>4, <2>1, <2>2, <2>3, <2>4 DEF PitTick, Eoi, HandlerSti, At
  <1>5. CASE Retq
    <2>1. gap' \in Nat /\ irr' = irr /\ gap' <= gap + 1
      BY <1>0, <1>5 DEF Retq, Return, At, Tock
    <2>. QED
      BY <1>0, <1>5, <2>1, RetqFacts DEF Handler
  <1>6. CASE \/ InitPic \/ PitInit \/ Sti("sti", "call") \/ Cli \/ ClearScreen
             \/ Sti("sti2", "hello") \/ Log("hello", "hlt")
    BY <1>6 DEF InitPic, PitInit, Sti, Cli, ClearScreen, Log, Cur, Handler,
       Sleep, Entry, Sum, Loop, Exit
  <1>7. CASE CallSleep
    BY <1>7 DEF CallSleep, Push, Cur, Handler, Sleep, Entry, Sum, Loop, Exit
  <1>8. CASE SleepStep
    BY <1>8, SleepPath
  <1>9. CASE Busy
    <2>1. CASE pc = "log"
      BY <1>9, <2>1, NothingRequested DEF Busy, Sleep, Entry
    <2>2. CASE pc # "log"
      BY <1>9, <2>2 DEF Busy, Cur, Handler, Sleep, Entry, Sum, Loop, Exit
    <2>. QED
      BY <2>1, <2>2
  <1>. QED
    BY <1>1, <1>2, <1>3, <1>4, <1>5, <1>6, <1>7, <1>8, <1>9
    DEF Next, CpuStep, HandlerStep, StartStep

-----------------------------------------------------------------------------
(***************************************************************************)
(* What registers and locals hold.                                         *)
(***************************************************************************)
LEMMA ModSmall ==
    ASSUME NEW a \in Nat, NEW b \in Nat \ {0}, a < b
    PROVE  a % b = a
  OBVIOUS

\* The arithmetic of one more tick.
LEMMA LaterByOne ==
    ASSUME NEW t \in Nat, NEW u \in Nat, NEW end \in Nat, NEW count \in Nat, NEW s \in Nat,
           u <= t + 1, t + s <= end + count
    PROVE  u + s <= end + (count + 1)
  OBVIOUS

\* A tick is counted at most once by the counter and, unless it is past the
\* sleep already, once by elapsed.
LEMMA TickElapses ==
    ASSUME TimerInv, PitTick, Enough(ticks, eticks, elapsed)
    PROVE  Enough(ticks', eticks', elapsed')
  <1>1. /\ ticks \in Nat /\ eticks \in Nat /\ elapsed \in Nat /\ SleepTicks \in Nat
        /\ TickMod \in Nat \ {0} /\ SleepTicks < TickMod
    BY Constants DEF TimerInv, TypeOK
  <1>2. ticks' <= ticks + 1 /\ ticks' \in Nat
    <2>1. ticks + 1 \in Nat /\ ticks' = (ticks + 1) % TickMod
      BY <1>1 DEF PitTick
    <2>2. /\ (ticks + 1) % TickMod \in 0 .. (TickMod - 1)
          /\ (ticks + 1) % TickMod <= ticks + 1
      BY <1>1, <2>1, ModRange
    <2>. QED
      BY <2>1, <2>2, <1>1
  <1>3. eticks' = eticks
    BY DEF PitTick, locals
  <1>4. CASE elapsed' = elapsed + 1
    <2>1. elapsed >= SleepTicks => elapsed' >= SleepTicks
      BY <1>1, <1>4
    <2>2. ticks + SleepTicks <= eticks + elapsed => ticks' + SleepTicks <= eticks' + elapsed'
      <3>1. ticks + SleepTicks <= eticks + elapsed
            => ticks' + SleepTicks <= eticks + (elapsed + 1)
        BY <1>1, <1>2, LaterByOne
      <3>. QED
        BY <1>3, <1>4, <3>1
    <2>. QED
      BY <2>1, <2>2 DEF Enough
  <1>5. CASE elapsed >= TickMod /\ elapsed' = elapsed
    BY <1>1, <1>3, <1>5 DEF Enough
  <1>. QED
    BY <1>1, <1>4, <1>5 DEF PitTick

\* A remainder is no later than the number, and what is not below the end of the
\* sleep has slept long enough.
LEMMA EnoughFacts ==
    ASSUME NEW t \in Nat, NEW u \in Nat, NEW end \in Nat, NEW count \in Nat,
           Enough(t, end, count)
    PROVE  /\ u <= t => Enough(u, end, count)
           /\ t >= end => count >= SleepTicks
  <1>1. SleepTicks \in Nat
    BY Constants
  <1>2. u <= t => Enough(u, end, count)
    BY <1>1 DEF Enough
  <1>3. t >= end => count >= SleepTicks
    BY <1>1 DEF Enough
  <1>. QED
    BY <1>2, <1>3

\* An instruction the handler returns to has been struck.
LEMMA ValueStep ==
    ASSUME TimerInv, [Next]_vars
    PROVE  Values'
  <1>. USE DEF TimerInv, Values, regs, flags, locals, pic, history
  <1>1. CASE PitRaise \/ Busy \/ UNCHANGED vars
    BY <1>1 DEF PitRaise, Busy, vars, Argument, Nticks, Summing, Counting, Comparing, Cur,
       Unstruck
  <1>2. CASE Deliver
    <2>1. \/ pc' = "tick" /\ Cur' = Cur
          \/ pc' = "overrun" /\ Cur' = "overrun"
      <3>1. pc' = "tick" \/ pc' = "overrun"
        BY <1>2 DEF Deliver, Push
      <3>2. pc' = "overrun" => Cur' = "overrun"
        BY DEF Cur, Handler
      <3>3. pc' = "overrun" \/ Cur' = Cur
        BY <1>2, CurStep
      <3>. QED
        BY <3>1, <3>2, <3>3
    <2>2. UNCHANGED << regs, ticks, locals, elapsed >> /\ struck \subseteq struck'
      BY <1>2 DEF Deliver
    <2>3. Argument' /\ Summing' /\ Comparing'
      BY <2>1 DEF Argument, Summing, Comparing
    <2>4. Nticks' /\ Counting'
      BY <2>1, <2>2 DEF Nticks, Counting, Unstruck, Sum, Loop
    <2>. QED
      BY <2>3, <2>4
  <1>3. CASE PitTick \/ Eoi \/ HandlerSti
    <2>1. pc' \in {"out", "hsti", "retq"}
      BY <1>3 DEF PitTick, Eoi, HandlerSti
    <2>2. Cur' = Cur
      BY <1>3, <2>1, CurStep DEF HandlerStep
    <2>3. UNCHANGED << locals, struck >>
      BY <1>3 DEF PitTick, Eoi, HandlerSti
    <2>4. Argument' /\ Summing' /\ Comparing'
      BY <2>1 DEF Argument, Summing, Comparing
    <2>5. Nticks'
      BY <2>2, <2>3 DEF Nticks, Unstruck
    <2>6. Counting'
      <3>1. CASE PitTick
        BY <2>2, <2>3, <3>1, TickElapses DEF Counting, Unstruck
      <3>2. CASE Eoi \/ HandlerSti
        BY <2>2, <2>3, <3>2 DEF Eoi, HandlerSti, Counting, Unstruck
      <3>. QED
        BY <1>3, <3>1, <3>2
    <2>. QED
      BY <2>4, <2>5, <2>6
  <1>4. CASE Retq
    <2>1. Cur' = Cur /\ pc' \in struck
      BY <1>4, RetqFacts
    <2>2. UNCHANGED << regs, ticks, locals, history >>
      BY <1>4 DEF Retq, Return
    <2>3. Argument' /\ Summing' /\ Comparing'
      BY <2>1, <2>2 DEF Argument, Summing, Comparing, Unstruck
    <2>4. Nticks' /\ Counting'
      BY <2>1, <2>2 DEF Nticks, Counting, Unstruck
    <2>. QED
      BY <2>3, <2>4
  <1>5. CASE StartStep \/ SleepPush \/ SleepFrame \/ Leave \/ Ret
    <2>1. pc' \notin {"keep", "log"} \cup Sum \cup Loop \cup Handler
      <3>1. CASE StartStep
        BY <3>1 DEF StartStep, InitPic, PitInit, Sti, CallSleep, Cli, ClearScreen, Log, Push,
           Sum, Loop, Handler
      <3>2. CASE SleepPush \/ SleepFrame \/ Leave
        BY <3>2 DEF SleepPush, SleepFrame, Leave, Push, Sum, Loop, Handler
      <3>3. CASE Ret
        <4>1. Good(Frameless, stack[Len(stack)])
          BY <3>3 DEF Ret, Return, At, Shape, AtRet, Cur, Depth, Handler
        <4>. QED
          BY <3>3, <4>1 DEF Ret, Return, Good, Sum, Loop, Handler
      <3>. QED
        BY <1>5, <3>1, <3>2, <3>3
    <2>2. Cur' = pc'
      BY <2>1 DEF Cur
    <2>. QED
      BY <2>1, <2>2 DEF Argument, Nticks, Summing, Counting, Comparing, Sum, Loop
  <1>6. CASE SleepRoom
    <2>1. pc' \in {"keep", "overrun"} /\ eax' = SleepTicks
      BY <1>6 DEF SleepRoom, Push
    <2>2. Cur' = pc'
      BY <2>1 DEF Cur, Handler
    <2>. QED
      BY <2>1, <2>2 DEF Argument, Nticks, Summing, Counting, Comparing, Sum, Loop
  <1>7. CASE SleepArgument
    <2>1. /\ pc = "keep" /\ pc' = "log" /\ Cur' = pc' /\ nticks' = eax % TickMod
          /\ struck' = struck
      BY <1>7 DEF SleepArgument, At, Cur, Handler
    <2>2. SleepTicks % TickMod = SleepTicks
      BY Constants, ModSmall
    <2>3. Nticks'
      BY <2>1, <2>2 DEF Argument, Nticks, Unstruck
    <2>. QED
      BY <2>1, <2>3 DEF Argument, Summing, Counting, Comparing, Loop
  <1>8. CASE Log("log", "loadticks") \/ SumTicks
    <2>1. /\ pc \in {"log", "loadticks"} /\ pc' \in {"loadticks", "wild", "loadn"}
          /\ UNCHANGED << ticks, locals, struck >> /\ (pc' = "loadn" => eax' = ticks)
      BY <1>8 DEF Log, SumTicks, At
    <2>2. Cur = pc /\ Cur' = pc'
      BY <2>1 DEF Cur, Handler
    <2>3. Nticks'
      BY <2>1, <2>2 DEF Nticks, Unstruck, Sum
    <2>. QED
      BY <2>1, <2>2, <2>3 DEF Argument, Summing, Counting, Comparing, Loop
  <1>9. CASE SumNticks
    <2>1. /\ pc = "loadn" /\ pc' = "add" /\ Cur = pc /\ Cur' = pc'
          /\ edx' = eax % TickMod /\ eax' = nticks /\ UNCHANGED << ticks, locals, struck >>
      BY <1>9 DEF SumNticks, At, Cur, Handler
    <2>2. ticks % TickMod = ticks
      <3>1. ticks \in Nat /\ TickMod \in Nat \ {0} /\ ticks < TickMod
        BY Constants DEF TypeOK
      <3>. QED
        BY <3>1, ModSmall
    <2>3. Nticks'
      BY <2>1 DEF Nticks, Unstruck, Sum
    <2>4. Summing'
      BY <2>1, <2>2 DEF Nticks, Summing, Unstruck, Sum
    <2>. QED
      BY <2>1, <2>3, <2>4 DEF Argument, Counting, Comparing, Loop
  <1>10. CASE SumAdd
    <2>1. /\ pc = "add" /\ pc' = "store" /\ Cur = pc /\ Cur' = pc'
          /\ eax' = eax + edx /\ UNCHANGED << ticks, locals, struck >>
      BY <1>10 DEF SumAdd, At, Cur, Handler
    <2>2. Nticks'
      BY <2>1 DEF Nticks, Unstruck, Sum
    <2>3. Summing'
      BY <2>1 DEF Summing, Unstruck
    <2>. QED
      BY <2>1, <2>2, <2>3 DEF Argument, Counting, Comparing, Loop
  <1>11. CASE SumStore
    <2>1. /\ pc = "store" /\ pc' = "load" /\ Cur' = pc'
          /\ eticks' = eax /\ UNCHANGED << ticks, history >>
      BY <1>11 DEF SumStore, At, Cur, Handler
    <2>2. /\ ticks \in Nat /\ elapsed \in Nat /\ SleepTicks \in Nat
      BY Constants DEF TypeOK
    <2>3. Counting'
      <3>1. Unstruck(Disturbed)' => eax = SleepTicks + ticks
        BY <2>1 DEF Summing, Unstruck, Disturbed
      <3>2. eax = SleepTicks + ticks => Enough(ticks', eticks', elapsed')
        BY <2>1, <2>2 DEF Enough
      <3>. QED
        BY <3>1, <3>2 DEF Counting
    <2>. QED
      BY <2>1, <2>3 DEF Argument, Nticks, Summing, Comparing, Sum
  <1>12. CASE LoopLoad
    <2>1. /\ pc = "load" /\ pc' = "widen" /\ Cur = pc /\ Cur' = pc' /\ eax' = ticks
          /\ UNCHANGED << ticks, locals, elapsed >> /\ struck' = struck \ Loop
      BY <1>12 DEF LoopLoad, At, Cur, Handler
    <2>2. Unstruck(Disturbed)' => Enough(ticks, eticks, elapsed)
      BY <2>1 DEF Counting, Unstruck, Disturbed, Loop
    <2>3. Counting'
      BY <2>1, <2>2 DEF Counting
    <2>4. Comparing'
      BY <2>1, <2>2 DEF Comparing, Unstruck
    <2>. QED
      BY <2>1, <2>3, <2>4 DEF Argument, Nticks, Summing, Sum
  <1>13. CASE LoopWiden
    <2>1. /\ pc = "widen" /\ pc' = "cmp" /\ Cur = pc /\ Cur' = pc'
          /\ eax' = eax % TickMod /\ UNCHANGED << ticks, locals, history >>
      BY <1>13 DEF LoopWiden, At, Cur, Handler
    <2>2. eax \in Nat /\ eax % TickMod \in Nat /\ eax % TickMod <= eax
      <3>1. eax \in Nat /\ TickMod \in Nat \ {0}
        BY Constants DEF TypeOK
      <3>. QED
        BY <3>1, ModRange
    <2>3. Enough(eax, eticks, elapsed) => Enough(eax', eticks', elapsed')
      BY <2>1, <2>2, EnoughFacts, Constants DEF TypeOK
    <2>4. Counting'
      BY <2>1 DEF Counting, Unstruck, Loop
    <2>5. Comparing'
      BY <2>1, <2>3 DEF Comparing, Unstruck
    <2>. QED
      BY <2>1, <2>4, <2>5 DEF Argument, Nticks, Summing, Sum
  <1>14. CASE LoopCompare
    <2>1. /\ pc = "cmp" /\ pc' = "jb" /\ Cur = pc /\ Cur' = pc'
          /\ cf' = (eax < eticks) /\ UNCHANGED << ticks, locals, history >>
      BY <1>14 DEF LoopCompare, At, Cur, Handler
    <2>2. eax \in Nat /\ eticks \in Nat /\ elapsed \in Nat
      BY Constants DEF TypeOK
    <2>3. Enough(eax, eticks, elapsed) => eax < eticks \/ elapsed >= SleepTicks
      BY <2>2, EnoughFacts
    <2>4. Counting'
      BY <2>1 DEF Counting, Unstruck, Loop
    <2>5. Comparing'
      BY <2>1, <2>3 DEF Comparing, Unstruck
    <2>. QED
      BY <2>1, <2>4, <2>5 DEF Argument, Nticks, Summing, Sum
  <1>15. CASE LoopJump
    <2>1. /\ pc = "jb" /\ pc' \in {"load", "leave"} /\ Cur = pc /\ Cur' = pc'
          /\ UNCHANGED << ticks, locals, history >>
      BY <1>15 DEF LoopJump, At, Cur, Handler
    <2>2. Counting'
      BY <2>1 DEF Counting, Unstruck, Loop
    <2>. QED
      BY <2>1, <2>2 DEF Argument, Nticks, Summing, Comparing, Sum
  <1>. QED
    <2>1. ASSUME CpuStep PROVE Values'
      BY <2>1, <1>2, <1>3, <1>4, <1>5, <1>6, <1>7, <1>8, <1>9, <1>10, <1>11, <1>12, <1>13,
         <1>14, <1>15
      DEF CpuStep, HandlerStep, SleepStep
    <2>. QED
      BY <1>1, <2>1 DEF Next

-----------------------------------------------------------------------------
(***************************************************************************)
(* The end of the sleep.                                                   *)
(***************************************************************************)
\* Steps until irq0_handler is back in the thread.
Ahead ==
    IF pc = "tick" THEN 4
    ELSE IF pc = "out" THEN 3
    ELSE IF pc = "hsti" THEN 2
    ELSE IF pc = "retq" THEN 1 ELSE 0

\* The thread goes on at most k steps after the last pulse, which it has taken.
Late(k) == ~irr /\ gap + Ahead <= k

\* In pit_sleep, once its first instruction is past, a pulse is taken at once.
Prompt ==
    Cur \in Sleep \ {"push"} =>
        /\ pc \in Handler => Late(4)
        /\ pc \notin Handler /\ irr => gap = 0

\* The sleep is of a tick or more, even if its argument was struck.
Positive ==
    /\ Cur = "keep" /\ pc # "tick" => eax % TickMod > 0
    /\ Cur \in {"log"} \cup Sum => nticks > 0

\* The end of the sleep is past when it is computed, and the loop is past its
\* end, only for as many steps after a tick as these.
SumLate ==
    /\ pc = "loadn" /\ (eax % TickMod) + nticks <= ticks => Late(4)
    /\ pc = "add" /\ eax + edx <= ticks => Late(5)
    /\ pc = "store" /\ eax <= ticks => Late(6)
LoopLate ==
    /\ pc = "load" /\ eticks <= ticks => Late(7)
    /\ pc = "widen" /\ eticks <= eax % TickMod => Late(8)
    /\ pc = "widen" /\ eticks <= ticks /\ eax % TickMod < eticks => Late(4)
    /\ pc = "cmp" /\ eticks <= eax => Late(9)
    /\ pc = "cmp" /\ eticks <= ticks /\ eax < eticks => Late(5)
    /\ pc = "jb" /\ ~cf => Late(10)
    /\ pc = "jb" /\ eticks <= ticks /\ cf => Late(6)
ExitLate ==
    /\ pc = "leave" => Late(11)
    /\ pc = "ret" => Late(12)
ExitInv == Prompt /\ Positive /\ SumLate /\ LoopLate /\ ExitLate /\ NotStruckLeaving

\* What a tick leaves in EAX is no multiple of the counter's size.
LEMMA TickLeavesEax ==
    ASSUME NEW t \in 0 .. (TickMod - 1), EoiByte > 0
    PROVE  ((((t + 1) \div ByteMod) * ByteMod) + EoiByte) % TickMod > 0
  <1>. DEFINE k == (t + 1) \div ByteMod
              m == TickMod \div ByteMod
  <1>0. /\ TickMod \in Nat \ {0} /\ ByteMod \in Nat \ {0} /\ EoiByte \in 1 .. (ByteMod - 1)
        /\ TickMod % ByteMod = 0
    BY TimerAssumption, Constants
  <1>1. k \in Nat /\ m \in Nat /\ k * ByteMod <= t + 1
    BY <1>0
  <1>2. TickMod = m * ByteMod
    BY <1>0
  <1>. HIDE DEF k, m
  <1>3. k * ByteMod \in Nat /\ k * ByteMod <= TickMod
    BY <1>0, <1>1
  <1>4. CASE k < m
    <2>1. (k + 1) * ByteMod <= m * ByteMod
      BY <1>0, <1>1, <1>4
    <2>2. (k + 1) * ByteMod = k * ByteMod + ByteMod
      BY <1>0, <1>1
    <2>3. k * ByteMod + EoiByte < TickMod /\ k * ByteMod + EoiByte \in Nat
      BY <1>0, <1>2, <1>3, <2>1, <2>2
    <2>4. (k * ByteMod + EoiByte) % TickMod = k * ByteMod + EoiByte
      BY <1>0, <2>3, ModSmall
    <2>. QED
      BY <1>0, <1>3, <2>4 DEF k
  <1>5. CASE k >= m
    <2>1. k * ByteMod >= m * ByteMod
      BY <1>0, <1>1, <1>5
    <2>2. k * ByteMod = TickMod
      BY <1>0, <1>2, <1>3, <2>1
    <2>3. EoiByte < TickMod
      BY <1>0, <1>1, <1>2
    <2>4. (TickMod + EoiByte) % TickMod = EoiByte
      BY <1>0, <2>3
    <2>. QED
      BY <1>0, <2>2, <2>4 DEF k
  <1>. QED
    BY <1>1, <1>4, <1>5

\* A step takes at most a unit of the gap, and may take one of the way ahead.
LEMMA StepSum ==
    ASSUME NEW g \in Nat, NEW a \in Nat, NEW h \in Nat, NEW b \in Nat, NEW k \in Nat,
           h <= g + 1, g + a <= k
    PROVE  /\ b = a => h + b <= k + 1
           /\ b + 1 = a => h + b <= k
  OBVIOUS

\* The step back to the thread leaves the tick late by no more than the handler was.
LEMMA LastStep ==
    ASSUME NEW g \in Nat, NEW h \in Nat, h <= g + 1, g + 1 <= 4
    PROVE  \A k \in 4 .. 12 : h + 0 <= k
  OBVIOUS

\* Every step keeps the bounds, one case per action.
LEMMA ExitStep ==
    ASSUME TimerInv, ExitInv, SleepTicks > 0, EoiByte > 0, [Next]_vars
    PROVE  ExitInv'
  <1>. USE DEF regs, flags, locals, pic, history
  <1>0. /\ gap \in Nat /\ ticks \in Nat /\ ticks < TickMod /\ eax \in Nat /\ edx \in Nat
        /\ nticks \in Nat /\ eticks \in Nat /\ MinGap > 12 /\ MinGap \in Nat
        /\ irr \in BOOLEAN /\ cf \in BOOLEAN
    BY Constants DEF TimerInv, TypeOK
  <1>n. gap \in Nat
    BY <1>0
  <1>e. Prompt /\ Positive /\ SumLate /\ LoopLate /\ ExitLate /\ NotStruckLeaving
    BY DEF ExitInv
  <1>1. CASE UNCHANGED vars
    BY <1>1, <1>e DEF vars, ExitInv, Prompt, Positive, SumLate, LoopLate, ExitLate, Late, Ahead,
       Cur, NotStruckLeaving
  <1>2. CASE PitRaise
    <2>1. gap = MinGap /\ gap' = 0 /\ UNCHANGED << pc, stack, regs, ticks, locals, struck >>
      BY <1>2 DEF PitRaise
    <2>2. \A k \in 0 .. 12 : ~Late(k)
      BY <1>0, <2>1 DEF Late, Ahead
    <2>3. Cur' = Cur
      BY <2>1 DEF Cur
    <2>4. Prompt'
      BY <1>e, <2>1, <2>2, <2>3 DEF Prompt
    <2>5. Positive'
      BY <1>e, <2>1, <2>3 DEF Positive
    <2>6. SumLate' /\ LoopLate' /\ ExitLate'
      BY <1>e, <2>1, <2>2 DEF SumLate, LoopLate, ExitLate
    <2>. QED
      BY <1>e, <2>1, <2>4, <2>5, <2>6 DEF ExitInv, NotStruckLeaving
  <1>3. CASE Deliver
    <2>1. /\ irr /\ ~irr' /\ struck' = struck \cup {pc} /\ gap' = gap
          /\ UNCHANGED << regs, ticks, locals >> /\ pc \notin Handler
      BY <1>3 DEF Deliver, Interrupt, TimerInv, HandlerFlags, Handler
    <2>2. pc \notin Exit
      BY <1>e, <2>1 DEF ExitLate, Late, Exit
    <2>3. Cur = pc
      BY <2>1 DEF Cur
    <2>4. \/ pc' = "tick" /\ Cur' = Cur
          \/ pc' = "overrun" /\ Cur' = "overrun"
      <3>1. pc' = "tick" \/ pc' = "overrun"
        BY <1>3 DEF Deliver, Push
      <3>2. pc' = "overrun" => Cur' = "overrun"
        BY DEF Cur, Handler
      <3>3. pc' = "overrun" \/ Cur' = Cur
        BY <1>3, CurStep
      <3>. QED
        BY <3>1, <3>2, <3>3
    <2>5. Prompt'
      <3>1. SUFFICES ASSUME Cur \in Sleep \ {"push"}, pc' = "tick"
                     PROVE  Late(4)'
        BY <2>4 DEF Prompt, Handler, Sleep, Entry, Sum, Loop, Exit
      <3>2. gap' = 0
        BY <1>e, <2>1, <3>1 DEF Prompt
      <3>. QED
        BY <2>1, <3>1, <3>2 DEF Late, Ahead
    <2>6. Positive'
      BY <1>e, <2>1, <2>4 DEF Positive, Sum
    <2>7. SumLate' /\ LoopLate' /\ ExitLate'
      BY <2>4 DEF SumLate, LoopLate, ExitLate
    <2>. QED
      BY <1>e, <2>1, <2>2, <2>5, <2>6, <2>7 DEF ExitInv, NotStruckLeaving
  <1>4. CASE PitTick \/ Eoi \/ HandlerSti
    <2>1. /\ pc \in {"tick", "out", "hsti"} /\ pc' \in {"out", "hsti", "retq"}
          /\ Ahead' = Ahead - 1 /\ Ahead \in 2 .. 4 /\ UNCHANGED << irr, nticks, struck >>
          /\ gap' <= gap + 1 /\ gap' \in Nat
      BY <1>0, <1>4 DEF PitTick, Eoi, HandlerSti, At, Ahead, Tock
    <2>2. Cur' = Cur
      BY <1>4, <2>1, CurStep DEF HandlerStep
    <2>3. Prompt'
      <3>1. SUFFICES ASSUME Cur \in Sleep \ {"push"}
                     PROVE  Late(4)' /\ pc' \in Handler
        BY <2>2 DEF Prompt
      <3>2. pc \in Handler /\ pc' \in Handler
        BY <2>1 DEF Handler
      <3>3. ~irr /\ ~irr'
        BY <1>e, <2>1, <3>1, <3>2 DEF Prompt, Late
      <3>4. gap + Ahead <= 4
        BY <1>e, <3>1, <3>2 DEF Prompt, Late
      <3>5. Ahead \in Nat /\ Ahead' \in Nat /\ Ahead' + 1 = Ahead
        BY <2>1
      <3>6. gap' + Ahead' <= 4
        BY <1>n, <2>1, <3>4, <3>5, StepSum
      <3>. QED
        BY <3>2, <3>3, <3>6 DEF Late
    <2>4. Positive'
      <3>1. ASSUME Cur = "keep" PROVE eax' % TickMod > 0
        <4>1. CASE PitTick
          <5>1. eax' = ((ticks + 1) \div ByteMod) * ByteMod + EoiByte
            BY <4>1 DEF PitTick
          <5>. QED
            BY <5>1, TickLeavesEax DEF TimerInv, TypeOK
        <4>2. CASE Eoi \/ HandlerSti
          BY <1>e, <3>1, <4>2 DEF Eoi, HandlerSti, At, Positive
        <4>. QED
          BY <1>4, <4>1, <4>2
      <3>. QED
        BY <1>e, <2>1, <2>2, <3>1 DEF Positive
    <2>5. SumLate' /\ LoopLate' /\ ExitLate'
      BY <2>1 DEF SumLate, LoopLate, ExitLate
    <2>. QED
      BY <1>e, <2>1, <2>3, <2>4, <2>5 DEF ExitInv, NotStruckLeaving
  <1>5. CASE Retq
    <2>1. /\ pc = "retq" /\ pc' = Cur /\ Cur' = Cur /\ pc' \in struck /\ pc' \notin Handler
          /\ UNCHANGED << irr, eax, nticks, struck >>
      BY <1>5, RetqFacts DEF Retq, Return
    <2>2. gap' \in Nat /\ gap' <= gap + 1
      BY <1>0, <1>5 DEF Retq, Return, At, Tock
    <2>3. Ahead = 1 /\ Ahead' = 0
      BY <2>1 DEF Ahead, Handler
    <2>4. ASSUME Cur \in Sleep \ {"push"}
          PROVE  /\ Late(4)' /\ Late(5)' /\ Late(6)' /\ Late(7)' /\ Late(8)' /\ Late(9)'
                 /\ Late(10)' /\ Late(11)' /\ Late(12)'
      <3>1. ~irr /\ ~irr'
        BY <1>e, <2>1, <2>4 DEF Prompt, Late, Handler
      <3>2. gap + Ahead <= 4
        BY <1>e, <2>1, <2>4 DEF Prompt, Late, Handler
      <3>3. \A k \in 4 .. 12 : gap' + Ahead' <= k
        BY <1>n, <2>2, <2>3, <3>2, LastStep
      <3>. QED
        BY <3>1, <3>3 DEF Late
    <2>5. pc' \notin Exit
      BY <1>e, <2>1 DEF NotStruckLeaving
    <2>6. Prompt'
      BY <2>1, <2>4 DEF Prompt, Late
    <2>7. Positive'
      BY <1>e, <2>1 DEF Positive
    <2>8. SumLate' /\ LoopLate' /\ ExitLate'
      BY <2>1, <2>4, <2>5 DEF SumLate, LoopLate, ExitLate, Sleep, Sum, Loop, Exit
    <2>. QED
      BY <1>e, <2>1, <2>6, <2>7, <2>8 DEF ExitInv, NotStruckLeaving
  <1>6. CASE StartStep
    <2>1. /\ pc' \in Boot \cup Main \cup Lost \cup {"push"} /\ pc \notin Handler
          /\ struck' \in {struck, {}}
      BY <1>6 DEF StartStep, InitPic, PitInit, Sti, CallSleep, Cli, ClearScreen, Log, Push, At,
         Boot, Main, Lost, Handler
    <2>2. Cur' = pc'
      BY <2>1 DEF Cur, Boot, Main, Lost, Handler
    <2>3. Prompt' /\ Positive'
      BY <2>1, <2>2 DEF Prompt, Positive, Sleep, Entry, Sum, Loop, Exit, Boot, Main, Lost
    <2>4. SumLate' /\ LoopLate' /\ ExitLate'
      BY <2>1 DEF SumLate, LoopLate, ExitLate, Boot, Main, Lost
    <2>. QED
      BY <1>e, <2>1, <2>3, <2>4 DEF ExitInv, NotStruckLeaving
  <1>7. CASE Busy
    <2>1. /\ pc \in {"clear", "log", "hello", "hlt"} /\ ~Interrupt
          /\ UNCHANGED << pc, stack, regs, ticks, locals, irr, struck >>
      BY <1>7 DEF Busy
    <2>2. pc = "log" => ~irr
      BY <2>1, NothingRequested DEF Sleep, Entry
    <2>3. Cur = pc /\ Cur' = pc /\ pc \notin Handler
      BY <2>1 DEF Cur, Handler
    <2>4. Prompt'
      BY <2>1, <2>2, <2>3 DEF Prompt, Sleep, Entry, Sum, Loop, Exit
    <2>5. Positive'
      BY <1>e, <2>1, <2>3 DEF Positive
    <2>6. SumLate' /\ LoopLate' /\ ExitLate'
      BY <2>1 DEF SumLate, LoopLate, ExitLate
    <2>. QED
      BY <1>e, <2>1, <2>4, <2>5, <2>6 DEF ExitInv, NotStruckLeaving
  <1>8. CASE SleepStep
    <2>1. /\ pc \in Sleep /\ Cur = pc /\ ~irr /\ ~irr' /\ Cur' = pc'
          /\ pc' \in Sleep \cup {"awake", "wild", "overrun"} /\ ticks' = ticks
      BY <1>8, SleepPath
    <2>2. pc \notin Handler /\ pc' \notin Handler /\ Ahead = 0 /\ Ahead' = 0
      BY <2>1 DEF Ahead, Handler, Sleep, Entry, Sum, Loop, Exit
    <2>3. gap' \in Nat /\ gap' <= gap + 1
      BY <1>0, <1>8 DEF SleepStep, SleepPush, SleepFrame, SleepRoom, SleepArgument, Log, SumTicks,
         SumNticks, SumAdd, SumStore, LoopLoad, LoopWiden, LoopCompare, LoopJump, Leave, Ret,
         Return, At, Tock
    <2>4. /\ Late(4) => Late(5)'
          /\ Late(5) => Late(6)'
          /\ Late(6) => Late(7)'
          /\ Late(7) => Late(8)'
          /\ Late(8) => Late(9)'
          /\ Late(9) => Late(10)'
          /\ Late(10) => Late(11)'
          /\ Late(11) => Late(12)'
      <3>1. \A k \in 4 .. 11 : gap + Ahead <= k => gap' + Ahead' <= k + 1
        <4>1. \A k \in 4 .. 11 : k \in Nat
          OBVIOUS
        <4>. QED
          BY <1>n, <2>2, <2>3, <4>1, StepSum
      <3>2. /\ gap + Ahead <= 4 => gap' + Ahead' <= 5
            /\ gap + Ahead <= 5 => gap' + Ahead' <= 6
            /\ gap + Ahead <= 6 => gap' + Ahead' <= 7
            /\ gap + Ahead <= 7 => gap' + Ahead' <= 8
            /\ gap + Ahead <= 8 => gap' + Ahead' <= 9
            /\ gap + Ahead <= 9 => gap' + Ahead' <= 10
            /\ gap + Ahead <= 10 => gap' + Ahead' <= 11
            /\ gap + Ahead <= 11 => gap' + Ahead' <= 12
        BY <3>1
      <3>. QED
        BY <2>1, <3>2 DEF Late
    <2>5. Prompt'
      BY <2>1, <2>2 DEF Prompt
    <2>6. struck' \in {struck, struck \ Loop}
      BY <1>8 DEF SleepStep, SleepPush, SleepFrame, SleepRoom, SleepArgument, Log, SumTicks,
         SumNticks, SumAdd, SumStore, LoopLoad, LoopWiden, LoopCompare, LoopJump, Leave, Ret, Return
    <2>7. NotStruckLeaving'
      BY <1>e, <2>6 DEF NotStruckLeaving
    <2>8. Positive' /\ SumLate' /\ LoopLate' /\ ExitLate'
      <3>1. CASE SleepPush \/ SleepFrame \/ Ret
        <4>1. pc' \in {"mov", "sub", "awake", "wild", "overrun"}
          <5>1. CASE SleepPush \/ SleepFrame
            BY <5>1 DEF SleepPush, SleepFrame, Push
          <5>2. CASE Ret
            <6>1. Len(stack) >= 1 /\ Good(Frameless, stack[Len(stack)])
              BY <5>2 DEF Ret, Return, At, TimerInv, Shape, AtRet, Cur, Depth, Handler
            <6>. QED
              BY <5>2, <6>1 DEF Ret, Return, Good
          <5>. QED
            BY <3>1, <5>1, <5>2
        <4>. QED
          BY <2>1, <4>1 DEF Positive, SumLate, LoopLate, ExitLate, Sum
      <3>2. CASE SleepRoom
        <4>1. pc' \in {"keep", "overrun"} /\ eax' = SleepTicks
          BY <3>2 DEF SleepRoom, Push
        <4>2. SleepTicks % TickMod = SleepTicks /\ SleepTicks > 0
          BY Constants, ModSmall
        <4>. QED
          BY <2>1, <4>1, <4>2 DEF Positive, SumLate, LoopLate, ExitLate, Sum
      <3>3. CASE SleepArgument
        <4>1. pc = "keep" /\ pc' = "log" /\ nticks' = eax % TickMod
          BY <3>3 DEF SleepArgument, At
        <4>2. nticks' > 0
          BY <1>e, <2>1, <4>1 DEF Positive
        <4>. QED
          BY <2>1, <4>1, <4>2 DEF Positive, SumLate, LoopLate, ExitLate
      <3>4. CASE Log("log", "loadticks") \/ SumTicks
        <4>1. /\ pc \in {"log", "loadticks"} /\ nticks' = nticks
              /\ pc' \in {"loadticks", "wild"} \/ (pc' = "loadn" /\ eax' = ticks)
          BY <3>4 DEF Log, SumTicks, At
        <4>2. nticks > 0
          BY <1>e, <2>1, <4>1 DEF Positive, Sum
        <4>3. ticks % TickMod = ticks
          BY <1>0, Constants, ModSmall
        <4>4. pc' = "loadn" => ~(((eax % TickMod) + nticks <= ticks)')
          BY <1>0, <2>1, <4>1, <4>2, <4>3
        <4>. QED
          BY <2>1, <4>1, <4>2, <4>4 DEF Positive, SumLate, LoopLate, ExitLate, Sum
      <3>5. CASE SumNticks
        <4>1. /\ pc = "loadn" /\ pc' = "add" /\ edx' = eax % TickMod /\ eax' = nticks
              /\ nticks' = nticks
          BY <3>5 DEF SumNticks, At
        <4>2. eax % TickMod \in Nat
          BY <1>0, Constants, ModRange
        <4>3. eax' + edx' <= ticks' => Late(4)
          BY <1>0, <1>e, <2>1, <4>1, <4>2 DEF SumLate
        <4>. QED
          BY <1>e, <2>1, <2>4, <4>1, <4>3 DEF Positive, SumLate, LoopLate, ExitLate, Sum
      <3>6. CASE SumAdd
        <4>1. pc = "add" /\ pc' = "store" /\ eax' = eax + edx /\ nticks' = nticks
          BY <3>6 DEF SumAdd, At
        <4>. QED
          BY <1>e, <2>1, <2>4, <4>1 DEF Positive, SumLate, LoopLate, ExitLate, Sum
      <3>7. CASE SumStore
        <4>1. pc = "store" /\ pc' = "load" /\ eticks' = eax
          BY <3>7 DEF SumStore, At
        <4>. QED
          BY <1>e, <2>1, <2>4, <4>1 DEF Positive, SumLate, LoopLate, ExitLate, Sum
      <3>8. CASE LoopLoad
        <4>1. pc = "load" /\ pc' = "widen" /\ eax' = ticks /\ eticks' = eticks
          BY <3>8 DEF LoopLoad, At
        <4>2. ticks % TickMod = ticks
          BY <1>0, Constants, ModSmall
        <4>3. eticks <= ticks => Late(8)'
          BY <1>e, <2>4, <4>1 DEF LoopLate
        <4>. QED
          BY <1>0, <2>1, <4>1, <4>2, <4>3 DEF Positive, SumLate, LoopLate, ExitLate, Sum
      <3>9. CASE LoopWiden
        <4>1. pc = "widen" /\ pc' = "cmp" /\ eax' = eax % TickMod /\ eticks' = eticks
          BY <3>9 DEF LoopWiden, At
        <4>2. /\ eticks <= eax' => Late(9)'
              /\ eticks <= ticks /\ eax' < eticks => Late(5)'
          BY <1>e, <2>4, <4>1 DEF LoopLate
        <4>. QED
          BY <2>1, <4>1, <4>2 DEF Positive, SumLate, LoopLate, ExitLate, Sum
      <3>10. CASE LoopCompare
        <4>1. pc = "cmp" /\ pc' = "jb" /\ cf' = (eax < eticks) /\ eticks' = eticks
          BY <3>10 DEF LoopCompare, At
        <4>2. /\ eticks <= eax => Late(10)'
              /\ eticks <= ticks /\ eax < eticks => Late(6)'
          BY <1>e, <2>4, <4>1 DEF LoopLate
        <4>3. ~cf' => eticks <= eax
          <5>1. ~(eax < eticks) => eticks <= eax
            BY <1>0
          <5>. QED
            BY <4>1, <5>1, Zenon
        <4>4. cf' => eax < eticks
          BY <4>1
        <4>. QED
          BY <2>1, <4>1, <4>2, <4>3, <4>4 DEF Positive, SumLate, LoopLate, ExitLate, Sum
      <3>11. CASE LoopJump
        <4>1. pc = "jb" /\ pc' = (IF cf THEN "load" ELSE "leave") /\ eticks' = eticks
          BY <3>11 DEF LoopJump, At
        <4>2. /\ ~cf => Late(11)'
              /\ eticks <= ticks /\ cf => Late(7)'
          BY <1>e, <2>4, <4>1 DEF LoopLate
        <4>. QED
          BY <2>1, <4>1, <4>2 DEF Positive, SumLate, LoopLate, ExitLate, Sum
      <3>12. CASE Leave
        <4>1. pc = "leave" /\ pc' = "ret"
          BY <3>12 DEF Leave, At
        <4>. QED
          BY <1>e, <2>1, <2>4, <4>1 DEF Positive, SumLate, LoopLate, ExitLate, Sum
      <3>. QED
        BY <1>8, <3>1, <3>2, <3>3, <3>4, <3>5, <3>6, <3>7, <3>8, <3>9, <3>10, <3>11, <3>12
        DEF SleepStep
    <2>. QED
      BY <2>5, <2>7, <2>8 DEF ExitInv
  <1>. QED
    BY <1>1, <1>2, <1>3, <1>4, <1>5, <1>6, <1>7, <1>8 DEF Next, CpuStep, HandlerStep

-----------------------------------------------------------------------------
(***************************************************************************)
(* The theorems.                                                           *)
(***************************************************************************)
LEMMA InitInv == Init => TimerInv
  <1>. SUFFICES ASSUME Init PROVE TimerInv
    OBVIOUS
  <1>. USE DEF Init
  <1>1. TypeOK
    <2>1. pc \in Label
      BY DEF Label, Boot
    <2>2. stack \in Seq(Word) /\ Len(stack) <= StackRoom
      BY Constants
    <2>3. 0 \in 0 .. StackRoom /\ 0 \in 0 .. (TickMod - 1) /\ 0 \in 0 .. MinGap
          /\ 0 \in 0 .. TickMod
      BY Constants
    <2>. QED
      BY <2>1, <2>2, <2>3 DEF TypeOK
  <1>2. Cur = "init_pic" /\ pc = "init_pic"
    BY DEF Cur, Handler
  <1>3. Shape
    BY <1>2 DEF Shape, Resumes, AtPush, AtMov, InFrame, AtRet, AtAwake, Framed, Handler, Sleep,
       Entry, Sum, Loop, Exit
  <1>4. HandlerFlags /\ PicReady /\ GapSmall
    BY <1>2 DEF HandlerFlags, PicReady, GapSmall, Sleep, Entry, Sum, Loop, Exit
  <1>5. Values
    BY <1>2 DEF Values, Argument, Nticks, Summing, Counting, Comparing, Sum, Loop
  <1>. QED
    BY <1>1, <1>2, <1>3, <1>4, <1>5 DEF TimerInv, LostOnlyIfStruck

\* Every step keeps the invariant.
LEMMA TimerInvStep == TimerInv /\ [Next]_vars => TimerInv'
  BY TypeStep, ShapeStep, LostStep, FlagStep, GapStep, ValueStep DEF TimerInv

\* Every state of the timer, the handler and pit_sleep satisfies the invariant.
THEOREM TimerInvariant == Spec => []TimerInv
  BY InitInv, TimerInvStep, PTL DEF Spec

\* Registers, counters and flags hold values of their types, and the words pushed
\* keep within the room of the stack: leave, ret and retq only ever pop words
\* that were pushed (irq.asm:13, pit.c:46).
THEOREM TimerTypeCorrect == Spec => []TypeOK
  <1>1. TimerInv => TypeOK
    BY DEF TimerInv
  <1>. QED
    BY <1>1, TimerInvariant, PTL

\* pit_sleep returns to _start unless a tick struck before its frame was set up,
\* after it was torn down, or in log (pit.c:42-46, irq.asm:13).
THEOREM SleepReturnsUnlessStruck == Spec => []LostOnlyIfStruck
  <1>1. TimerInv => LostOnlyIfStruck
    BY DEF TimerInv
  <1>. QED
    BY <1>1, TimerInvariant, PTL

\* irq0_handler is never entered while it runs (irq.asm:8-13).
THEOREM HandlerNeverNests == Spec => NoNesting
  <1>1. TimerInv /\ [Next]_vars => [Deliver => pc \notin Handler]_vars
    BY DEF TimerInv, HandlerFlags, Deliver, Interrupt, Handler
  <1>. QED
    BY <1>1, TimerInvariant, PTL DEF Spec, NoNesting

\* A sleep no tick has disturbed lasts SleepTicks ticks or more (pit.c:42-46).
THEOREM SleepsAsLongAsAsked == Spec => SleepsLongEnough
  <1>. DEFINE early == pc = "jb" /\ pc' = "leave" =>
        \/ elapsed >= SleepTicks
        \/ struck \cap {"keep", "loadn", "add", "store", "widen", "cmp", "jb"} # {}
  <1>1. TimerInv /\ [Next]_vars => [early]_vars
    <2>. SUFFICES ASSUME TimerInv, [Next]_vars, pc = "jb", pc' = "leave"
                  PROVE  early
      BY DEF vars
    <2>1. LoopJump
      BY DEF Next, CpuStep, HandlerStep, StartStep, SleepStep, PitRaise, Busy, Deliver, Push,
         PitTick, Eoi, HandlerSti, Retq, Return, InitPic, PitInit, Sti, CallSleep, Cli,
         ClearScreen, Log, SleepPush, SleepFrame, SleepRoom, SleepArgument, SumTicks,
         SumNticks, SumAdd, SumStore, LoopLoad, LoopWiden, LoopCompare, Leave, Ret, At, vars
    <2>2. ~cf
      BY <2>1 DEF LoopJump
    <2>. QED
      BY <2>2 DEF TimerInv, Values, Comparing, Unstruck, Disturbed
  <1>. QED
    BY <1>1, TimerInvariant, PTL DEF Spec, SleepsLongEnough

\* No pulse comes while the last one is still requested in pit_sleep's loop
\* (irq.asm:8-13, pit.c:45).
THEOREM NoTickIsLost == Spec => NoTickLost
  <1>1. TimerInv /\ [Next]_vars => [irr /\ pc \in Loop => ~PitRaise]_vars
    <2>. SUFFICES ASSUME TimerInv, irr, pc \in Loop
                  PROVE  ~PitRaise
      BY DEF PitRaise
    <2>1. Cur \in Sleep /\ pc # "push"
      BY DEF Cur, Handler, Sleep, Loop
    <2>2. gap <= 4
      BY <2>1 DEF TimerInv, GapSmall
    <2>. QED
      BY <2>2, Constants DEF PitRaise
  <1>. QED
    BY <1>1, TimerInvariant, PTL DEF Spec, NoTickLost

\* pit_sleep is never struck once its loop is over, if it was asked to sleep at
\* all and the byte of irq.asm:10 is not 0: the loop only ends so soon after a
\* tick that the next pulse is still to come (pit.c:42-46).
THEOREM LeavesUndisturbed ==
    SleepTicks > 0 /\ EoiByte > 0 => (Spec => []NotStruckLeaving)
  <1>. SUFFICES ASSUME SleepTicks > 0, EoiByte > 0
                PROVE  Spec => []NotStruckLeaving
    OBVIOUS
  <1>1. Init => ExitInv
    BY DEF Init, ExitInv, Prompt, Positive, SumLate, LoopLate, ExitLate, NotStruckLeaving, Cur,
       Handler, Sleep, Entry, Sum, Loop, Exit
  <1>2. TimerInv /\ ExitInv /\ [Next]_vars => ExitInv'
    BY ExitStep
  <1>3. ExitInv => NotStruckLeaving
    BY DEF ExitInv
  <1>. QED
    BY <1>1, <1>2, <1>3, TimerInvariant, PTL DEF Spec
=============================================================================
