---------------------------- MODULE KernelString ----------------------------
(***************************************************************************)
(* dec2str and hex2str, a digit at a time, called again and again on the   *)
(* static buffers they return. Characters are the values of digits, and    *)
(* some beyond them for the sign, the x and the terminating 0.             *)
(***************************************************************************)
EXTENDS Integers, Sequences

CONSTANTS
    Half,     \* half the values of an int: the smallest is -Half
    Numbers,  \* arguments of dec2str
    Words,    \* arguments of hex2str
    BufSize   \* bytes of dec_string and hex_string, 80

\* The powers of base, as far as a buffer could have digits.
Powers(base) ==
    LET power[k \in 0 .. BufSize] == IF k = 0 THEN 1 ELSE base * power[k - 1] IN power

\* The buffers have room: digits, a sign and a 0 byte; or digits and 0x and a 0
\* byte, where a lone digit is padded.
ASSUME StringAssumption ==
    /\ Half \in Nat \ {0} /\ BufSize \in Nat /\ BufSize >= 5
    /\ Half <= Powers(10)[BufSize - 2]
    /\ 2 * Half <= Powers(16)[BufSize - 3]
    /\ Numbers \subseteq -Half .. (Half - 1)
    /\ Words \subseteq 0 .. (2 * Half - 1)

VARIABLES
    pc,                      \* the loop that runs, or who has returned
    arg,                     \* the argument of the call
    number, negative, pad,   \* locals; number is hex_num too
    i,                       \* characters written
    dec_string, hex_string   \* the static buffers

locals == << arg, number, negative, pad >>
vars == << pc, locals, i, dec_string, hex_string >>

Minus == 16
X == 17
NUL == 18

\* An int has Half values below 0 and Half from 0 on.
Int32(n) == ((n + Half) % (2 * Half)) - Half

\* The string a buffer holds.
Str(buf) ==
    LET n == CHOOSE n \in 0 .. (BufSize - 1) :
                buf[n] = NUL /\ \A j \in 0 .. (n - 1) : buf[j] # NUL
    IN [j \in 1 .. n |-> buf[j - 1]]

Write(buf, at, s) ==
    [j \in 0 .. (BufSize - 1) |-> IF j \in at .. (at + Len(s) - 1) THEN s[j - at + 1] ELSE buf[j]]

\* The loop that swaps ends: the first n characters are reversed.
Swap(buf, n) == [j \in 0 .. (BufSize - 1) |-> IF j < n THEN buf[n - 1 - j] ELSE buf[j]]

\* .bss is zero or what was there; a call writes before it reads.
Init ==
    /\ pc = "idle" /\ arg = 0 /\ number = 0 /\ negative = FALSE /\ pad = FALSE /\ i = 0
    /\ dec_string = [j \in 0 .. (BufSize - 1) |-> 7]
    /\ hex_string = [j \in 0 .. (BufSize - 1) |-> 7]

Returned == pc \in {"idle", "dec", "hex"}
-----------------------------------------------------------------------------
CallDec ==
    /\ Returned /\ pc' = "decDigits"
    /\ \E n \in Numbers :
        /\ arg' = n
        /\ number' = IF n < 0 THEN Int32(-n) ELSE n
        /\ negative' = (n < 0)
        /\ i' = IF n = 0 THEN 1 ELSE 0
        /\ dec_string' = IF n = 0 THEN Write(dec_string, 0, << 0 >>) ELSE dec_string
    /\ UNCHANGED << pad, hex_string >>

DecDigit ==
    /\ pc = "decDigits" /\ number > 0
    /\ dec_string' = Write(dec_string, i, << number % 10 >>)
    /\ number' = number \div 10 /\ i' = i + 1
    /\ UNCHANGED << pc, arg, negative, pad, hex_string >>

\* Mutant: only the digits are reversed.
DecReturnSignLast ==
    /\ pc = "decDigits" /\ number <= 0 /\ pc' = "dec"
    /\ LET s == IF negative THEN << Minus >> ELSE << >>
       IN dec_string' = Swap(Write(dec_string, i, s \o << NUL >>), i) /\ i' = i + Len(s)
    /\ UNCHANGED << locals, hex_string >>

\* The sign, the 0 byte and the reversal.
DecReturn ==
    /\ pc = "decDigits" /\ number <= 0 /\ pc' = "dec"
    /\ LET s == IF negative THEN << Minus >> ELSE << >>
           n == i + Len(s)
       IN dec_string' = Swap(Write(dec_string, i, s \o << NUL >>), n) /\ i' = n
    /\ UNCHANGED << locals, hex_string >>

\* strncpy(hex_string, "0\0", 2) stops before the 0 byte.
CallHex ==
    /\ Returned /\ pc' = "hexDigits"
    /\ \E n \in Words :
        /\ arg' = n /\ number' = n
        /\ pad' = (n < 16)
        /\ i' = IF n = 0 THEN 1 ELSE 0
        /\ hex_string' = IF n = 0 THEN Write(hex_string, 0, << 0 >>) ELSE hex_string
    /\ UNCHANGED << negative, dec_string >>

HexDigit ==
    /\ pc = "hexDigits" /\ number > 0
    /\ hex_string' = Write(hex_string, i, << number % 16 >>)
    /\ number' = number \div 16 /\ i' = i + 1
    /\ UNCHANGED << pc, arg, negative, pad, dec_string >>

HexReturn ==
    /\ pc = "hexDigits" /\ number = 0 /\ pc' = "hex"
    /\ LET s == IF pad THEN << 0, X, 0 >> ELSE << X, 0 >>
           n == i + Len(s)
       IN hex_string' = Swap(Write(hex_string, i, s \o << NUL >>), n) /\ i' = n
    /\ UNCHANGED << locals, dec_string >>

Next == CallDec \/ DecDigit \/ DecReturn \/ CallHex \/ HexDigit \/ HexReturn

Spec == Init /\ [][Next]_vars
-----------------------------------------------------------------------------
(***************************************************************************)
(* Properties                                                              *)
(***************************************************************************)
\* The number that a sequence of digits stands for.
Value(s, base) ==
    LET value[k \in 0 .. Len(s)] == IF k = 0 THEN 0 ELSE base * value[k - 1] + s[k]
    IN value[Len(s)]

DecimalRight ==
    LET s == Str(dec_string)
        digits == IF arg < 0 THEN Tail(s) ELSE s
    IN IF arg = -Half THEN s = << Minus >>
       ELSE /\ arg < 0 => Head(s) = Minus
            /\ \A j \in DOMAIN digits : digits[j] \in 0 .. 9
            /\ Value(digits, 10) = (IF arg < 0 THEN -arg ELSE arg)
            /\ Head(digits) = 0 => digits = << 0 >>

HexRight ==
    LET s == Str(hex_string)
        digits == SubSeq(s, 3, Len(s))
    IN /\ s[1] = 0 /\ s[2] = X
       /\ \A j \in DOMAIN digits : digits[j] \in 0 .. 15
       /\ Value(digits, 16) = arg
       /\ Len(digits) >= 2 /\ (digits[1] = 0 => Len(digits) = 2)

\* Whatever their buffers hold from earlier calls, dec2str returns a sign if the
\* number is negative and its decimal digits without leading zeros, for every
\* int but the smallest, which comes out as a sign alone; hex2str returns 0x and
\* the digits of the word, at least two (string.c:17-95).
ConversionsRight ==
    /\ pc = "dec" => DecimalRight
    /\ pc = "hex" => HexRight

\* string.c:25, "Easier to work with positive values": the number whose digits
\* are taken is not negative.
PositiveValues == pc = "decDigits" => number >= 0
=============================================================================
