----------------------------- MODULE PciConfig ------------------------------
(***************************************************************************)
(* The PCI configuration space as pci_read_word and the getters read it.   *)
(* A number is the set of its bits that are one. A bit of a register is    *)
(* named for the function, the register and the place it comes from, so    *)
(* that what a getter returns says where every bit was read.               *)
(***************************************************************************)
EXTENDS Integers, Sequences

CONSTANTS Buses, Slots, Funcs

ASSUME PciAssumption ==
    /\ Buses \subseteq SUBSET (0 .. 7)
    /\ Slots \subseteq SUBSET (0 .. 4)
    /\ Funcs \subseteq SUBSET (0 .. 2)

VARIABLES
    pc,       \* the port access that comes next
    bus, slot, func, getter, half,   \* the call; the half of a BAR it reads
    address,  \* CONFIG_ADDR, without its enable bit
    ret       \* what the getter has so far: ret[j] is bit j, Zero or a bit's name

vars == << pc, bus, slot, func, getter, half, address, ret >>

Zero == << >>
Getters ==
    {"vendor_id", "device_id", "revision_id", "prog_if", "subclass_id", "classid",
     "bar0", "bar1", "bar2", "bar3", "bar4", "bar5"}
Bars == << "bar0", "bar1", "bar2", "bar3", "bar4", "bar5" >>
Bar(g) == \E n \in DOMAIN Bars : Bars[n] = g

\* The offsets the getters pass to pci_read_word; a BAR's upper half is read
\* first, BAR 0's at 0x13.
Offset(g, h) ==
    CASE g = "vendor_id" -> 0
      [] g = "device_id" -> 2
      [] g \in {"revision_id", "prog_if"} -> 8
      [] g \in {"subclass_id", "classid"} -> 10
      [] g = "bar0" -> IF h = "upper" THEN 19 ELSE 16
      [] OTHER -> LET n == CHOOSE n \in DOMAIN Bars : Bars[n] = g
                  IN 16 + 4 * (n - 1) + (IF h = "upper" THEN 2 ELSE 0)

Bits(n) == {j \in 0 .. 7 : (n \div 2^j) % 2 = 1}
Shifted(bits, n) == {j + n : j \in bits}

\* Mutant: the slot is shifted into the bus.
AddressShifted(b, s, f, offset) ==
    Shifted(b, 16) \cup Shifted(s, 12) \cup Shifted(f, 8) \cup (Bits(offset) \cap 2 .. 7)

\* The or of the four parts, the offset without its lower two bits.
Address(b, s, f, offset) ==
    Shifted(b, 16) \cup Shifted(s, 11) \cup Shifted(f, 8) \cup (Bits(offset) \cap 2 .. 7)

\* The device: the register a CONFIG_ADDR selects.
Field(a, first, last) == {j - first : j \in a \cap first .. last}
Selected(a) ==
    [j \in 0 .. 31 |->
        << Field(a, 16, 23), Field(a, 11, 15), Field(a, 8, 10), Field(a, 0, 7), j >>]

\* 16 bits of CONFIG_DATA, shifted right by twice the offset's bit 1.
ReadWord(a, offset) ==
    LET shift == IF 1 \in Bits(offset) THEN 4 ELSE 0
    IN [j \in 0 .. 15 |-> Selected(a)[j + shift]]

\* What the getter makes of its word.
Take(g, word) ==
    [j \in 0 .. 31 |->
        IF g \in {"revision_id", "subclass_id"} THEN IF j < 8 THEN word[j] ELSE Zero
        ELSE IF g \in {"prog_if", "classid"} THEN IF j < 8 THEN word[j + 8] ELSE Zero
        ELSE IF j < 16 THEN word[j] ELSE Zero]

Init ==
    /\ pc = "address"
    /\ bus \in Buses /\ slot \in Slots /\ func \in Funcs /\ getter \in Getters
    /\ half = IF Bar(getter) THEN "upper" ELSE "lower"
    /\ address = {} /\ ret = [j \in 0 .. 31 |-> Zero]

\* outportl(CONFIG_ADDR, addr)
WriteAddress ==
    /\ pc = "address" /\ pc' = "data"
    /\ address' = Address(bus, slot, func, Offset(getter, half))
    /\ UNCHANGED << bus, slot, func, getter, half, ret >>

\* inportl(CONFIG_DATA), and for a BAR the word of its lower half after the
\* upper one is shifted by 16.
ReadData ==
    /\ pc = "data"
    /\ LET word == ReadWord(address, Offset(getter, half))
       IN IF half = "upper"
          THEN /\ ret' = [j \in 0 .. 31 |-> IF j < 16 THEN Zero ELSE word[j - 16]]
               /\ half' = "lower" /\ pc' = "address"
          ELSE /\ ret' = IF Bar(getter)
                         THEN [j \in 0 .. 31 |-> IF j < 16 THEN word[j] ELSE ret[j]]
                         ELSE Take(getter, word)
               /\ pc' = "done" /\ UNCHANGED half
    /\ UNCHANGED << bus, slot, func, getter, address >>

Next == WriteAddress \/ ReadData
Spec == Init /\ [][Next]_vars
-----------------------------------------------------------------------------
(***************************************************************************)
(* Properties                                                              *)
(***************************************************************************)
\* Where the field a getter is named for lies in its register.
Register(g) == Bits(Offset(g, "lower")) \ {0, 1}
First(g) ==
    CASE g = "prog_if" -> 8
      [] g \in {"device_id", "subclass_id"} -> 16
      [] g = "classid" -> 24
      [] OTHER -> 0
Size(g) ==
    IF Bar(g) THEN 32 ELSE IF g \in {"vendor_id", "device_id"} THEN 16 ELSE 8

\* A getter returns the bits of its field, in the register of the function it is
\* asked for and of no other, and zeroes above; but where the field lies in the
\* upper half of the register, as the device id, the subclass, the class and the
\* upper half of a BAR do, each bit comes from 12 places too low: the word is
\* shifted by 4 bits instead of 16 (pci.c:10-87).
FieldPlaces ==
    pc = "done" =>
        \A j \in 0 .. 31 :
            ret[j] = IF j >= Size(getter) THEN Zero
                     ELSE LET place == First(getter) + j
                          IN << bus, slot, func, Register(getter),
                                IF place < 16 THEN place ELSE place - 12 >>
=============================================================================
