-------------------------- MODULE PciConfigProofs ---------------------------
(***************************************************************************)
(* Where the bits come from that the getters of the PCI configuration      *)
(* space return, for every bus, slot and function.                         *)
(***************************************************************************)
EXTENDS PciConfig, TLAPS

-----------------------------------------------------------------------------
(***************************************************************************)
(* The offsets and the address                                             *)
(***************************************************************************)
\* The values of the bits of an offset.
LEMMA Powers ==
    /\ 2^0 = 1 /\ 2^1 = 2 /\ 2^2 = 4 /\ 2^3 = 8 /\ 2^4 = 16 /\ 2^5 = 32 /\ 2^6 = 64
    /\ 2^7 = 128
  OBVIOUS

\* Offsets that differ in their lower two bits are in one register, and bit 1
\* says which half.
LEMMA SameRegister ==
    ASSUME NEW q \in Nat, NEW e \in 0 .. 3
    PROVE  /\ Bits(4 * q + e) \ {0, 1} = Bits(4 * q) \ {0, 1}
           /\ 1 \in Bits(4 * q + e) <=> e >= 2
  <1>1. /\ (4 * q + e) \div 4 = (4 * q) \div 4 /\ (4 * q + e) \div 8 = (4 * q) \div 8
        /\ (4 * q + e) \div 16 = (4 * q) \div 16 /\ (4 * q + e) \div 32 = (4 * q) \div 32
        /\ (4 * q + e) \div 64 = (4 * q) \div 64 /\ (4 * q + e) \div 128 = (4 * q) \div 128
    OBVIOUS
  <1>2. ASSUME NEW j \in 2 .. 7 PROVE (4 * q + e) \div 2^j = (4 * q) \div 2^j
    <2>1. j = 2 \/ j = 3 \/ j = 4 \/ j = 5 \/ j = 6 \/ j = 7
      OBVIOUS
    <2>2. CASE j = 2
      BY <1>1, <2>2, Powers
    <2>3. CASE j = 3
      BY <1>1, <2>3, Powers
    <2>4. CASE j = 4
      BY <1>1, <2>4, Powers
    <2>5. CASE j = 5
      BY <1>1, <2>5, Powers
    <2>6. CASE j = 6
      BY <1>1, <2>6, Powers
    <2>7. CASE j = 7
      BY <1>1, <2>7, Powers
    <2> QED
      BY <2>1, <2>2, <2>3, <2>4, <2>5, <2>6, <2>7
  <1>3. 1 \in Bits(4 * q + e) <=> ((4 * q + e) \div 2) % 2 = 1
    BY Powers DEF Bits
  <1>4. ((4 * q + e) \div 2) % 2 = 1 <=> e >= 2
    OBVIOUS
  <1>5. Bits(4 * q + e) \ {0, 1} = Bits(4 * q) \ {0, 1}
    <2>1. ASSUME NEW j \in (0 .. 7) \ {0, 1}
          PROVE  j \in Bits(4 * q + e) <=> j \in Bits(4 * q)
      <3>1. j \in 0 .. 7 /\ j \in 2 .. 7
        OBVIOUS
      <3>2. (4 * q + e) \div 2^j = (4 * q) \div 2^j
        BY <1>2, <3>1
      <3> QED
        BY <3>1, <3>2 DEF Bits
    <2>2. Bits(4 * q + e) \subseteq 0 .. 7 /\ Bits(4 * q) \subseteq 0 .. 7
      BY DEF Bits
    <2> QED
      BY <2>1, <2>2
  <1> QED
    BY <1>3, <1>4, <1>5

\* The fields of address a are those of the function, and the register that of
\* offset o.
Selects(a, b, s, f, o) ==
    /\ Field(a, 16, 23) = b /\ Field(a, 11, 15) = s
    /\ Field(a, 8, 10) = f /\ Field(a, 0, 7) = Bits(o) \ {0, 1}

\* The parts of an address do not run into each other.
LEMMA AddressSelects ==
    ASSUME NEW b, b \subseteq 0 .. 7, NEW s, s \subseteq 0 .. 4,
           NEW f, f \subseteq 0 .. 2, NEW o
    PROVE  Selects(Address(b, s, f, o), b, s, f, o)
  <1> DEFINE a == Address(b, s, f, o)
             r == Bits(o) \cap 2 .. 7
  <1>1. /\ \A j \in b : j \in Int /\ 0 <= j /\ j <= 7
        /\ \A j \in s : j \in Int /\ 0 <= j /\ j <= 4
        /\ \A j \in f : j \in Int /\ 0 <= j /\ j <= 2
        /\ \A j \in r : j \in Int /\ 2 <= j /\ j <= 7
    OBVIOUS
  <1>2. \A n : n \in a <=> \/ \E j \in b : n = j + 16
                           \/ \E j \in s : n = j + 11
                           \/ \E j \in f : n = j + 8
                           \/ n \in r
    BY DEF Address, Shifted
  <1>3. Bits(o) \ {0, 1} = r
    BY DEF Bits
  <1> HIDE DEF a, r
  <1>4. {j - 16 : j \in a \cap 16 .. 23} = b
    <2>1. ASSUME NEW j \in a \cap 16 .. 23 PROVE j - 16 \in b
      BY <1>1, <1>2
    <2>2. ASSUME NEW j \in b PROVE j + 16 \in a \cap 16 .. 23 /\ (j + 16) - 16 = j
      BY <1>1, <1>2
    <2> QED
      BY <2>1, <2>2
  <1>5. {j - 11 : j \in a \cap 11 .. 15} = s
    <2>1. ASSUME NEW j \in a \cap 11 .. 15 PROVE j - 11 \in s
      BY <1>1, <1>2
    <2>2. ASSUME NEW j \in s PROVE j + 11 \in a \cap 11 .. 15 /\ (j + 11) - 11 = j
      BY <1>1, <1>2
    <2> QED
      BY <2>1, <2>2
  <1>6. {j - 8 : j \in a \cap 8 .. 10} = f
    <2>1. ASSUME NEW j \in a \cap 8 .. 10 PROVE j - 8 \in f
      BY <1>1, <1>2
    <2>2. ASSUME NEW j \in f PROVE j + 8 \in a \cap 8 .. 10 /\ (j + 8) - 8 = j
      BY <1>1, <1>2
    <2> QED
      BY <2>1, <2>2
  <1>7. {j - 0 : j \in a \cap 0 .. 7} = r
    <2>1. ASSUME NEW j \in a \cap 0 .. 7 PROVE j - 0 \in r
      BY <1>1, <1>2
    <2>2. ASSUME NEW j \in r PROVE j + 0 \in a \cap 0 .. 7 /\ (j + 0) - 0 = j
      BY <1>1, <1>2
    <2> QED
      BY <2>1, <2>2
  <1> QED
    BY <1>3, <1>4, <1>5, <1>6, <1>7 DEF Selects, Field, a

\* The offsets of the BARs.
LEMMA BarOffset ==
    ASSUME NEW n \in DOMAIN Bars, NEW h \in {"upper", "lower"}
    PROVE  /\ Bars[n] \in Getters /\ Bar(Bars[n])
           /\ n \in 1 .. 6
           /\ Offset(Bars[n], h) =
                IF h = "lower" THEN 4 * (n + 3) + 0
                ELSE IF n = 1 THEN 4 * (n + 3) + 3 ELSE 4 * (n + 3) + 2
  <1>1. n \in 1 .. 6 /\ DOMAIN Bars = 1 .. 6
    BY DEF Bars
  <1>2. ASSUME NEW m \in DOMAIN Bars, Bars[m] = Bars[n] PROVE m = n
    BY <1>1, <1>2 DEF Bars
  <1>3. (CHOOSE m \in DOMAIN Bars : Bars[m] = Bars[n]) = n
    BY <1>2
  <1>4. /\ Bars[n] \in {"bar0", "bar1", "bar2", "bar3", "bar4", "bar5"}
        /\ Bars[n] = "bar0" <=> n = 1
    BY <1>1 DEF Bars
  <1>5. CASE n = 1
    BY <1>4, <1>5 DEF Offset, Getters, Bar
  <1>6. CASE n # 1
    <2>1. Bars[n] \in Getters /\ Bar(Bars[n])
      BY <1>4 DEF Getters, Bar
    <2>2. Offset(Bars[n], h) = 16 + 4 * (n - 1) + (IF h = "upper" THEN 2 ELSE 0)
      BY <1>3, <1>4, <1>6 DEF Offset
    <2> QED
      BY <1>1, <1>6, <2>1, <2>2
  <1> QED
    BY <1>1, <1>5, <1>6

\* The getters whose field lies in the upper half of a register.
Uppers == {"device_id", "subclass_id", "classid"}

\* Both halves of a BAR are read from its register, BAR 0's at 0x13 too, and bit
\* 1 of an offset says whether the word is in the upper half.
LEMMA Offsets ==
    ASSUME NEW g \in Getters, NEW h \in {"upper", "lower"}, h = "upper" => Bar(g)
    PROVE  /\ Offset(g, h) \in Nat
           /\ Bits(Offset(g, h)) \ {0, 1} = Register(g)
           /\ 1 \in Bits(Offset(g, h)) <=> (h = "upper" \/ g \in Uppers)
  <1>1. CASE Bar(g)
    <2>1. PICK n \in DOMAIN Bars : Bars[n] = g
      BY <1>1 DEF Bar
    <2>2. n \in 1 .. 6
      BY <2>1, BarOffset
    <2>3. PICK e \in 0 .. 3 : Offset(g, h) = 4 * (n + 3) + e /\ (h = "upper" <=> e >= 2)
      BY <2>1, <2>2, BarOffset
    <2>4. Offset(g, "lower") = 4 * (n + 3) + 0
      BY <2>1, <2>2, BarOffset
    <2>5. /\ n + 3 \in Nat /\ 4 * (n + 3) + e \in Nat
      BY <2>2
    <2>6. ASSUME NEW d \in 0 .. 3
          PROVE  /\ Bits(4 * (n + 3) + d) \ {0, 1} = Bits(4 * (n + 3)) \ {0, 1}
                 /\ 1 \in Bits(4 * (n + 3) + d) <=> d >= 2
      <3> DEFINE q == n + 3
      <3>1. q \in Nat
        BY <2>5
      <3> HIDE DEF q
      <3>2. /\ Bits(4 * q + d) \ {0, 1} = Bits(4 * q) \ {0, 1}
            /\ 1 \in Bits(4 * q + d) <=> d >= 2
        BY <3>1, SameRegister
      <3> QED
        BY <3>2 DEF q
    <2>7. Bits(Offset(g, h)) \ {0, 1} = Register(g)
      BY <2>3, <2>4, <2>6 DEF Register
    <2>8. 1 \in Bits(Offset(g, h)) <=> h = "upper"
      BY <2>3, <2>6
    <2>9. g \notin Uppers
      BY <1>1 DEF Bar, Bars, Uppers
    <2> QED
      BY <2>3, <2>5, <2>7, <2>8, <2>9
  <1>2. CASE ~Bar(g)
    <2>1. h = "lower"
      BY <1>2
    <2>2. g \in {"vendor_id", "device_id", "revision_id", "prog_if", "subclass_id", "classid"}
      BY <1>2 DEF Bar, Bars, Getters
    <2>3. Offset(g, h) \in Nat
      BY <2>2 DEF Offset
    <2>4. /\ g \in Uppers => Offset(g, h) = 4 * 0 + 2 \/ Offset(g, h) = 4 * 2 + 2
          /\ g \notin Uppers => Offset(g, h) = 4 * 0 + 0 \/ Offset(g, h) = 4 * 2 + 0
      BY <2>2 DEF Offset, Uppers
    <2>5. /\ 1 \notin Bits(4 * 0 + 0) /\ 1 \notin Bits(4 * 2 + 0)
          /\ 1 \in Bits(4 * 0 + 2) /\ 1 \in Bits(4 * 2 + 2)
      BY SameRegister
    <2> QED
      BY <1>2, <2>1, <2>3, <2>4, <2>5 DEF Register
  <1> QED
    BY <1>1, <1>2

-----------------------------------------------------------------------------
(***************************************************************************)
(* The bits a getter has read                                              *)
(***************************************************************************)
Call ==
    /\ bus \in SUBSET (0 .. 7) /\ slot \in SUBSET (0 .. 4) /\ func \in SUBSET (0 .. 2)
    /\ getter \in Getters /\ half \in {"upper", "lower"}
    /\ half = "upper" => Bar(getter)
    /\ pc \in {"address", "data", "done"}

\* Bit k of the register the getter is asked for.
Bit(k) == << bus, slot, func, Register(getter), k >>

\* Between the two reads of a BAR its upper half is there.
PciInv ==
    /\ Call
    /\ pc = "data" => address = Address(bus, slot, func, Offset(getter, half))
    /\ (half = "lower" /\ Bar(getter) /\ pc # "done") =>
            \A j \in 16 .. 31 : ret[j] = Bit(j - 12)
    /\ FieldPlaces

\* What pci_read_word returns.
LEMMA WordRead ==
    ASSUME Call, address = Address(bus, slot, func, Offset(getter, half))
    PROVE  \A j \in 0 .. 15 :
                ReadWord(address, Offset(getter, half))[j] =
                    Bit(IF half = "upper" \/ getter \in Uppers THEN j + 4 ELSE j)
  <1> DEFINE o == Offset(getter, half)
             shift == IF 1 \in Bits(o) THEN 4 ELSE 0
  <1>1. o \in Nat /\ Bits(o) \ {0, 1} = Register(getter)
    BY Offsets DEF Call
  <1>2. \A j \in 0 .. 31 : Selected(address)[j] = Bit(j)
    <2>1. /\ Field(address, 16, 23) = bus /\ Field(address, 11, 15) = slot
          /\ Field(address, 8, 10) = func /\ Field(address, 0, 7) = Register(getter)
      <3>1. bus \subseteq 0 .. 7 /\ slot \subseteq 0 .. 4 /\ func \subseteq 0 .. 2
        BY DEF Call
      <3>2. Selects(address, bus, slot, func, o)
        BY <3>1, AddressSelects
      <3> QED
        BY <1>1, <3>2 DEF Selects
    <2> QED
      BY <2>1 DEF Selected, Bit
  <1>3. \A j \in 0 .. 15 : ReadWord(address, o)[j] = Selected(address)[j + shift]
    BY DEF ReadWord
  <1>4. \A j \in 0 .. 15 : j + shift \in 0 .. 31
    OBVIOUS
  <1>5. shift = IF half = "upper" \/ getter \in Uppers THEN 4 ELSE 0
    BY Offsets DEF Call
  <1> HIDE DEF o, shift
  <1>6. \A j \in 0 .. 15 : ReadWord(address, o)[j] = Bit(j + shift)
    BY <1>2, <1>3, <1>4
  <1>7. ASSUME NEW j \in 0 .. 15
        PROVE  j + shift = IF half = "upper" \/ getter \in Uppers THEN j + 4 ELSE j
    BY <1>5
  <1> QED
    BY <1>6, <1>7 DEF o

\* A step reads the bits of the getter's field, at the places pci_read_word finds
\* them.
LEMMA NextPci == PciInv /\ [Next]_vars => PciInv'
  <1> SUFFICES ASSUME PciInv, [Next]_vars PROVE PciInv'
    OBVIOUS
  <1>1. CASE WriteAddress
    BY <1>1 DEF WriteAddress, PciInv, Call, FieldPlaces, Bit
  <1>2. CASE ReadData
    <2> DEFINE word == ReadWord(address, Offset(getter, half))
    <2>1. Call /\ pc = "data" /\ UNCHANGED << bus, slot, func, getter >>
      BY <1>2 DEF ReadData, PciInv
    <2>2. \A j \in 0 .. 15 :
            word[j] = Bit(IF half = "upper" \/ getter \in Uppers THEN j + 4 ELSE j)
      BY <2>1, WordRead DEF PciInv
    <2>3. \A k : Bit(k)' = Bit(k)
      BY <2>1 DEF Bit
    <2>4. Bar(getter) => getter \notin Uppers /\ First(getter) = 0 /\ Size(getter) = 32
      BY DEF Bar, Bars, Uppers, First, Size
    <2>5. CASE half = "upper"
      <3>1. /\ ret' = [j \in 0 .. 31 |-> IF j < 16 THEN Zero ELSE word[j - 16]]
            /\ half' = "lower" /\ pc' = "address"
        BY <1>2, <2>5 DEF ReadData
      <3>2. ASSUME NEW j \in 16 .. 31 PROVE ret'[j] = Bit(j - 12)'
        <4>1. j - 16 \in 0 .. 15 /\ (j - 16) + 4 = j - 12
          OBVIOUS
        <4>2. word[j - 16] = Bit((j - 16) + 4)
          BY <2>2, <2>5, <4>1
        <4>3. ret'[j] = word[j - 16]
          BY <3>1
        <4> QED
          BY <2>3, <4>1, <4>2, <4>3
      <3> QED
        BY <2>1, <3>1, <3>2 DEF PciInv, Call, FieldPlaces
    <2>6. CASE half = "lower" /\ Bar(getter)
      <3>1. /\ ret' = [j \in 0 .. 31 |-> IF j < 16 THEN word[j] ELSE ret[j]]
            /\ half' = "lower" /\ pc' = "done"
        BY <1>2, <2>6 DEF ReadData
      <3>2. ASSUME NEW j \in 0 .. 31
            PROVE  ret'[j] = Bit(IF j < 16 THEN j ELSE j - 12)
        <4>1. CASE j < 16
          <5>1. j \in 0 .. 15
            BY <4>1
          <5>2. word[j] = Bit(j)
            BY <2>2, <2>4, <2>6, <5>1
          <5> QED
            BY <3>1, <4>1, <5>2
        <4>2. CASE ~(j < 16)
          <5>1. j \in 16 .. 31
            BY <4>2
          <5>2. ret[j] = Bit(j - 12)
            BY <2>1, <2>6, <5>1 DEF PciInv
          <5> QED
            BY <3>1, <4>2, <5>2
        <4> QED
          BY <4>1, <4>2
      <3>3. ASSUME NEW j \in 0 .. 31
            PROVE  ret'[j] = IF j >= Size(getter) THEN Zero
                             ELSE LET place == First(getter) + j
                                  IN Bit(IF place < 16 THEN place ELSE place - 12)
        <4>1. Size(getter) = 32 /\ First(getter) = 0
          BY <2>4, <2>6
        <4>2. ~(j >= 32) /\ 0 + j = j
          OBVIOUS
        <4> QED
          BY <3>2, <4>1, <4>2
      <3>4. FieldPlaces'
        BY <2>1, <3>3 DEF FieldPlaces, Bit
      <3> QED
        BY <2>1, <3>1, <3>4 DEF PciInv, Call
    <2>7. CASE half = "lower" /\ ~Bar(getter)
      <3>1. ret' = Take(getter, word) /\ half' = "lower" /\ pc' = "done"
        BY <1>2, <2>7 DEF ReadData
      <3>2. getter \in {"vendor_id", "device_id", "revision_id", "prog_if",
                       "subclass_id", "classid"}
        BY <2>1, <2>7 DEF Call, Getters, Bar, Bars
      <3>3. \A j \in 0 .. 15 : word[j] = Bit(IF getter \in Uppers THEN j + 4 ELSE j)
        BY <2>2, <2>7
      <3> HIDE DEF word
      <3>4. ASSUME NEW j \in 0 .. 31
            PROVE  ret'[j] = IF j >= Size(getter) THEN Zero
                             ELSE LET place == First(getter) + j
                                  IN Bit(IF place < 16 THEN place ELSE place - 12)
        <4>1. CASE getter \in {"vendor_id", "device_id"}
          <5>1. Size(getter) = 16 /\ First(getter) = IF getter = "vendor_id" THEN 0 ELSE 16
            BY <2>7, <4>1 DEF Size, First
          <5>2. ret'[j] = IF j < 16 THEN word[j] ELSE Zero
            BY <3>1, <4>1 DEF Take
          <5>3. j < 16 => j \in 0 .. 15 /\ (16 + j) - 12 = j + 4
            OBVIOUS
          <5>4. getter \in Uppers <=> getter = "device_id"
            BY <4>1 DEF Uppers
          <5> QED
            BY <3>3, <4>1, <5>1, <5>2, <5>3, <5>4
        <4>2. CASE getter \in {"revision_id", "subclass_id"}
          <5>1. Size(getter) = 8 /\ First(getter) = IF getter = "revision_id" THEN 0 ELSE 16
            BY <2>7, <4>2 DEF Size, First
          <5>2. ret'[j] = IF j < 8 THEN word[j] ELSE Zero
            BY <3>1, <4>2 DEF Take
          <5>3. j < 8 => j \in 0 .. 15 /\ (16 + j) - 12 = j + 4
            OBVIOUS
          <5>4. getter \in Uppers <=> getter = "subclass_id"
            BY <4>2 DEF Uppers
          <5> QED
            BY <3>3, <4>2, <5>1, <5>2, <5>3, <5>4
        <4>3. CASE getter \in {"prog_if", "classid"}
          <5>1. Size(getter) = 8 /\ First(getter) = IF getter = "prog_if" THEN 8 ELSE 24
            BY <2>7, <4>3 DEF Size, First
          <5>2. ret'[j] = IF j < 8 THEN word[j + 8] ELSE Zero
            BY <3>1, <4>3 DEF Take
          <5>3. j < 8 => j + 8 \in 0 .. 15 /\ (24 + j) - 12 = (j + 8) + 4 /\ 8 + j = j + 8
            OBVIOUS
          <5>4. getter \in Uppers <=> getter = "classid"
            BY <4>3 DEF Uppers
          <5>5. j < 8 => word[j + 8] = Bit(IF getter \in Uppers THEN (j + 8) + 4 ELSE j + 8)
            BY <3>3, <5>3
          <5> QED
            BY <4>3, <5>1, <5>2, <5>3, <5>4, <5>5
        <4> QED
          BY <3>2, <4>1, <4>2, <4>3
      <3>5. FieldPlaces'
        BY <2>1, <3>4 DEF FieldPlaces, Bit
      <3> QED
        BY <2>1, <3>1, <3>5 DEF PciInv, Call
    <2> QED
      BY <2>1, <2>5, <2>6, <2>7 DEF Call
  <1>3. CASE UNCHANGED vars
    BY <1>3 DEF vars, PciInv, Call, FieldPlaces, Bit
  <1> QED
    BY <1>1, <1>2, <1>3 DEF Next

-----------------------------------------------------------------------------
(***************************************************************************)
(* Theorems                                                                *)
(***************************************************************************)
\* The inductive invariant of the getters.
THEOREM PciInvariant == Spec => []PciInv
  <1>1. Init => PciInv
    <2> SUFFICES ASSUME Init PROVE PciInv
      OBVIOUS
    <2>1. Call
      BY PciAssumption DEF Init, Call
    <2>2. Bar(getter) <=> half = "upper"
      BY DEF Init
    <2> QED
      BY <2>1, <2>2 DEF Init, PciInv, FieldPlaces
  <1> QED
    BY <1>1, NextPci, PTL DEF Spec

\* For every bus, slot and function, each bit of what a getter returns comes from
\* the register it is asked for, from the place of its field's bit in the lower
\* half of a register and from 12 places below it in the upper half (pci.c:10-87).
THEOREM GettersRead == Spec => []FieldPlaces
  BY PciInvariant, PTL DEF PciInv
=============================================================================
