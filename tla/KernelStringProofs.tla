------------------------- MODULE KernelStringProofs -------------------------
(***************************************************************************)
(* dec2str and hex2str convert every number right, whatever their buffers  *)
(* hold, and never write beyond them.                                      *)
(***************************************************************************)
EXTENDS KernelString, FiniteSetTheorems, SequenceTheorems, WellFoundedInduction, TLAPS

-----------------------------------------------------------------------------
(***************************************************************************)
(* Induction and recursive functions                                       *)
(***************************************************************************)
\* A set of numbers has a least one: intervals are well-founded by inclusion.
LEMMA LeastNumber ==
    ASSUME NEW T \in SUBSET Nat, T # {}
    PROVE  \E n \in T : \A m \in T : n <= m
  <1>. DEFINE R == StrictSubsetOrdering(Nat)
              U == {0 .. n : n \in T}
              F == FiniteSubsetsOf(Nat)
  <1>1. IsWellFoundedOn(R, F)
    BY FS_StrictSubsetOrderingWellFounded
  <1>2. U \subseteq F /\ U # {}
    <2>1. ASSUME NEW n \in T PROVE 0 .. n \in F
      BY FS_Interval DEF FiniteSubsetsOf
    <2>. QED
      BY <2>1
  <1>3. ASSUME NEW n \in T, NEW m \in T, m < n
        PROVE  << 0 .. m, 0 .. n >> \in R
    <2>1. 0 .. m \in SUBSET Nat /\ 0 .. n \in SUBSET Nat
      OBVIOUS
    <2>2. 0 .. m \subseteq 0 .. n /\ 0 .. m # 0 .. n
      BY <1>3
    <2>. QED
      BY <2>1, <2>2 DEF StrictSubsetOrdering
  <1>. HIDE DEF R, F
  <1>4. PICK u \in U : \A v \in U : ~ (<< v, u >> \in R)
    <2>. HIDE DEF U
    <2>. QED
      BY <1>1, <1>2, WFMin
  <1>5. PICK n \in T : u = 0 .. n
    OBVIOUS
  <1>6. \A m \in T : ~ (m < n)
    BY <1>3, <1>4, <1>5
  <1>. QED
    BY <1>6

\* Induction, with the set of the numbers that have the property.
LEMMA Induction ==
    ASSUME NEW S \in SUBSET Nat, 0 \in S, \A n \in S : n + 1 \in S
    PROVE  S = Nat
  <1>. DEFINE T == Nat \ S
  <1>. SUFFICES ASSUME T # {} PROVE FALSE
    OBVIOUS
  <1>1. PICK n \in T : \A m \in T : n <= m
    <2>1. T \in SUBSET Nat
      OBVIOUS
    <2>. HIDE DEF T
    <2>. QED
      BY <2>1, LeastNumber
  <1>2. n # 0 /\ n - 1 \in Nat
    OBVIOUS
  <1>3. n - 1 \in S
    BY <1>1, <1>2
  <1>4. (n - 1) + 1 = n
    OBVIOUS
  <1>. QED
    BY <1>3, <1>4

\* Steps from one value of D to the next, and a function that takes N of them.
Steps(N, D) == [1 .. N -> [D -> D]]
Recursive(f, N, D, a, g) ==
    f \in [0 .. N -> D] /\ f[0] = a /\ \A k \in 1 .. N : f[k] = g[k][f[k - 1]]

\* A first value and a step to the next one define a function.
LEMMA Recursion ==
    ASSUME NEW N \in Nat, NEW D, NEW a \in D, NEW g \in Steps(N, D)
    PROVE  \E f : Recursive(f, N, D, a, g)
  <1>. USE DEF Steps, Recursive
  <1>. DEFINE Upto(m) ==
                \E f \in [0 .. m -> D] : f[0] = a /\ \A k \in 1 .. m : f[k] = g[k][f[k - 1]]
              S == {m \in Nat : m <= N => Upto(m)}
  <1>1. 0 \in S
    <2>1. [k \in 0 .. 0 |-> a] \in [0 .. 0 -> D] /\ [k \in 0 .. 0 |-> a][0] = a
      OBVIOUS
    <2>2. \A k \in 1 .. 0 : FALSE
      OBVIOUS
    <2>3. Upto(0)
      BY <2>1, <2>2
    <2>. QED
      BY <2>3
  <1>2. ASSUME NEW m \in S PROVE m + 1 \in S
    <2>. SUFFICES ASSUME m + 1 <= N PROVE Upto(m + 1)
      OBVIOUS
    <2>1. PICK f \in [0 .. m -> D] : f[0] = a /\ \A k \in 1 .. m : f[k] = g[k][f[k - 1]]
      OBVIOUS
    <2>. DEFINE h == [k \in 0 .. (m + 1) |-> IF k = m + 1 THEN g[m + 1][f[m]] ELSE f[k]]
    <2>2. f[m] \in D /\ g[m + 1] \in [D -> D]
      OBVIOUS
    <2>3. h \in [0 .. (m + 1) -> D] /\ h[0] = a
      BY <2>1, <2>2
    <2>4. ASSUME NEW k \in 1 .. (m + 1) PROVE h[k] = g[k][h[k - 1]]
      <3>1. CASE k = m + 1
        BY <3>1
      <3>2. CASE k # m + 1
        <4>1. k \in 1 .. m /\ k - 1 \in 0 .. m /\ k - 1 # m + 1
          BY <3>2
        <4>. QED
          BY <2>1, <3>2, <4>1
      <3>. QED
        BY <3>1, <3>2
    <2>. HIDE DEF h
    <2>. QED
      BY <2>3, <2>4
  <1>3. S = Nat
    <2>1. S \in SUBSET Nat
      OBVIOUS
    <2>. HIDE DEF S
    <2>. QED
      BY <1>1, <1>2, <2>1, Induction
  <1>. QED
    BY <1>3

-----------------------------------------------------------------------------
(***************************************************************************)
(* Powers and values                                                       *)
(***************************************************************************)
\* Each power is base times the last.
LEMMA PowersRec ==
    ASSUME NEW base \in {10, 16}
    PROVE  /\ Powers(base) \in [0 .. BufSize -> Nat \ {0}]
           /\ Powers(base)[0] = 1
           /\ \A k \in 1 .. BufSize : Powers(base)[k] = base * Powers(base)[k - 1]
  <1>. DEFINE P == Nat \ {0}
              g == [k \in 1 .. BufSize |-> [n \in P |-> base * n]]
              IsPowers(f) == f = [k \in 0 .. BufSize |-> IF k = 0 THEN 1 ELSE base * f[k - 1]]
  <1>0. BufSize \in Nat
    BY StringAssumption
  <1>1. g \in Steps(BufSize, P)
    <2>1. \A n \in P : base * n \in P
      OBVIOUS
    <2>. QED
      BY <2>1 DEF Steps
  <1>2. PICK f : Recursive(f, BufSize, P, 1, g)
    <2>1. 1 \in P
      OBVIOUS
    <2>. HIDE DEF g, P
    <2>. QED
      BY <1>0, <1>1, <2>1, Recursion
  <1>3. \A k \in 1 .. BufSize : k - 1 \in 0 .. BufSize /\ f[k] = base * f[k - 1]
    <2>1. \A k \in 1 .. BufSize : k - 1 \in 0 .. BufSize
      BY <1>0
    <2>2. \A k \in 1 .. BufSize, n \in P : g[k][n] = base * n
      OBVIOUS
    <2>. HIDE DEF g, P
    <2>. QED
      BY <1>2, <2>1, <2>2 DEF Recursive
  <1>4. IsPowers(f)
    BY <1>0, <1>2, <1>3 DEF Recursive
  <1>5. Powers(base) = CHOOSE h : IsPowers(h)
    BY DEF Powers
  <1>6. IsPowers(Powers(base))
    <2>. HIDE DEF IsPowers
    <2>. QED
      BY <1>4, <1>5
  <1>. DEFINE p == Powers(base)
  <1>. HIDE DEF p
  <1>7. /\ p[0] = 1 /\ \A k \in 1 .. BufSize : p[k] = base * p[k - 1]
        /\ DOMAIN p = 0 .. BufSize
    BY <1>0, <1>6 DEF p
  <1>8. p \in [0 .. BufSize -> P]
    <2>. DEFINE S == {k \in Nat : k <= BufSize => p[k] \in P}
    <2>1. 0 \in S
      BY <1>7
    <2>2. ASSUME NEW k \in S PROVE k + 1 \in S
      <3>. SUFFICES ASSUME k + 1 <= BufSize PROVE p[k + 1] \in P
        OBVIOUS
      <3>1. k + 1 \in 1 .. BufSize /\ (k + 1) - 1 = k /\ p[k] \in P
        BY <1>0
      <3>2. p[k + 1] = base * p[k]
        BY <1>7, <3>1
      <3>. QED
        BY <3>1, <3>2
    <2>3. S = Nat
      <3>1. S \in SUBSET Nat
        OBVIOUS
      <3>. HIDE DEF S
      <3>. QED
        BY <2>1, <2>2, <3>1, Induction
    <2>4. \A k \in 0 .. BufSize : p[k] \in P
      BY <1>0, <2>3
    <2>5. p = [k \in DOMAIN p |-> p[k]]
      BY <1>6 DEF p
    <2>. QED
      BY <1>7, <2>4, <2>5
  <1>. QED
    BY <1>7, <1>8 DEF p

\* Powers are not 0.
LEMMA PowerPositive ==
    ASSUME NEW base \in {10, 16}, NEW k \in 0 .. BufSize
    PROVE  Powers(base)[k] \in Nat /\ Powers(base)[k] > 0
  <1>1. Powers(base)[k] \in Nat \ {0}
    BY PowersRec
  <1>. QED
    BY <1>1

\* The value of the first digits is base times that of fewer, and the last.
LEMMA ValueRec ==
    ASSUME NEW base \in {10, 16}, NEW s \in Seq(Nat)
    PROVE  \E v \in [0 .. Len(s) -> Nat] :
               /\ Value(s, base) = v[Len(s)] /\ v[0] = 0
               /\ \A k \in 1 .. Len(s) : v[k] = base * v[k - 1] + s[k]
  <1>. DEFINE N == Len(s)
              g == [k \in 1 .. N |-> [n \in Nat |-> base * n + s[k]]]
              IsValue(f) == f = [k \in 0 .. Len(s) |-> IF k = 0 THEN 0 ELSE base * f[k - 1] + s[k]]
  <1>0. N \in Nat /\ \A k \in 1 .. N : s[k] \in Nat
    OBVIOUS
  <1>1. g \in Steps(N, Nat)
    <2>1. \A k \in 1 .. N, n \in Nat : base * n + s[k] \in Nat
      BY <1>0
    <2>. QED
      BY <2>1 DEF Steps
  <1>2. PICK f : Recursive(f, N, Nat, 0, g)
    <2>1. 0 \in Nat
      OBVIOUS
    <2>. HIDE DEF g, N
    <2>. QED
      BY <1>0, <1>1, <2>1, Recursion
  <1>3. \A k \in 1 .. N : k - 1 \in 0 .. N /\ f[k] = base * f[k - 1] + s[k]
    <2>1. \A k \in 1 .. N : k - 1 \in 0 .. N
      BY <1>0
    <2>2. \A k \in 1 .. N, n \in Nat : g[k][n] = base * n + s[k]
      OBVIOUS
    <2>. HIDE DEF g, N
    <2>. QED
      BY <1>2, <2>1, <2>2 DEF Recursive
  <1>4. IsValue(f)
    BY <1>0, <1>2, <1>3 DEF Recursive
  <1>. DEFINE v == CHOOSE h : IsValue(h)
  <1>5. Value(s, base) = v[N]
    BY DEF Value
  <1>6. IsValue(v)
    <2>. HIDE DEF IsValue
    <2>. QED
      BY <1>4
  <1>. HIDE DEF v, N
  <1>7. /\ v[0] = 0 /\ \A k \in 1 .. N : v[k] = base * v[k - 1] + s[k]
        /\ DOMAIN v = 0 .. N
    <2>1. v = [k \in 0 .. N |-> IF k = 0 THEN 0 ELSE base * v[k - 1] + s[k]]
      BY <1>6 DEF N
    <2>2. \A k \in 1 .. N : k \in 0 .. N /\ k # 0
      BY <1>0
    <2>3. 0 \in 0 .. N
      BY <1>0
    <2>. QED
      BY <2>1, <2>2, <2>3
  <1>8. v \in [0 .. N -> Nat]
    <2>. DEFINE S == {k \in Nat : k <= N => v[k] \in Nat}
    <2>1. 0 \in S
      BY <1>7
    <2>2. ASSUME NEW k \in S PROVE k + 1 \in S
      <3>. SUFFICES ASSUME k + 1 <= N PROVE v[k + 1] \in Nat
        OBVIOUS
      <3>1. k + 1 \in 1 .. N /\ (k + 1) - 1 = k /\ v[k] \in Nat /\ s[k + 1] \in Nat
        BY <1>0
      <3>2. v[k + 1] = base * v[k] + s[k + 1]
        BY <1>7, <3>1
      <3>. QED
        BY <3>1, <3>2
    <2>3. S = Nat
      <3>1. S \in SUBSET Nat
        OBVIOUS
      <3>. HIDE DEF S
      <3>. QED
        BY <2>1, <2>2, <3>1, Induction
    <2>4. \A k \in 0 .. N : v[k] \in Nat
      BY <1>0, <2>3
    <2>5. v = [k \in DOMAIN v |-> v[k]]
      BY <1>6
    <2>. QED
      BY <1>7, <2>4, <2>5
  <1>. QED
    BY <1>5, <1>7, <1>8 DEF N

\* Digits that are the remainders of a number's divisions stand for the number.
LEMMA ValueOfDigits ==
    ASSUME NEW base \in {10, 16}, NEW s \in Seq(Nat), NEW u \in [0 .. Len(s) -> Nat],
           u[Len(s)] = 0,
           \A k \in 0 .. (Len(s) - 1) : u[k] = base * u[k + 1] + s[Len(s) - k]
    PROVE  Value(s, base) = u[0]
  <1>. DEFINE N == Len(s)
  <1>0. N \in Nat
    OBVIOUS
  <1>1. PICK v \in [0 .. N -> Nat] :
            /\ Value(s, base) = v[N] /\ v[0] = 0
            /\ \A k \in 1 .. N : v[k] = base * v[k - 1] + s[k]
    BY ValueRec
  <1>. HIDE DEF N
  <1>2. \A k \in 0 .. (N - 1) : u[k] = base * u[k + 1] + s[N - k]
    BY DEF N
  <1>. DEFINE S == {k \in Nat : k <= N => v[k] = u[N - k]}
  <1>3. 0 \in S
    BY <1>0, <1>1 DEF N
  <1>4. ASSUME NEW k \in S PROVE k + 1 \in S
    <2>. SUFFICES ASSUME k + 1 <= N PROVE v[k + 1] = u[N - (k + 1)]
      OBVIOUS
    <2>1. /\ k + 1 \in 1 .. N /\ (k + 1) - 1 = k /\ N - (k + 1) \in 0 .. (N - 1)
          /\ (N - (k + 1)) + 1 = N - k /\ N - (N - (k + 1)) = k + 1
      BY <1>0
    <2>2. v[k + 1] = base * v[k] + s[k + 1]
      BY <1>1, <2>1
    <2>3. u[N - (k + 1)] = base * u[N - k] + s[k + 1]
      BY <1>2, <2>1
    <2>. QED
      BY <1>0, <2>2, <2>3
  <1>5. S = Nat
    <2>1. S \in SUBSET Nat
      OBVIOUS
    <2>. HIDE DEF S
    <2>. QED
      BY <1>3, <1>4, <2>1, Induction
  <1>6. v[N] = u[N - N] /\ N - N = 0
    BY <1>0, <1>5
  <1>. QED
    BY <1>1, <1>6

-----------------------------------------------------------------------------
(***************************************************************************)
(* The bytes of a buffer                                                   *)
(***************************************************************************)
Bytes == [0 .. (BufSize - 1) -> Nat]

\* The first k bytes are remainders of the divisions that lead from n to rest.
Chain(u, buf, base, n, rest, k) ==
    /\ u \in [0 .. k -> Nat] /\ u[0] = n /\ u[k] = rest
    /\ \A j \in 0 .. (k - 1) : buf[j] \in 0 .. (base - 1) /\ u[j] = base * u[j + 1] + buf[j]

\* They are the last k digits of n, and rest is what is left of it; only 0 has
\* a digit that nothing but 0 is left of.
Digits(buf, base, n, rest, k) ==
    /\ \E u : /\ Chain(u, buf, base, n, rest, k)
              /\ n # 0 => \A j \in 0 .. (k - 1) : u[j] # 0
    /\ n = 0 => k = 1 /\ rest = 0

\* There is room for as many digits as rest has, after those.
Room(base, rest, room) == room \in 0 .. BufSize /\ rest < Powers(base)[room]

\* A sequence written into a buffer is in it, and what is before stays.
LEMMA WriteBytes ==
    ASSUME NEW buf \in Bytes, NEW at \in Nat, NEW s \in Seq(Nat), at + Len(s) <= BufSize
    PROVE  /\ Write(buf, at, s) \in Bytes
           /\ \A j \in 0 .. (at - 1) : Write(buf, at, s)[j] = buf[j]
           /\ \A j \in 1 .. Len(s) : Write(buf, at, s)[at + j - 1] = s[j]
  <1>0. BufSize \in Nat /\ Len(s) \in Nat /\ \A j \in 1 .. Len(s) : s[j] \in Nat
    BY StringAssumption
  <1>1. Write(buf, at, s) \in Bytes
    <2>1. ASSUME NEW j \in 0 .. (BufSize - 1), j \in at .. (at + Len(s) - 1)
          PROVE  s[j - at + 1] \in Nat
      <3>1. j - at + 1 \in 1 .. Len(s)
        BY <1>0, <2>1
      <3>. QED
        BY <1>0, <3>1
    <2>. QED
      BY <2>1 DEF Write, Bytes
  <1>2. ASSUME NEW j \in 0 .. (at - 1) PROVE Write(buf, at, s)[j] = buf[j]
    <2>1. j \in 0 .. (BufSize - 1) /\ j \notin at .. (at + Len(s) - 1)
      BY <1>0, <1>2
    <2>. QED
      BY <2>1 DEF Write
  <1>3. ASSUME NEW j \in 1 .. Len(s) PROVE Write(buf, at, s)[at + j - 1] = s[j]
    <2>1. /\ at + j - 1 \in 0 .. (BufSize - 1) /\ at + j - 1 \in at .. (at + Len(s) - 1)
          /\ (at + j - 1) - at + 1 = j
      BY <1>0, <1>3
    <2>. QED
      BY <2>1 DEF Write
  <1>. QED
    BY <1>1, <1>2, <1>3

\* So is a digit.
LEMMA WriteDigit ==
    ASSUME NEW buf \in Bytes, NEW k \in 0 .. (BufSize - 1), NEW d \in Nat
    PROVE  LET new == Write(buf, k, << d >>)
           IN new \in Bytes /\ new[k] = d /\ \A j \in 0 .. (k - 1) : new[j] = buf[j]
  <1>. DEFINE t == << d >>
  <1>1. t \in Seq(Nat) /\ Len(t) = 1 /\ t[1] = d /\ k + Len(t) <= BufSize /\ 1 \in 1 .. Len(t)
        /\ k + 1 - 1 = k /\ k \in Nat
    BY StringAssumption
  <1>. HIDE DEF t
  <1>2. /\ Write(buf, k, t) \in Bytes
        /\ \A j \in 0 .. (k - 1) : Write(buf, k, t)[j] = buf[j]
        /\ \A j \in 1 .. Len(t) : Write(buf, k, t)[k + j - 1] = t[j]
    BY <1>1, WriteBytes
  <1>. QED
    BY <1>1, <1>2 DEF t

\* A digit more.
LEMMA TakeDigit ==
    ASSUME NEW base \in {10, 16}, NEW buf \in Bytes, NEW n \in Nat, NEW rest \in Nat \ {0},
           NEW k \in Nat, NEW room \in 0 .. (BufSize - 1), k <= room,
           Digits(buf, base, n, rest, k), Room(base, rest, room - k)
    PROVE  /\ k + 1 <= room /\ rest \div base \in Nat
           /\ Write(buf, k, << rest % base >>) \in Bytes
           /\ Digits(Write(buf, k, << rest % base >>), base, n, rest \div base, k + 1)
           /\ Room(base, rest \div base, room - (k + 1))
  <1>. DEFINE d == rest % base
              q == rest \div base
              new == Write(buf, k, << d >>)
  <1>0. BufSize \in Nat
    BY StringAssumption
  <1>1. d \in 0 .. (base - 1) /\ q \in Nat /\ rest = base * q + d
    OBVIOUS
  <1>2. k + 1 <= room
    <2>1. ASSUME room = k PROVE FALSE
      <3>1. room - k = 0
        BY <2>1
      <3>2. rest < Powers(base)[0]
        BY <3>1 DEF Room
      <3>. QED
        BY <3>2, PowersRec
    <2>. QED
      BY <1>0, <2>1
  <1>3. Room(base, q, room - (k + 1))
    <2>. DEFINE m == room - k
    <2>1. m \in 1 .. BufSize /\ m - 1 = room - (k + 1) /\ m - 1 \in 0 .. BufSize
      BY <1>0, <1>2
    <2>2. /\ Powers(base)[m] = base * Powers(base)[m - 1] /\ Powers(base)[m - 1] \in Nat
          /\ rest < Powers(base)[m]
      BY <2>1, PowersRec DEF Room
    <2>3. q < Powers(base)[m - 1]
      BY <1>1, <2>2
    <2>. QED
      BY <2>1, <2>3 DEF Room
  <1>5. new \in Bytes /\ new[k] = d /\ \A j \in 0 .. (k - 1) : new[j] = buf[j]
    <2>1. k \in 0 .. (BufSize - 1) /\ d \in Nat
      BY <1>0, <1>1, <1>2
    <2>. HIDE DEF d
    <2>. QED
      BY <2>1, WriteDigit
  <1>. HIDE DEF d, q, new
  <1>6. PICK u : /\ Chain(u, buf, base, n, rest, k)
                 /\ n # 0 => \A j \in 0 .. (k - 1) : u[j] # 0
    BY DEF Digits
  <1>. DEFINE w == [j \in 0 .. (k + 1) |-> IF j = k + 1 THEN q ELSE u[j]]
  <1>7. w \in [0 .. (k + 1) -> Nat] /\ w[0] = n /\ w[k + 1] = q /\ w[k] = rest
        /\ \A j \in 0 .. k : w[j] = u[j]
    BY <1>1, <1>6 DEF Chain
  <1>. HIDE DEF w
  <1>8. ASSUME NEW j \in 0 .. k
        PROVE  new[j] \in 0 .. (base - 1) /\ w[j] = base * w[j + 1] + new[j] /\ (n # 0 => w[j] # 0)
    <2>1. CASE j = k
      BY <1>1, <1>5, <1>7, <2>1
    <2>2. CASE j # k
      <3>1. j \in 0 .. (k - 1) /\ j + 1 \in 0 .. k
        BY <2>2
      <3>. QED
        BY <1>5, <1>6, <1>7, <3>1 DEF Chain
    <2>. QED
      BY <2>1, <2>2
  <1>9. Digits(new, base, n, q, k + 1)
    <2>1. (k + 1) - 1 = k /\ n # 0
      BY DEF Digits
    <2>2. Chain(w, new, base, n, q, k + 1)
      BY <1>7, <1>8, <2>1 DEF Chain
    <2>. QED
      BY <1>8, <2>1, <2>2 DEF Digits
  <1>. QED
    BY <1>1, <1>2, <1>3, <1>5, <1>9 DEF d, q, new

\* The first k bytes, from the last.
Backwards(buf, k) == [j \in 1 .. k |-> buf[k - j]]

\* The bytes of a whole number, from the last, are digits that stand for it.
LEMMA ChainValue ==
    ASSUME NEW base \in {10, 16}, NEW buf \in Bytes, NEW n \in Nat, NEW k \in 0 .. BufSize,
           NEW u, Chain(u, buf, base, n, 0, k)
    PROVE  LET d == Backwards(buf, k)
           IN /\ d \in Seq(Nat) /\ Len(d) = k /\ Value(d, base) = n
              /\ \A j \in 1 .. k : d[j] \in 0 .. (base - 1)
  <1>. DEFINE d == Backwards(buf, k)
  <1>0. BufSize \in Nat /\ k \in Nat
    BY StringAssumption
  <1>1. \A j \in 1 .. k : k - j \in 0 .. (k - 1) /\ k - j \in 0 .. (BufSize - 1)
    BY <1>0
  <1>2. \A j \in 1 .. k : buf[k - j] \in Nat /\ buf[k - j] \in 0 .. (base - 1)
    BY <1>1 DEF Chain, Bytes
  <1>3. d \in Seq(Nat) /\ Len(d) = k /\ \A j \in 1 .. k : d[j] = buf[k - j]
    BY <1>0, <1>2 DEF Backwards
  <1>. HIDE DEF d
  <1>4. ASSUME NEW j \in 0 .. (k - 1) PROVE u[j] = base * u[j + 1] + d[k - j]
    <2>1. k - j \in 1 .. k /\ k - (k - j) = j
      BY <1>0
    <2>2. d[k - j] = buf[j]
      BY <1>3, <2>1
    <2>. QED
      BY <2>2 DEF Chain
  <1>5. /\ u \in [0 .. Len(d) -> Nat] /\ u[Len(d)] = 0 /\ u[0] = n
        /\ \A j \in 0 .. (Len(d) - 1) : u[j] = base * u[j + 1] + d[Len(d) - j]
    BY <1>3, <1>4 DEF Chain
  <1>6. Value(d, base) = u[0]
    BY <1>3, <1>5, ValueOfDigits
  <1>. QED
    BY <1>2, <1>3, <1>5, <1>6 DEF d

\* The buffer that is returned, after k bytes and s, and what is in it: both,
\* from the last to the first.
Final(buf, k, s) == Swap(Write(buf, k, s \o << NUL >>), k + Len(s))
Reverted(buf, k, s) ==
    [j \in 1 .. (k + Len(s)) |-> IF j <= Len(s) THEN s[Len(s) - j + 1] ELSE buf[k + Len(s) - j]]

\* The buffer that is returned holds the reverted text.
LEMMA StrFinal ==
    ASSUME NEW buf \in Bytes, NEW k \in Nat, NEW s \in Seq(Nat), k + Len(s) < BufSize,
           \A j \in 1 .. Len(s) : s[j] # NUL, \A j \in 0 .. (k - 1) : buf[j] # NUL
    PROVE  Final(buf, k, s) \in Bytes /\ Str(Final(buf, k, s)) = Reverted(buf, k, s)
  <1>. DEFINE n == k + Len(s)
              t == s \o << NUL >>
              w == Write(buf, k, t)
              new == Swap(w, n)
  <1>0. /\ BufSize \in Nat /\ Len(s) \in Nat /\ n \in Nat /\ n < BufSize /\ NUL = 18
        /\ \A j \in 1 .. Len(s) : s[j] \in Nat
    BY StringAssumption DEF NUL
  <1>1. /\ t \in Seq(Nat) /\ Len(t) = Len(s) + 1 /\ t[Len(s) + 1] = NUL
        /\ \A j \in 1 .. Len(s) : t[j] = s[j]
    BY <1>0
  <1>. HIDE DEF t
  <1>2. /\ w \in Bytes /\ \A j \in 0 .. (k - 1) : w[j] = buf[j]
        /\ \A j \in 1 .. (Len(s) + 1) : w[k + j - 1] = t[j]
    <2>1. k + Len(t) <= BufSize
      BY <1>0, <1>1
    <2>2. /\ Write(buf, k, t) \in Bytes
          /\ \A j \in 0 .. (k - 1) : Write(buf, k, t)[j] = buf[j]
          /\ \A j \in 1 .. Len(t) : Write(buf, k, t)[k + j - 1] = t[j]
      BY <1>1, <2>1, WriteBytes
    <2>. QED
      BY <1>1, <2>2
  <1>. HIDE DEF w
  <1>3. w[n] = NUL
    <2>1. Len(s) + 1 \in 1 .. (Len(s) + 1) /\ k + (Len(s) + 1) - 1 = n
      BY <1>0
    <2>. QED
      BY <1>1, <1>2, <2>1
  <1>4. ASSUME NEW j \in 1 .. n
        PROVE  w[n - j] = IF j <= Len(s) THEN s[Len(s) - j + 1] ELSE buf[n - j]
    <2>1. CASE j <= Len(s)
      <3>1. /\ Len(s) - j + 1 \in 1 .. Len(s) /\ Len(s) - j + 1 \in 1 .. (Len(s) + 1)
            /\ k + (Len(s) - j + 1) - 1 = n - j
        BY <1>0, <2>1
      <3>. QED
        BY <1>1, <1>2, <2>1, <3>1
    <2>2. CASE ~ (j <= Len(s))
      <3>1. n - j \in 0 .. (k - 1)
        BY <1>0, <2>2
      <3>. QED
        BY <1>2, <2>2, <3>1
    <2>. QED
      BY <2>1, <2>2
  <1>5. ASSUME NEW j \in 1 .. n PROVE w[n - j] # NUL
    <2>1. CASE j <= Len(s)
      <3>1. Len(s) - j + 1 \in 1 .. Len(s)
        BY <1>0, <2>1
      <3>. QED
        BY <1>4, <2>1, <3>1
    <2>2. CASE ~ (j <= Len(s))
      <3>1. n - j \in 0 .. (k - 1)
        BY <1>0, <2>2
      <3>. QED
        BY <1>4, <2>2, <3>1
    <2>. QED
      BY <2>1, <2>2
  <1>6. /\ new \in Bytes /\ new[n] = NUL
        /\ \A j \in 0 .. (n - 1) : new[j] = w[n - 1 - j]
    <2>1. \A j \in 0 .. (BufSize - 1) : j < n => n - 1 - j \in 0 .. (BufSize - 1)
      BY <1>0
    <2>2. n \in 0 .. (BufSize - 1) /\ ~ (n < n)
          /\ \A j \in 0 .. (n - 1) : j \in 0 .. (BufSize - 1) /\ j < n
      BY <1>0
    <2>. HIDE DEF n
    <2>. QED
      BY <1>2, <1>3, <2>1, <2>2 DEF Swap, Bytes
  <1>. HIDE DEF new
  <1>7. \A j \in 1 .. n : new[j - 1] = w[n - j] /\ new[j - 1] # NUL
    <2>1. \A j \in 1 .. n : j - 1 \in 0 .. (n - 1) /\ n - 1 - (j - 1) = n - j
      BY <1>0
    <2>. QED
      BY <1>5, <1>6, <2>1
  <1>8. Str(new) = [j \in 1 .. n |-> new[j - 1]]
    <2>. DEFINE Ends(m) == new[m] = NUL /\ \A j \in 0 .. (m - 1) : new[j] # NUL
                e == CHOOSE m \in 0 .. (BufSize - 1) : Ends(m)
    <2>1. n \in 0 .. (BufSize - 1) /\ Ends(n)
      <3>1. \A j \in 0 .. (n - 1) : j + 1 \in 1 .. n /\ (j + 1) - 1 = j
        BY <1>0
      <3>2. \A j \in 0 .. (n - 1) : new[j] # NUL
        BY <1>7, <3>1
      <3>. QED
        BY <1>0, <1>6, <3>2
    <2>2. e \in 0 .. (BufSize - 1) /\ Ends(e)
      <3>. HIDE DEF Ends
      <3>. QED
        BY <2>1
    <2>3. e = n
      <3>. HIDE DEF e, n
      <3>1. e \in 0 .. (n - 1) \/ n \in 0 .. (e - 1) \/ e = n
        BY <1>0, <2>1, <2>2
      <3>. QED
        BY <2>1, <2>2, <3>1
    <2>4. Str(new) = [j \in 1 .. e |-> new[j - 1]]
      BY DEF Str
    <2>. QED
      BY <2>3, <2>4
  <1>. QED
    <2>1. [j \in 1 .. n |-> new[j - 1]]
            = [j \in 1 .. n |-> IF j <= Len(s) THEN s[Len(s) - j + 1] ELSE buf[n - j]]
      BY <1>4, <1>7
    <2>. QED
      <3>1. new = Final(buf, k, s)
        BY DEF new, w, t, Final
      <3>2. Str(new) = Reverted(buf, k, s)
        BY <1>8, <2>1 DEF Reverted
      <3>. QED
        BY <1>6, <3>1, <3>2

\* Without anything added, the digits alone are returned.
LEMMA RevertedNone ==
    ASSUME NEW buf \in Bytes, NEW k \in 0 .. BufSize
    PROVE  Reverted(buf, k, << >>) = Backwards(buf, k)
  <1>1. k \in Nat /\ k + Len(<< >>) = k /\ \A j \in 1 .. k : ~ (j <= Len(<< >>))
    BY StringAssumption
  <1>. QED
    BY <1>1 DEF Reverted, Backwards

\* What was added comes first, then the digits.
LEMMA RevertedLast ==
    ASSUME NEW buf \in Bytes, NEW k \in 0 .. BufSize, NEW s \in Seq(Nat)
    PROVE  LET r == Reverted(buf, k, s)
           IN /\ r \in Seq(Nat) /\ Len(r) = k + Len(s)
              /\ \A j \in 1 .. Len(s) : r[j] = s[Len(s) - j + 1]
              /\ \A j \in 1 .. k : r[j + Len(s)] = Backwards(buf, k)[j]
  <1>. DEFINE N == Len(s)
              r == Reverted(buf, k, s)
              P(j) == IF j <= N THEN s[N - j + 1] ELSE buf[k + N - j]
  <1>0. /\ BufSize \in Nat /\ k \in Nat /\ N \in Nat /\ \A j \in 1 .. N : s[j] \in Nat
    BY StringAssumption
  <1>1. ASSUME NEW j \in 1 .. N PROVE P(j) = s[N - j + 1] /\ P(j) \in Nat /\ j \in 1 .. (k + N)
    BY <1>0
  <1>2. ASSUME NEW j \in 1 .. k
        PROVE  /\ P(j + N) = Backwards(buf, k)[j] /\ P(j + N) \in Nat /\ j + N \in 1 .. (k + N)
    <2>1. /\ k + N - (j + N) = k - j /\ ~ (j + N <= N) /\ k - j \in 0 .. (BufSize - 1)
          /\ j + N \in 1 .. (k + N)
      BY <1>0
    <2>. QED
      BY <2>1 DEF Backwards, Bytes
  <1>3. r = [j \in 1 .. (k + N) |-> P(j)]
    BY DEF Reverted
  <1>4. ASSUME NEW j \in 1 .. (k + N) PROVE P(j) \in Nat
    <2>1. j \in 1 .. N \/ (j - N \in 1 .. k /\ (j - N) + N = j)
      BY <1>0
    <2>. HIDE DEF P
    <2>. QED
      BY <1>1, <1>2, <2>1
  <1>. HIDE DEF P, N, r
  <1>5. r \in Seq(Nat) /\ Len(r) = k + N
    BY <1>0, <1>3, <1>4
  <1>. QED
    BY <1>1, <1>2, <1>3, <1>5 DEF N, r

\* Before the loop: 0 has its digit, another number none yet.
LEMMA StartDigits ==
    ASSUME NEW base \in {10, 16}, NEW buf \in Bytes, NEW n \in Nat, NEW room \in 1 .. (BufSize - 1),
           n < Powers(base)[room]
    PROVE  /\ n = 0 => /\ Write(buf, 0, << 0 >>) \in Bytes
                       /\ Digits(Write(buf, 0, << 0 >>), base, n, n, 1)
                       /\ Room(base, n, room - 1)
           /\ n # 0 => Digits(buf, base, n, n, 0) /\ Room(base, n, room - 0)
  <1>0. BufSize \in Nat
    BY StringAssumption
  <1>1. ASSUME n = 0
        PROVE  /\ Write(buf, 0, << 0 >>) \in Bytes
               /\ Digits(Write(buf, 0, << 0 >>), base, n, n, 1)
               /\ Room(base, n, room - 1)
    <2>. DEFINE new == Write(buf, 0, << 0 >>)
                u == [j \in 0 .. 1 |-> 0]
    <2>1. 0 \in 0 .. (BufSize - 1) /\ 0 \in Nat
      BY StringAssumption
    <2>3. new \in Bytes /\ new[0] = 0
      BY <2>1, WriteDigit
    <2>. HIDE DEF new
    <2>4. u \in [0 .. 1 -> Nat] /\ u[0] = 0 /\ u[1] = 0
      OBVIOUS
    <2>. HIDE DEF u
    <2>5. Chain(u, new, base, n, n, 1)
      BY <1>1, <2>3, <2>4 DEF Chain
    <2>6. Digits(new, base, n, n, 1)
      BY <1>1, <2>5 DEF Digits
    <2>7. room - 1 \in 0 .. BufSize
      BY <1>0
    <2>8. Room(base, n, room - 1)
      BY <1>1, <2>7, PowerPositive DEF Room
    <2>. QED
      BY <2>3, <2>6, <2>8 DEF new
  <1>2. ASSUME n # 0
        PROVE  Digits(buf, base, n, n, 0) /\ Room(base, n, room - 0)
    <2>. DEFINE u == [j \in 0 .. 0 |-> n]
    <2>1. Chain(u, buf, base, n, n, 0) /\ \A j \in 0 .. (0 - 1) : u[j] # 0
      BY DEF Chain
    <2>2. room - 0 = room /\ room \in 0 .. BufSize
      BY <1>0
    <2>. HIDE DEF u
    <2>. QED
      BY <1>2, <2>1, <2>2 DEF Digits, Room
  <1>. QED
    BY <1>1, <1>2

\* After the loop: the digits of n, no leading zeros.
LEMMA DigitsRight ==
    ASSUME NEW base \in {10, 16}, NEW buf \in Bytes, NEW n \in Nat, NEW k \in 0 .. BufSize,
           Digits(buf, base, n, 0, k)
    PROVE  LET d == Backwards(buf, k)
           IN /\ d \in Seq(Nat) /\ Len(d) = k /\ Value(d, base) = n
              /\ \A j \in 1 .. k : d[j] \in 0 .. (base - 1)
              /\ \A j \in 0 .. (k - 1) : buf[j] \in 0 .. (base - 1)
              /\ k >= 1 /\ (d[1] = 0 => n = 0 /\ k = 1) /\ (k = 1 <=> n < base)
  <1>. DEFINE d == Backwards(buf, k)
  <1>0. BufSize \in Nat /\ k \in Nat
    BY StringAssumption
  <1>1. PICK u : Chain(u, buf, base, n, 0, k) /\ (n # 0 => \A j \in 0 .. (k - 1) : u[j] # 0)
    BY DEF Digits
  <1>2. /\ d \in Seq(Nat) /\ Len(d) = k /\ Value(d, base) = n
        /\ \A j \in 1 .. k : d[j] \in 0 .. (base - 1)
    BY <1>1, ChainValue
  <1>3. \A j \in 0 .. (k - 1) : buf[j] \in 0 .. (base - 1) /\ u[j] = base * u[j + 1] + buf[j]
    BY <1>1 DEF Chain
  <1>4. u \in [0 .. k -> Nat] /\ u[0] = n /\ u[k] = 0
    BY <1>1 DEF Chain
  <1>5. n = 0 => k = 1
    BY DEF Digits
  <1>6. k >= 1
    <2>1. k = 0 => n = 0
      BY <1>4
    <2>. QED
      BY <1>0, <1>5, <2>1
  <1>7. d[1] = 0 => n = 0
    <2>1. k - 1 \in 0 .. (k - 1) /\ (k - 1) + 1 = k /\ 1 \in 1 .. k
      BY <1>0, <1>6
    <2>2. d[1] = buf[k - 1]
      BY <2>1 DEF Backwards
    <2>3. u[k - 1] = base * 0 + buf[k - 1]
      BY <1>3, <1>4, <2>1
    <2>4. d[1] = 0 => u[k - 1] = 0
      BY <2>2, <2>3
    <2>. QED
      BY <1>1, <2>1, <2>4
  <1>8. 0 \in 0 .. (k - 1) /\ n = base * u[1] + buf[0] /\ buf[0] \in 0 .. (base - 1)
    BY <1>0, <1>3, <1>4, <1>6
  <1>9. k = 1 => n < base
    BY <1>4, <1>8
  <1>10. ASSUME k # 1 PROVE n >= base
    <2>1. 1 \in 0 .. (k - 1) /\ 1 \in 0 .. k /\ n # 0
      BY <1>0, <1>5, <1>6, <1>10
    <2>2. u[1] # 0 /\ u[1] \in Nat
      BY <1>1, <1>4, <2>1
    <2>. QED
      BY <1>8, <2>2
  <1>11. k = 1 <=> n < base
    BY <1>9, <1>10
  <1>. QED
    BY <1>2, <1>3, <1>5, <1>6, <1>7, <1>11

\* The text of a number in decimal, without and with a sign.
DecimalOf(d, n) ==
    /\ \A j \in DOMAIN d : d[j] \in 0 .. 9
    /\ Value(d, 10) = n
    /\ Head(d) = 0 => d = << 0 >>

\* dec2str returns it.
LEMMA DecimalText ==
    ASSUME NEW buf \in Bytes, NEW n \in Nat, NEW k \in Nat, k + 2 <= BufSize,
           Digits(buf, 10, n, 0, k)
    PROVE  /\ Final(buf, k, << >>) \in Bytes /\ DecimalOf(Str(Final(buf, k, << >>)), n)
           /\ Final(buf, k, << Minus >>) \in Bytes
           /\ LET r == Str(Final(buf, k, << Minus >>)) IN Head(r) = Minus /\ DecimalOf(Tail(r), n)
  <1>. DEFINE d == Backwards(buf, k)
  <1>0. k \in 0 .. BufSize /\ BufSize \in Nat /\ NUL = 18 /\ Minus = 16
    BY StringAssumption DEF NUL, Minus
  <1>1. /\ d \in Seq(Nat) /\ Len(d) = k /\ Value(d, 10) = n
        /\ \A j \in 1 .. k : d[j] \in 0 .. (10 - 1)
        /\ \A j \in 0 .. (k - 1) : buf[j] \in 0 .. (10 - 1)
        /\ k >= 1 /\ (d[1] = 0 => n = 0 /\ k = 1)
    BY <1>0, DigitsRight
  <1>2. \A j \in 0 .. (k - 1) : buf[j] # NUL
    <2>1. \A b \in 0 .. (10 - 1) : b # NUL
      BY <1>0
    <2>. QED
      BY <1>1, <2>1
  <1>. HIDE DEF d
  <1>3. DecimalOf(d, n)
    <2>1. DOMAIN d = 1 .. k /\ Head(d) = d[1] /\ (k = 1 /\ d[1] = 0 => d = << 0 >>)
      BY <1>1
    <2>. QED
      BY <1>1, <2>1 DEF DecimalOf
  <1>4. Final(buf, k, << >>) \in Bytes /\ Str(Final(buf, k, << >>)) = d
    <2>. DEFINE s == << >>
    <2>1. s \in Seq(Nat) /\ k + Len(s) < BufSize /\ \A j \in 1 .. Len(s) : s[j] # NUL
      BY <1>0
    <2>. HIDE DEF s
    <2>2. Final(buf, k, s) \in Bytes /\ Str(Final(buf, k, s)) = Reverted(buf, k, s)
      BY <1>2, <2>1, StrFinal
    <2>. QED
      BY <1>0, <2>2, RevertedNone DEF d, s
  <1>5. /\ Final(buf, k, << Minus >>) \in Bytes
        /\ LET r == Str(Final(buf, k, << Minus >>)) IN Head(r) = Minus /\ Tail(r) = d
    <2>. DEFINE s == << Minus >>
                r == Str(Final(buf, k, s))
    <2>1. s \in Seq(Nat) /\ k + Len(s) < BufSize /\ Len(s) = 1 /\ s[1] = Minus
          /\ \A j \in 1 .. Len(s) : s[j] # NUL
      BY <1>0
    <2>. HIDE DEF s
    <2>2. Final(buf, k, s) \in Bytes /\ Str(Final(buf, k, s)) = Reverted(buf, k, s)
      BY <1>2, <2>1, StrFinal
    <2>3. /\ r \in Seq(Nat) /\ Len(r) = k + Len(s)
          /\ \A j \in 1 .. Len(s) : r[j] = s[Len(s) - j + 1]
          /\ \A j \in 1 .. k : r[j + Len(s)] = d[j]
      <3>. DEFINE q == Reverted(buf, k, s)
      <3>1. /\ q \in Seq(Nat) /\ Len(q) = k + Len(s)
            /\ \A j \in 1 .. Len(s) : q[j] = s[Len(s) - j + 1]
            /\ \A j \in 1 .. k : q[j + Len(s)] = Backwards(buf, k)[j]
        BY <1>0, <2>1, RevertedLast
      <3>2. r = q
        BY <2>2
      <3>. HIDE DEF q, r
      <3>. QED
        BY <3>1, <3>2 DEF d
    <2>. HIDE DEF r
    <2>4. Len(r) = k + 1 /\ r[1] = Minus /\ \A j \in 1 .. k : r[j + 1] = d[j]
      <3>1. 1 \in 1 .. Len(s) /\ Len(s) - 1 + 1 = 1
        BY <2>1
      <3>2. r[1] = s[1]
        BY <2>1, <2>3, <3>1
      <3>. QED
        BY <2>1, <2>3, <3>2
    <2>5. Head(r) = Minus /\ Tail(r) = d
      <3>1. r # << >> /\ Len(r) \in Nat
        BY <1>0, <2>3, <2>4
      <3>2. Head(r) = r[1] /\ Tail(r) \in Seq(Nat) /\ Len(Tail(r)) = k
        BY <2>3, <2>4, <3>1
      <3>3. \A j \in 1 .. k : Tail(r)[j] = r[j + 1]
        BY <2>3, <2>4, <3>1
      <3>4. \A j \in 1 .. k : Tail(r)[j] = d[j]
        BY <2>4, <3>3
      <3>5. Tail(r) = d
        BY <1>1, <3>2, <3>4
      <3>. QED
        BY <2>4, <3>2, <3>5
    <2>. QED
      BY <2>2, <2>5 DEF s, r
  <1>. QED
    BY <1>3, <1>4, <1>5

\* A 0 in front does not change a value.
LEMMA PaddedValue ==
    ASSUME NEW b \in Nat
    PROVE  Value(<< 0, b >>, 16) = Value(<< b >>, 16)
  <1>. DEFINE s == << 0, b >>
              t == << b >>
  <1>1. s \in Seq(Nat) /\ Len(s) = 2 /\ s[1] = 0 /\ s[2] = b
    OBVIOUS
  <1>2. t \in Seq(Nat) /\ Len(t) = 1 /\ t[1] = b
    OBVIOUS
  <1>. HIDE DEF s, t
  <1>3. PICK v \in [0 .. Len(s) -> Nat] :
            /\ Value(s, 16) = v[Len(s)] /\ v[0] = 0
            /\ \A k \in 1 .. Len(s) : v[k] = 16 * v[k - 1] + s[k]
    BY <1>1, ValueRec
  <1>4. PICK w \in [0 .. Len(t) -> Nat] :
            /\ Value(t, 16) = w[Len(t)] /\ w[0] = 0
            /\ \A k \in 1 .. Len(t) : w[k] = 16 * w[k - 1] + t[k]
    BY <1>2, ValueRec
  <1>5. v[1] = 16 * v[1 - 1] + 0 /\ v[2] = 16 * v[2 - 1] + b
    BY <1>1, <1>3
  <1>6. w[1] = 16 * w[1 - 1] + b
    BY <1>2, <1>4
  <1>7. Value(s, 16) = b
    BY <1>1, <1>3, <1>5
  <1>8. Value(t, 16) = b
    BY <1>2, <1>4, <1>6
  <1>. QED
    BY <1>7, <1>8 DEF s, t

\* The text of a number in hexadecimal, with 0x.
HexadecimalOf(s, n) ==
    LET digits == SubSeq(s, 3, Len(s))
    IN /\ s[1] = 0 /\ s[2] = X
       /\ \A j \in DOMAIN digits : digits[j] \in 0 .. 15
       /\ Value(digits, 16) = n
       /\ Len(digits) >= 2 /\ (digits[1] = 0 => Len(digits) = 2)

\* The text from its third character on.
LEMMA FromThird ==
    ASSUME NEW r \in Seq(Nat), NEW m \in Nat, Len(r) = m + 2
    PROVE  LET t == SubSeq(r, 3, Len(r))
           IN t \in Seq(Nat) /\ Len(t) = m /\ \A j \in 1 .. m : t[j] = r[j + 2]
  <1>. DEFINE n == Len(r)
              t == SubSeq(r, 3, n)
  <1>1. n \in Int /\ 3 \in Int /\ n = m + 2 /\ \A j \in 3 .. n : r[j] \in Nat
    OBVIOUS
  <1>. HIDE DEF n
  <1>2. /\ t \in Seq(Nat) /\ Len(t) = IF 3 <= n THEN n - 3 + 1 ELSE 0
        /\ \A j \in 1 .. (n - 3 + 1) : t[j] = r[3 + j - 1]
    BY <1>1, SubSeqProperties
  <1>. HIDE DEF t
  <1>3. Len(t) = m
    BY <1>1, <1>2
  <1>4. ASSUME NEW j \in 1 .. m PROVE t[j] = r[j + 2]
    <2>1. j \in 1 .. (n - 3 + 1) /\ 3 + j - 1 = j + 2
      BY <1>1
    <2>. QED
      BY <1>2, <2>1
  <1>. QED
    BY <1>2, <1>3, <1>4 DEF t, n

\* hex2str returns it.
LEMMA HexadecimalText ==
    ASSUME NEW buf \in Bytes, NEW n \in Nat, NEW k \in Nat, k + 3 <= BufSize,
           Digits(buf, 16, n, 0, k)
    PROVE  /\ n < 16 => /\ Final(buf, k, << 0, X, 0 >>) \in Bytes
                        /\ HexadecimalOf(Str(Final(buf, k, << 0, X, 0 >>)), n)
           /\ n >= 16 => /\ Final(buf, k, << X, 0 >>) \in Bytes
                         /\ HexadecimalOf(Str(Final(buf, k, << X, 0 >>)), n)
  <1>. DEFINE d == Backwards(buf, k)
  <1>0. k \in 0 .. BufSize /\ BufSize \in Nat /\ BufSize >= 5 /\ NUL = 18 /\ X = 17
    BY StringAssumption DEF NUL, X
  <1>1. /\ d \in Seq(Nat) /\ Len(d) = k /\ Value(d, 16) = n
        /\ \A j \in 1 .. k : d[j] \in 0 .. (16 - 1)
        /\ \A j \in 0 .. (k - 1) : buf[j] \in 0 .. (16 - 1)
        /\ k >= 1 /\ (d[1] = 0 => n = 0 /\ k = 1) /\ (k = 1 <=> n < 16)
    BY <1>0, DigitsRight
  <1>2. \A j \in 0 .. (k - 1) : buf[j] # NUL
    <2>1. \A b \in 0 .. (16 - 1) : b # NUL
      BY <1>0
    <2>. QED
      BY <1>1, <2>1
  <1>. HIDE DEF d
  <1>3. ASSUME NEW s \in Seq(Nat), k + Len(s) < BufSize, \A j \in 1 .. Len(s) : s[j] # NUL
        PROVE  LET r == Str(Final(buf, k, s))
               IN /\ Final(buf, k, s) \in Bytes /\ r \in Seq(Nat) /\ Len(r) = k + Len(s)
                  /\ \A j \in 1 .. Len(s) : r[j] = s[Len(s) - j + 1]
                  /\ \A j \in 1 .. k : r[j + Len(s)] = d[j]
    <2>. DEFINE q == Reverted(buf, k, s)
    <2>1. /\ q \in Seq(Nat) /\ Len(q) = k + Len(s)
          /\ \A j \in 1 .. Len(s) : q[j] = s[Len(s) - j + 1]
          /\ \A j \in 1 .. k : q[j + Len(s)] = Backwards(buf, k)[j]
      BY <1>0, RevertedLast
    <2>2. Final(buf, k, s) \in Bytes /\ Str(Final(buf, k, s)) = q
      BY <1>2, <1>3, StrFinal
    <2>. HIDE DEF q
    <2>. QED
      BY <2>1, <2>2 DEF d
  <1>4. ASSUME n < 16
        PROVE  /\ Final(buf, k, << 0, X, 0 >>) \in Bytes
               /\ HexadecimalOf(Str(Final(buf, k, << 0, X, 0 >>)), n)
    <2>. DEFINE s == << 0, X, 0 >>
                r == Str(Final(buf, k, s))
                t == SubSeq(r, 3, Len(r))
    <2>1. /\ s \in Seq(Nat) /\ k + Len(s) < BufSize /\ \A j \in 1 .. Len(s) : s[j] # NUL
          /\ Len(s) = 3 /\ s[1] = 0 /\ s[2] = X /\ s[3] = 0 /\ k = 1
      BY <1>0, <1>1, <1>4
    <2>. HIDE DEF s
    <2>2. /\ Final(buf, k, s) \in Bytes /\ r \in Seq(Nat) /\ Len(r) = k + Len(s)
          /\ \A j \in 1 .. Len(s) : r[j] = s[Len(s) - j + 1]
          /\ \A j \in 1 .. k : r[j + Len(s)] = d[j]
      BY <1>3, <2>1
    <2>. HIDE DEF r
    <2>3. /\ 1 \in 1 .. Len(s) /\ Len(s) - 1 + 1 = 3
          /\ 2 \in 1 .. Len(s) /\ Len(s) - 2 + 1 = 2
          /\ 3 \in 1 .. Len(s) /\ Len(s) - 3 + 1 = 1
          /\ 1 \in 1 .. k /\ 1 + Len(s) = 4 /\ 2 \in Nat /\ Len(r) = 2 + 2
      BY <2>1, <2>2
    <2>4. r[1] = 0 /\ r[2] = X /\ r[3] = 0 /\ r[4] = d[1]
      BY <2>1, <2>2, <2>3
    <2>5. t \in Seq(Nat) /\ Len(t) = 2 /\ \A j \in 1 .. 2 : t[j] = r[j + 2]
      BY <2>2, <2>3, FromThird
    <2>. HIDE DEF t
    <2>6. t[1] = 0 /\ t[2] = d[1] /\ d[1] \in 0 .. 15 /\ DOMAIN t = {1, 2}
      BY <1>1, <2>3, <2>4, <2>5
    <2>7. t = << 0, d[1] >> /\ d = << d[1] >>
      BY <1>1, <2>1, <2>5, <2>6
    <2>8. Value(t, 16) = n
      <3>. DEFINE b == d[1]
      <3>1. b \in Nat /\ t = << 0, b >> /\ d = << b >>
        BY <2>6, <2>7
      <3>. HIDE DEF b
      <3>. QED
        BY <1>1, <3>1, PaddedValue
    <2>9. HexadecimalOf(r, n)
      <3>1. \A j \in DOMAIN t : t[j] \in 0 .. 15
        BY <2>6
      <3>. QED
        BY <2>4, <2>5, <2>8, <3>1 DEF HexadecimalOf, t
    <2>. QED
      BY <2>2, <2>9 DEF r, s
  <1>5. ASSUME n >= 16
        PROVE  /\ Final(buf, k, << X, 0 >>) \in Bytes
               /\ HexadecimalOf(Str(Final(buf, k, << X, 0 >>)), n)
    <2>. DEFINE s == << X, 0 >>
                r == Str(Final(buf, k, s))
                t == SubSeq(r, 3, Len(r))
    <2>1. /\ s \in Seq(Nat) /\ k + Len(s) < BufSize /\ \A j \in 1 .. Len(s) : s[j] # NUL
          /\ Len(s) = 2 /\ s[1] = X /\ s[2] = 0
      BY <1>0
    <2>. HIDE DEF s
    <2>2. /\ Final(buf, k, s) \in Bytes /\ r \in Seq(Nat) /\ Len(r) = k + Len(s)
          /\ \A j \in 1 .. Len(s) : r[j] = s[Len(s) - j + 1]
          /\ \A j \in 1 .. k : r[j + Len(s)] = d[j]
      BY <1>3, <2>1
    <2>. HIDE DEF r
    <2>3. /\ 1 \in 1 .. Len(s) /\ Len(s) - 1 + 1 = 2
          /\ 2 \in 1 .. Len(s) /\ Len(s) - 2 + 1 = 1 /\ Len(r) = k + 2
      BY <2>1, <2>2
    <2>4. r[1] = 0 /\ r[2] = X
      BY <2>1, <2>2, <2>3
    <2>5. t \in Seq(Nat) /\ Len(t) = k /\ \A j \in 1 .. k : t[j] = r[j + 2]
      BY <2>2, <2>3, FromThird
    <2>. HIDE DEF t
    <2>6. t = d
      BY <1>1, <2>1, <2>2, <2>5
    <2>7. k >= 2 /\ t[1] # 0 /\ DOMAIN t = 1 .. k
      BY <1>1, <1>5, <2>5, <2>6
    <2>8. HexadecimalOf(r, n)
      <3>1. \A j \in DOMAIN t : t[j] \in 0 .. 15
        BY <1>1, <2>6, <2>7
      <3>. QED
        BY <1>1, <2>4, <2>5, <2>6, <2>7, <3>1 DEF HexadecimalOf, t
    <2>. QED
      BY <2>2, <2>8 DEF r, s
  <1>. QED
    BY <1>4, <1>5

-----------------------------------------------------------------------------
(***************************************************************************)
(* The inductive invariant                                                 *)
(***************************************************************************)
\* The loop has taken i digits of n, and number is left.
Taking(buf, base, n, room) ==
    /\ i \in Nat /\ i <= room /\ number \in Nat
    /\ Digits(buf, base, n, number, i)
    /\ Room(base, number, room - i)

Decimal ==
    /\ arg \in -Half .. (Half - 1)
    /\ negative = (arg < 0)
    /\ arg = -Half => number = -Half /\ i = 0
    /\ arg # -Half => Taking(dec_string, 10, IF arg < 0 THEN -arg ELSE arg, BufSize - 2)

Hexadecimal ==
    /\ arg \in 0 .. (2 * Half - 1)
    /\ pad = (arg < 16)
    /\ Taking(hex_string, 16, arg, BufSize - 3)

StringInv ==
    /\ dec_string \in Bytes /\ hex_string \in Bytes
    /\ pc = "decDigits" => Decimal
    /\ pc = "hexDigits" => Hexadecimal
    /\ ConversionsRight

\* The initial states satisfy the invariant.
LEMMA InitString == Init => StringInv
  BY StringAssumption DEF Init, StringInv, Bytes, ConversionsRight

\* Each action keeps the invariant; the calls start a loop,
LEMMA CallDecStep ==
    ASSUME StringInv, CallDec
    PROVE  StringInv'
  <1>. PICK n \in Numbers :
          /\ arg' = n
          /\ number' = IF n < 0 THEN Int32(-n) ELSE n
          /\ negative' = (n < 0)
          /\ i' = IF n = 0 THEN 1 ELSE 0
          /\ dec_string' = IF n = 0 THEN Write(dec_string, 0, << 0 >>) ELSE dec_string
    BY DEF CallDec
  <1>. DEFINE m == IF n < 0 THEN -n ELSE n
  <1>0. /\ Half \in Nat \ {0} /\ BufSize \in Nat /\ BufSize >= 5 /\ n \in -Half .. (Half - 1)
        /\ Half <= Powers(10)[BufSize - 2]
    BY StringAssumption
  <1>1. pc' = "decDigits" /\ hex_string' = hex_string /\ dec_string \in Bytes /\ hex_string \in Bytes
    BY DEF CallDec, StringInv
  <1>2. negative' = (arg' < 0)
    OBVIOUS
  <1>3. CASE n = -Half
    <2>1. n < 0 /\ n # 0 /\ -n = Half
      BY <1>0, <1>3
    <2>2. (Half + Half) % (2 * Half) = 0
      BY <1>0
    <2>3. number' = -Half /\ i' = 0 /\ dec_string' = dec_string
      BY <1>0, <2>1, <2>2 DEF Int32
    <2>4. Decimal'
      BY <1>0, <1>2, <1>3, <2>3 DEF Decimal
    <2>. QED
      BY <1>1, <2>3, <2>4 DEF StringInv, ConversionsRight
  <1>4. CASE n # -Half
    <2>1. /\ m \in Nat /\ m < Half /\ m < Powers(10)[BufSize - 2] /\ (m = 0 <=> n = 0)
          /\ BufSize - 2 \in 1 .. (BufSize - 1)
      <3>1. m \in Nat /\ m < Half /\ (m = 0 <=> n = 0) /\ BufSize - 2 \in 1 .. (BufSize - 1)
        BY <1>0, <1>4
      <3>2. BufSize - 2 \in 0 .. BufSize
        BY <1>0
      <3>3. Powers(10)[BufSize - 2] \in Nat
        BY <3>2, PowerPositive
      <3>. HIDE DEF m
      <3>. QED
        BY <1>0, <3>1, <3>3
    <2>2. number' = m
      <3>1. CASE n < 0
        <4>1. -n + Half \in 0 .. (2 * Half - 1)
          BY <1>0, <1>4, <3>1
        <4>2. (-n + Half) % (2 * Half) = -n + Half
          BY <1>0, <4>1
        <4>. QED
          BY <1>0, <3>1, <4>2 DEF Int32
      <3>2. CASE ~ (n < 0)
        BY <3>2
      <3>. QED
        BY <3>1, <3>2
    <2>. HIDE DEF m
    <2>3. /\ m = 0 => /\ Write(dec_string, 0, << 0 >>) \in Bytes
                      /\ Digits(Write(dec_string, 0, << 0 >>), 10, m, m, 1)
                      /\ Room(10, m, BufSize - 2 - 1)
          /\ m # 0 => Digits(dec_string, 10, m, m, 0) /\ Room(10, m, BufSize - 2 - 0)
      BY <1>1, <2>1, StartDigits
    <2>4. Taking(dec_string, 10, m, BufSize - 2)' /\ dec_string' \in Bytes
      <3>1. CASE n = 0
        BY <1>0, <2>1, <2>2, <2>3, <3>1 DEF Taking
      <3>2. CASE n # 0
        BY <1>0, <1>1, <2>1, <2>2, <2>3, <3>2 DEF Taking
      <3>. QED
        BY <3>1, <3>2
    <2>5. Decimal'
      BY <1>0, <1>2, <1>4, <2>4 DEF Decimal, m
    <2>. QED
      BY <1>1, <2>4, <2>5 DEF StringInv, ConversionsRight
  <1>. QED
    BY <1>3, <1>4

\* the loops take a digit more,
LEMMA DecDigitStep ==
    ASSUME StringInv, DecDigit
    PROVE  StringInv'
  <1>. DEFINE n == IF arg < 0 THEN -arg ELSE arg
  <1>0. Half \in Nat \ {0} /\ BufSize \in Nat /\ BufSize >= 5
    BY StringAssumption
  <1>1. /\ pc = "decDigits" /\ number > 0 /\ pc' = pc /\ UNCHANGED << arg, negative, hex_string >>
        /\ dec_string' = Write(dec_string, i, << number % 10 >>)
        /\ number' = number \div 10 /\ i' = i + 1
    BY DEF DecDigit
  <1>2. Decimal /\ dec_string \in Bytes /\ hex_string \in Bytes
    BY <1>1 DEF StringInv
  <1>3. arg # -Half /\ arg \in -Half .. (Half - 1) /\ negative = (arg < 0)
    <2>1. arg = -Half => number = -Half
      BY <1>2 DEF Decimal
    <2>2. arg # -Half
      BY <1>0, <1>1, <2>1
    <2>. QED
      BY <1>2, <2>2 DEF Decimal
  <1>4. Taking(dec_string, 10, n, BufSize - 2) /\ n \in Nat
    BY <1>0, <1>2, <1>3 DEF Decimal
  <1>. HIDE DEF n
  <1>5. Taking(dec_string, 10, n, BufSize - 2)' /\ dec_string' \in Bytes
    <2>1. /\ number \in Nat \ {0} /\ i \in Nat /\ i <= BufSize - 2
          /\ BufSize - 2 \in 0 .. (BufSize - 1)
          /\ Digits(dec_string, 10, n, number, i) /\ Room(10, number, BufSize - 2 - i)
      BY <1>0, <1>1, <1>4 DEF Taking
    <2>. DEFINE room == BufSize - 2
    <2>. HIDE DEF room
    <2>2. /\ room \in 0 .. (BufSize - 1) /\ i <= room /\ Room(10, number, room - i)
      BY <2>1 DEF room
    <2>3. /\ i + 1 <= room /\ number \div 10 \in Nat
          /\ Write(dec_string, i, << number % 10 >>) \in Bytes
          /\ Digits(Write(dec_string, i, << number % 10 >>), 10, n, number \div 10, i + 1)
          /\ Room(10, number \div 10, room - (i + 1))
      BY <1>2, <1>4, <2>1, <2>2, TakeDigit
    <2>4. i' \in Nat /\ n' = n
      BY <1>1, <2>1 DEF n
    <2>. QED
      BY <1>1, <2>3, <2>4 DEF Taking, room
  <1>6. Decimal'
    BY <1>1, <1>3, <1>5 DEF Decimal, n
  <1>. QED
    BY <1>1, <1>2, <1>5, <1>6 DEF StringInv, ConversionsRight

\* and the returns leave the text in the buffer.
LEMMA DecReturnStep ==
    ASSUME StringInv, DecReturn
    PROVE  StringInv'
  <1>0. Half \in Nat \ {0} /\ BufSize \in Nat /\ BufSize >= 5 /\ NUL = 18 /\ Minus = 16
    BY StringAssumption DEF NUL, Minus
  <1>1. pc = "decDigits" /\ number <= 0 /\ pc' = "dec" /\ UNCHANGED << arg, hex_string >>
    BY DEF DecReturn, locals
  <1>2. Decimal /\ dec_string \in Bytes /\ hex_string \in Bytes
    BY <1>1 DEF StringInv
  <1>. SUFFICES dec_string' \in Bytes /\ DecimalRight'
    BY <1>1, <1>2 DEF StringInv, ConversionsRight
  <1>. DEFINE m == IF arg < 0 THEN -arg ELSE arg
  <1>3. /\ arg < 0 => dec_string' = Final(dec_string, i, << Minus >>)
        /\ ~ (arg < 0) => dec_string' = Final(dec_string, i, << >>)
    <2>1. negative = (arg < 0)
      BY <1>2 DEF Decimal
    <2>. QED
      BY <2>1 DEF DecReturn, Final
  <1>4. CASE arg = -Half
    <2>1. arg < 0 /\ i = 0
      BY <1>0, <1>2, <1>4 DEF Decimal
    <2>. DEFINE s == << Minus >>
    <2>2. /\ s \in Seq(Nat) /\ 0 + Len(s) < BufSize /\ \A j \in 1 .. Len(s) : s[j] # NUL
          /\ 0 \in Nat /\ \A j \in 0 .. (0 - 1) : dec_string[j] # NUL
      BY <1>0
    <2>3. Reverted(dec_string, 0, s) = << Minus >>
      BY <1>0 DEF Reverted
    <2>. HIDE DEF s
    <2>4. /\ Final(dec_string, 0, s) \in Bytes
          /\ Str(Final(dec_string, 0, s)) = Reverted(dec_string, 0, s)
      BY <1>2, <2>2, StrFinal
    <2>5. dec_string' = Final(dec_string, 0, s)
      BY <1>3, <2>1 DEF s
    <2>6. dec_string' \in Bytes /\ Str(dec_string') = << Minus >>
      BY <2>3, <2>4, <2>5
    <2>. QED
      BY <1>1, <1>4, <2>6 DEF DecimalRight
  <1>5. CASE arg # -Half
    <2>1. m \in Nat /\ i \in Nat /\ i + 2 <= BufSize /\ Digits(dec_string, 10, m, 0, i)
      <3>1. m \in Nat /\ Taking(dec_string, 10, m, BufSize - 2)
        BY <1>0, <1>2, <1>5 DEF Decimal
      <3>. HIDE DEF m
      <3>2. number = 0
        BY <1>1, <3>1 DEF Taking
      <3>. QED
        BY <1>0, <3>1, <3>2 DEF Taking
    <2>. HIDE DEF m
    <2>2. /\ Final(dec_string, i, << >>) \in Bytes /\ DecimalOf(Str(Final(dec_string, i, << >>)), m)
          /\ Final(dec_string, i, << Minus >>) \in Bytes
          /\ Head(Str(Final(dec_string, i, << Minus >>))) = Minus
          /\ DecimalOf(Tail(Str(Final(dec_string, i, << Minus >>))), m)
      BY <1>2, <2>1, DecimalText
    <2>3. CASE arg < 0
      <3>1. m = -arg /\ dec_string' = Final(dec_string, i, << Minus >>)
        BY <1>3, <2>3 DEF m
      <3>. QED
        BY <1>1, <1>5, <2>2, <2>3, <3>1 DEF DecimalRight, DecimalOf
    <2>4. CASE ~ (arg < 0)
      <3>1. m = arg /\ dec_string' = Final(dec_string, i, << >>)
        BY <1>3, <2>4 DEF m
      <3>. QED
        BY <1>1, <1>5, <2>2, <2>4, <3>1 DEF DecimalRight, DecimalOf
    <2>. QED
      BY <2>3, <2>4
  <1>. QED
    BY <1>4, <1>5

\* The same for hex2str.
LEMMA CallHexStep ==
    ASSUME StringInv, CallHex
    PROVE  StringInv'
  <1>. PICK n \in Words :
          /\ arg' = n /\ number' = n
          /\ pad' = (n < 16)
          /\ i' = IF n = 0 THEN 1 ELSE 0
          /\ hex_string' = IF n = 0 THEN Write(hex_string, 0, << 0 >>) ELSE hex_string
    BY DEF CallHex
  <1>0. /\ Half \in Nat \ {0} /\ BufSize \in Nat /\ BufSize >= 5 /\ n \in 0 .. (2 * Half - 1)
        /\ 2 * Half <= Powers(16)[BufSize - 3] /\ n \in Nat
    BY StringAssumption
  <1>1. pc' = "hexDigits" /\ dec_string' = dec_string /\ dec_string \in Bytes /\ hex_string \in Bytes
    BY DEF CallHex, StringInv
  <1>2. pad' = (arg' < 16)
    OBVIOUS
  <1>3. n < Powers(16)[BufSize - 3] /\ BufSize - 3 \in 1 .. (BufSize - 1)
    <2>1. BufSize - 3 \in 0 .. BufSize /\ BufSize - 3 \in 1 .. (BufSize - 1)
      BY <1>0
    <2>2. Powers(16)[BufSize - 3] \in Nat
      BY <2>1, PowerPositive
    <2>. QED
      BY <1>0, <2>1, <2>2
  <1>4. /\ n = 0 => /\ Write(hex_string, 0, << 0 >>) \in Bytes
                    /\ Digits(Write(hex_string, 0, << 0 >>), 16, n, n, 1)
                    /\ Room(16, n, BufSize - 3 - 1)
        /\ n # 0 => Digits(hex_string, 16, n, n, 0) /\ Room(16, n, BufSize - 3 - 0)
    BY <1>0, <1>1, <1>3, StartDigits
  <1>5. Taking(hex_string, 16, arg, BufSize - 3)' /\ hex_string' \in Bytes
    <2>1. CASE n = 0
      BY <1>0, <1>3, <1>4, <2>1 DEF Taking
    <2>2. CASE n # 0
      BY <1>0, <1>1, <1>3, <1>4, <2>2 DEF Taking
    <2>. QED
      BY <2>1, <2>2
  <1>6. Hexadecimal'
    BY <1>0, <1>2, <1>5 DEF Hexadecimal
  <1>. QED
    BY <1>1, <1>5, <1>6 DEF StringInv, ConversionsRight

\* A digit more.
LEMMA HexDigitStep ==
    ASSUME StringInv, HexDigit
    PROVE  StringInv'
  <1>0. Half \in Nat \ {0} /\ BufSize \in Nat /\ BufSize >= 5
    BY StringAssumption
  <1>1. /\ pc = "hexDigits" /\ number > 0 /\ pc' = pc /\ UNCHANGED << arg, pad, dec_string >>
        /\ hex_string' = Write(hex_string, i, << number % 16 >>)
        /\ number' = number \div 16 /\ i' = i + 1
    BY DEF HexDigit
  <1>2. Hexadecimal /\ dec_string \in Bytes /\ hex_string \in Bytes
    BY <1>1 DEF StringInv
  <1>3. arg \in 0 .. (2 * Half - 1) /\ arg \in Nat /\ Taking(hex_string, 16, arg, BufSize - 3)
    BY <1>0, <1>2 DEF Hexadecimal
  <1>4. pad = (arg < 16)
    BY <1>2 DEF Hexadecimal
  <1>. DEFINE room == BufSize - 3
  <1>5. /\ number \in Nat \ {0} /\ i \in Nat /\ i <= room /\ room \in 0 .. (BufSize - 1)
        /\ Digits(hex_string, 16, arg, number, i) /\ Room(16, number, room - i)
    BY <1>0, <1>1, <1>3 DEF Taking
  <1>. HIDE DEF room
  <1>6. /\ i + 1 <= room /\ number \div 16 \in Nat
        /\ Write(hex_string, i, << number % 16 >>) \in Bytes
        /\ Digits(Write(hex_string, i, << number % 16 >>), 16, arg, number \div 16, i + 1)
        /\ Room(16, number \div 16, room - (i + 1))
    BY <1>2, <1>3, <1>5, TakeDigit
  <1>7. Taking(hex_string, 16, arg, BufSize - 3)' /\ hex_string' \in Bytes
    <2>1. i' \in Nat
      BY <1>1, <1>5
    <2>. QED
      BY <1>1, <1>6, <2>1 DEF Taking, room
  <1>8. Hexadecimal'
    BY <1>1, <1>3, <1>4, <1>7 DEF Hexadecimal
  <1>. QED
    BY <1>1, <1>2, <1>7, <1>8 DEF StringInv, ConversionsRight

\* The text.
LEMMA HexReturnStep ==
    ASSUME StringInv, HexReturn
    PROVE  StringInv'
  <1>0. Half \in Nat \ {0} /\ BufSize \in Nat /\ BufSize >= 5
    BY StringAssumption
  <1>1. pc = "hexDigits" /\ number = 0 /\ pc' = "hex" /\ UNCHANGED << arg, dec_string >>
    BY DEF HexReturn, locals
  <1>2. Hexadecimal /\ dec_string \in Bytes /\ hex_string \in Bytes
    BY <1>1 DEF StringInv
  <1>3. arg \in Nat /\ i \in Nat /\ i + 3 <= BufSize /\ Digits(hex_string, 16, arg, 0, i)
    BY <1>0, <1>1, <1>2 DEF Hexadecimal, Taking
  <1>4. /\ arg < 16 => hex_string' = Final(hex_string, i, << 0, X, 0 >>)
        /\ ~ (arg < 16) => hex_string' = Final(hex_string, i, << X, 0 >>)
    <2>1. pad = (arg < 16)
      BY <1>2 DEF Hexadecimal
    <2>. QED
      BY <2>1 DEF HexReturn, Final
  <1>5. hex_string' \in Bytes /\ HexadecimalOf(Str(hex_string'), arg)
    <2>1. /\ arg < 16 => /\ Final(hex_string, i, << 0, X, 0 >>) \in Bytes
                         /\ HexadecimalOf(Str(Final(hex_string, i, << 0, X, 0 >>)), arg)
          /\ arg >= 16 => /\ Final(hex_string, i, << X, 0 >>) \in Bytes
                          /\ HexadecimalOf(Str(Final(hex_string, i, << X, 0 >>)), arg)
      BY <1>2, <1>3, HexadecimalText
    <2>2. ~ (arg < 16) => arg >= 16
      BY <1>3
    <2>. QED
      BY <1>4, <2>1, <2>2
  <1>6. HexRight'
    BY <1>1, <1>5 DEF HexRight, HexadecimalOf
  <1>. QED
    BY <1>1, <1>2, <1>5, <1>6 DEF StringInv, ConversionsRight

-----------------------------------------------------------------------------
(***************************************************************************)
(* The theorems                                                            *)
(***************************************************************************)
THEOREM StringInvariant == Spec => []StringInv
  <1>1. StringInv /\ UNCHANGED vars => StringInv'
    BY DEF vars, locals, StringInv, Decimal, Hexadecimal, Taking, ConversionsRight, DecimalRight,
       HexRight
  <1>2. StringInv /\ [Next]_vars => StringInv'
    BY <1>1, CallDecStep, DecDigitStep, DecReturnStep, CallHexStep, HexDigitStep, HexReturnStep
    DEF Next
  <1>. QED
    BY <1>2, InitString, PTL DEF Spec

\* dec2str and hex2str return the right text for every int but the smallest and
\* every word, whatever earlier calls left in their buffers (string.c:17-95).
THEOREM Converts == Spec => []ConversionsRight
  <1>1. StringInv => ConversionsRight
    BY DEF StringInv
  <1>. QED
    BY <1>1, StringInvariant, PTL

\* The bytes that the next step writes are in the buffer.
InBuffer ==
    /\ pc = "decDigits" => i + (IF number > 0 THEN 1 ELSE IF negative THEN 2 ELSE 1) <= BufSize
    /\ pc = "hexDigits" => i + (IF number > 0 THEN 1 ELSE IF pad THEN 4 ELSE 3) <= BufSize

\* The static buffers of string.c:18 and :54 are never written beyond their ends.
THEOREM StaysInBuffers == Spec => []InBuffer
  <1>1. StringInv => InBuffer
    <2>. SUFFICES ASSUME StringInv PROVE InBuffer
      OBVIOUS
    <2>0. BufSize \in Nat /\ BufSize >= 5 /\ Half \in Nat \ {0}
      BY StringAssumption
    <2>1. ASSUME pc = "decDigits" PROVE i \in Nat /\ i + 2 <= BufSize
      BY <2>0, <2>1 DEF StringInv, Decimal, Taking
    <2>2. ASSUME pc = "hexDigits" PROVE i \in Nat /\ i + 3 <= BufSize
      BY <2>0, <2>2 DEF StringInv, Hexadecimal, Taking
    <2>3. ASSUME pc = "hexDigits", ~ (number > 0), pad PROVE i = 1
      <3>1. number = 0 /\ Digits(hex_string, 16, arg, number, i) /\ hex_string \in Bytes /\ arg \in Nat
        BY <2>0, <2>3 DEF StringInv, Hexadecimal, Taking
      <3>2. i \in 0 .. BufSize
        BY <2>0, <2>2, <2>3
      <3>3. i = 1 <=> arg < 16
        BY <3>1, <3>2, DigitsRight
      <3>4. pad = (arg < 16)
        BY <2>3 DEF StringInv, Hexadecimal
      <3>. QED
        BY <2>3, <3>3, <3>4
    <2>4. pc = "decDigits" => i + (IF number > 0 THEN 1 ELSE IF negative THEN 2 ELSE 1) <= BufSize
      <3>1. pc = "decDigits" => i + 1 <= BufSize /\ i + 2 <= BufSize
        BY <2>0, <2>1
      <3>. QED
        BY <3>1
    <2>5. pc = "hexDigits" => i + (IF number > 0 THEN 1 ELSE IF pad THEN 4 ELSE 3) <= BufSize
      <3>1. pc = "hexDigits" => i + 1 <= BufSize /\ i + 3 <= BufSize
        BY <2>0, <2>2
      <3>2. 1 + 4 <= BufSize
        BY <2>0
      <3>3. pc = "hexDigits" /\ ~ (number > 0) /\ pad => i + 4 <= BufSize
        BY <2>3, <3>2
      <3>. QED
        BY <3>1, <3>3
    <2>. QED
      BY <2>4, <2>5 DEF InBuffer
  <1>. QED
    BY <1>1, StringInvariant, PTL
=============================================================================
