---------------------------- MODULE SpiPortProofs ----------------------------
(***************************************************************************)
(* What TLAPS proves of the accesses behind the flash calls, for every     *)
(* width of a byte, every chip, every kind of access and any number of     *)
(* calls, crashes and faults.                                              *)
(***************************************************************************)
EXTENDS SpiPort, SequenceTheorems, WellFoundedInduction, TLAPS

-----------------------------------------------------------------------------
(* Powers of two *)

\* Induction, over a set of numbers in the place of a predicate.
LEMMA Induction ==
  ASSUME NEW S \in SUBSET Nat, 0 \in S, \A n \in S : n + 1 \in S
  PROVE  S = Nat
<1>1. SUFFICES ASSUME Nat \ S # {} PROVE FALSE
  OBVIOUS
<1> DEFINE T == Nat \ S
<1>2. PICK n \in T : \A m \in T : ~ (<<m, n>> \in OpToRel(<, Nat))
  <2>1. T \subseteq Nat /\ T # {}
    BY <1>1
  <2> HIDE DEF T
  <2> QED BY <2>1, NatLessThanWellFounded, WFMin
<1>3. \A m \in T : ~ (m < n)
  <2>1. T \subseteq Nat
    OBVIOUS
  <2> HIDE DEF T
  <2> QED BY <1>2, <2>1, Zenon DEF OpToRel
<1>4. n \in Nat /\ n \notin S
  BY <1>2, Zenon
<1>5. n # 0 /\ n - 1 \in Nat /\ n - 1 < n /\ (n - 1) + 1 = n
  BY <1>4
<1>6. n - 1 \in S
  BY <1>3, <1>5
<1> QED BY <1>4, <1>5, <1>6

\* The recursive definition defines the powers of two.
LEMMA PowersOfTwo ==
  /\ TwoTo[0] = 1
  /\ \A n \in Nat : TwoTo[n] \in Nat \ {0} /\ TwoTo[n + 1] = 2 * TwoTo[n]
<1> DEFINE Start(g, n) == g \in [0 .. n -> Nat \ {0}] /\ g[0] = 1
                            /\ \A i \in 1 .. n : g[i] = 2 * g[i - 1]
           S == {n \in Nat : \E g : Start(g, n)}
<1>1. S = Nat
  <2>1. S \in SUBSET Nat
    OBVIOUS
  <2>2. 0 \in S
    <3>1. Start([i \in 0 .. 0 |-> 1], 0)
      OBVIOUS
    <3> QED BY <3>1
  <2>3. ASSUME NEW n \in S PROVE n + 1 \in S
    <3>1. PICK g : Start(g, n)
      OBVIOUS
    <3> DEFINE h == [i \in 0 .. n + 1 |-> IF i = n + 1 THEN 2 * g[n] ELSE g[i]]
    <3>2. n \in Nat /\ g[n] \in Nat \ {0}
      BY <3>1
    <3>3. ASSUME NEW i \in 0 .. n + 1 PROVE h[i] \in Nat \ {0}
      BY <3>1, <3>2
    <3>4. ASSUME NEW i \in 1 .. n + 1 PROVE h[i] = 2 * h[i - 1]
      <4>1. CASE i = n + 1
        BY <3>2, <4>1
      <4>2. CASE i # n + 1
        <5>1. i \in 1 .. n /\ i - 1 \in 0 .. n
          BY <3>2, <4>2
        <5> QED BY <3>1, <3>2, <4>2, <5>1
      <4> QED BY <4>1, <4>2
    <3>5. h[0] = 1
      BY <3>1, <3>2
    <3>6. Start(h, n + 1)
      BY <3>2, <3>3, <3>4, <3>5
    <3> HIDE DEF h
    <3>7. \E k : Start(k, n + 1)
      BY <3>6
    <3> HIDE DEF Start
    <3> QED BY <3>2, <3>7
  <2> HIDE DEF S
  <2> QED BY <2>1, <2>2, <2>3, Induction
<1> DEFINE G == [n \in Nat |-> CHOOSE g : Start(g, n)]
           h == [n \in Nat |-> G[n][n]]
<1>2. ASSUME NEW n \in Nat PROVE Start(G[n], n)
  BY <1>1
<1> HIDE DEF G
<1>3. ASSUME NEW n \in Nat PROVE G[n + 1][n] = G[n][n]
  <2> DEFINE T == {i \in Nat : i <= n => G[n + 1][i] = G[n][i]}
  <2>1. Start(G[n + 1], n + 1) /\ Start(G[n], n)
    BY <1>2
  <2>2. 0 \in T
    BY <2>1
  <2>3. ASSUME NEW i \in T PROVE i + 1 \in T
    <3>1. SUFFICES ASSUME i + 1 <= n PROVE G[n + 1][i + 1] = G[n][i + 1]
      OBVIOUS
    <3>2. i + 1 \in 1 .. n /\ i + 1 \in 1 .. n + 1 /\ (i + 1) - 1 = i
      BY <3>1
    <3>3. G[n + 1][i + 1] = 2 * G[n + 1][i] /\ G[n][i + 1] = 2 * G[n][i]
      BY <2>1, <3>2
    <3> QED BY <3>1, <3>3
  <2>4. T \in SUBSET Nat
    OBVIOUS
  <2>5. T = Nat
    <3> HIDE DEF T
    <3> QED BY <2>2, <2>3, <2>4, Induction
  <2> QED BY <2>5
<1>4. h[0] = 1
  BY <1>2
<1>5. ASSUME NEW n \in Nat PROVE h[n] \in Nat \ {0} /\ h[n + 1] = 2 * h[n]
  <2>1. Start(G[n + 1], n + 1) /\ Start(G[n], n)
    BY <1>2
  <2>2. n + 1 \in 1 .. n + 1 /\ (n + 1) - 1 = n
    OBVIOUS
  <2>3. G[n + 1][n + 1] = 2 * G[n + 1][n]
    BY <2>1, <2>2
  <2>4. G[n][n] \in Nat \ {0}
    BY <2>1
  <2> HIDE DEF Start
  <2> QED BY <1>3, <2>3, <2>4
<1> HIDE DEF h
<1>6. h = [n \in Nat |-> IF n = 0 THEN 1 ELSE 2 * h[n - 1]]
  <2>1. ASSUME NEW n \in Nat PROVE h[n] = IF n = 0 THEN 1 ELSE 2 * h[n - 1]
    <3>1. CASE n = 0
      BY <1>4, <3>1
    <3>2. CASE n # 0
      <4>1. n - 1 \in Nat /\ (n - 1) + 1 = n
        BY <3>2
      <4> QED BY <1>5, <3>2, <4>1
    <3> QED BY <3>1, <3>2
  <2>2. h = [n \in Nat |-> h[n]]
    BY DEF h
  <2> QED BY <2>1, <2>2
<1>7. TwoTo = [n \in Nat |-> IF n = 0 THEN 1 ELSE 2 * TwoTo[n - 1]]
  BY <1>6, Zenon DEF TwoTo
<1>8. TwoTo[0] = 1 /\ \A n \in Nat : TwoTo[n + 1] = 2 * TwoTo[n]
  BY <1>7
<1>9. \A n \in Nat : TwoTo[n] \in Nat \ {0}
  <2> DEFINE T == {n \in Nat : TwoTo[n] \in Nat \ {0}}
  <2>1. 0 \in T /\ \A n \in T : n + 1 \in T
    BY <1>8
  <2>2. T \in SUBSET Nat
    OBVIOUS
  <2>3. T = Nat
    <3> HIDE DEF T
    <3> QED BY <2>1, <2>2, Induction
  <2> QED BY <2>3
<1> QED BY <1>8, <1>9


\* What is divided is a multiple of the divisor and a remainder.
LEMMA QuotientOf ==
  ASSUME NEW p \in Nat \ {0}, NEW q \in Int, NEW r \in 0 .. p - 1
  PROVE  (p * q + r) \div p = q
<1> DEFINE x == p * q + r   d == x \div p   e == x % p
<1>1. p * q \in Int /\ x \in Int
  OBVIOUS
<1>2. x = p * d + e /\ e \in 0 .. p - 1 /\ d \in Int
  <2> HIDE DEF x
  <2> QED BY <1>1
<1>3. p * (q - d) = e - r
  BY <1>1, <1>2
<1> HIDE DEF d, e, x
<1>4. CASE q - d >= 1
  <2>1. p * (q - d) >= p
    BY <1>2, <1>4
  <2> QED BY <1>2, <1>3, <2>1
<1>5. CASE q - d <= -1
  <2>1. p * (q - d) <= -p
    BY <1>2, <1>5
  <2> QED BY <1>2, <1>3, <2>1
<1>6. CASE q = d
  BY <1>6 DEF d, x
<1> QED BY <1>2, <1>4, <1>5, <1>6

\* One more bit at the low end: the rest, and the bit.
LEMMA DoubleAndBit ==
  ASSUME NEW m \in Nat \ {0}, NEW z \in Nat, NEW b \in 0 .. 1
  PROVE  (2 * z + b) \div (2 * m) = z \div m
<1> DEFINE q == z \div m   r == z % m
<1>1. z = m * q + r /\ r \in 0 .. m - 1 /\ q \in Nat
  OBVIOUS
<1> HIDE DEF q, r
<1>2. 2 * z + b = (2 * m) * q + (2 * r + b)
  BY <1>1
<1>3. 2 * r + b \in 0 .. 2 * m - 1 /\ 2 * m \in Nat \ {0}
  BY <1>1
<1>4. ((2 * m) * q + (2 * r + b)) \div (2 * m) = q
  BY <1>1, <1>3, QuotientOf
<1> QED BY <1>2, <1>4 DEF q

\* A quotient is twice the next, and the bit between them.
LEMMA BitBetween ==
  ASSUME NEW m \in Nat \ {0}, NEW x \in Nat
  PROVE  x \div m = 2 * (x \div (2 * m)) + ((x \div m) % 2)
<1> DEFINE q == x \div m   r == x % m
<1>1. x = m * q + r /\ r \in 0 .. m - 1 /\ q \in Nat
  OBVIOUS
<1> HIDE DEF q, r
<1>2. q = 2 * (q \div 2) + (q % 2) /\ q % 2 \in 0 .. 1 /\ q \div 2 \in Nat
  BY <1>1
<1> DEFINE h == q \div 2   l == q % 2
<1> HIDE DEF h, l
<1>3. x = (2 * m) * h + (m * l + r) /\ m * l + r \in 0 .. 2 * m - 1 /\ 2 * m \in Nat \ {0}
  <2>1. q = 2 * h + l /\ h \in Nat /\ l \in 0 .. 1
    BY <1>2 DEF h, l
  <2>2. m * q = (2 * m) * h + m * l
    BY <2>1
  <2>3. m * l \in {0, m}
    BY <2>1
  <2>4. (2 * m) * h \in Nat
    BY <2>1
  <2> QED BY <1>1, <2>2, <2>3, <2>4
<1>4. x \div (2 * m) = h
  <2>1. h \in Int
    BY <1>2 DEF h
  <2>2. ((2 * m) * h + (m * l + r)) \div (2 * m) = h
    BY <1>3, <2>1, QuotientOf
  <2> QED BY <1>3, <2>2
<1> QED BY <1>2, <1>4 DEF q, h, l

\* Bytes are the numbers below a power of two, the chip's ends included.
LEMMA ByteType ==
  /\ Byte \subseteq Nat /\ {0, 1, Ones} \subseteq Byte
  /\ TwoTo[ByteBits] \in Nat /\ TwoTo[ByteBits] >= 2
<1>1. ByteBits - 1 \in Nat /\ (ByteBits - 1) + 1 = ByteBits
  BY PortAssumption
<1>2. TwoTo[ByteBits - 1] \in Nat \ {0} /\ TwoTo[ByteBits] = 2 * TwoTo[ByteBits - 1]
  BY <1>1, PowersOfTwo
<1>3. TwoTo[ByteBits] \in Nat /\ TwoTo[ByteBits] >= 2
  BY <1>2
<1> QED BY <1>3 DEF Byte, Ones

\* The weights of the bits, from the highest down to one.
LEMMA WeightType ==
  ASSUME NEW i \in 0 .. ByteBits - 1
  PROVE  /\ Weight(i) \in Nat \ {0}
         /\ i = 0 => TwoTo[ByteBits] = 2 * Weight(i)
         /\ i + 1 \in 0 .. ByteBits - 1 => Weight(i) = 2 * Weight(i + 1)
         /\ i = ByteBits - 1 => Weight(i) = 1
<1>1. ByteBits \in Nat \ {0} /\ i \in Nat /\ ByteBits - 1 - i \in Nat
  BY PortAssumption
<1>2. Weight(i) \in Nat \ {0}
  BY <1>1, PowersOfTwo DEF Weight
<1>3. ASSUME i = 0 PROVE TwoTo[ByteBits] = 2 * Weight(i)
  <2>1. (ByteBits - 1 - i) + 1 = ByteBits
    BY <1>1, <1>3
  <2> QED BY <1>1, <2>1, PowersOfTwo DEF Weight
<1>4. ASSUME i + 1 \in 0 .. ByteBits - 1 PROVE Weight(i) = 2 * Weight(i + 1)
  <2>1. ByteBits - 1 - (i + 1) \in Nat /\ (ByteBits - 1 - (i + 1)) + 1 = ByteBits - 1 - i
    BY <1>1, <1>4
  <2> QED BY <2>1, PowersOfTwo DEF Weight
<1>5. ASSUME i = ByteBits - 1 PROVE Weight(i) = 1
  <2>1. ByteBits - 1 - i = 0
    BY <1>1, <1>5
  <2> QED BY <2>1, PowersOfTwo DEF Weight
<1> QED BY <1>2, <1>3, <1>4, <1>5

\* A bit is a bit.
LEMMA BitType ==
  ASSUME NEW b \in Int, NEW i \in 0 .. ByteBits - 1
  PROVE  Bit(b, i) \in 0 .. 1
<1>1. Weight(i) \in Nat \ {0}
  BY WeightType
<1>2. b \div Weight(i) \in Int
  BY <1>1
<1> QED BY <1>2 DEF Bit

\* There is a byte of any bits, so two bytes have a byte of common bits.
LEMMA AndType ==
  ASSUME NEW x \in Int, NEW y \in Int
  PROVE  And(x, y) \in Byte
<1> DEFINE B == [i \in 0 .. ByteBits - 1 |-> Bit(x, i) * Bit(y, i)]
           Of(z, n) == \A i \in 0 .. n - 1 : (z \div TwoTo[n - 1 - i]) % 2 = B[i]
           S == {n \in Nat : n <= ByteBits => \E z \in 0 .. TwoTo[n] - 1 : Of(z, n)}
<1>1. ASSUME NEW i \in 0 .. ByteBits - 1 PROVE B[i] \in 0 .. 1
  BY BitType
<1>2. ByteBits \in Nat \ {0}
  BY PortAssumption
<1>3. 0 \in S
  <2>1. 0 \in 0 .. TwoTo[0] - 1 /\ Of(0, 0)
    BY PowersOfTwo
  <2> QED BY <2>1
<1> HIDE DEF B
<1>4. ASSUME NEW n \in S PROVE n + 1 \in S
  <2>1. SUFFICES ASSUME n + 1 <= ByteBits
                 PROVE  \E z \in 0 .. TwoTo[n + 1] - 1 : Of(z, n + 1)
    OBVIOUS
  <2>2. n \in Nat /\ n \in 0 .. ByteBits - 1
    BY <1>2, <2>1
  <2>3. PICK z \in 0 .. TwoTo[n] - 1 : Of(z, n)
    BY <1>2, <2>2
  <2>4. TwoTo[n] \in Nat /\ TwoTo[n + 1] = 2 * TwoTo[n] /\ B[n] \in 0 .. 1
    BY <1>1, <2>2, PowersOfTwo
  <2>5. z \in Nat /\ 2 * z + B[n] \in 0 .. TwoTo[n + 1] - 1
    BY <2>4
  <2>6. ASSUME NEW i \in 0 .. n
        PROVE  ((2 * z + B[n]) \div TwoTo[n - i]) % 2 = B[i]
    <3>1. CASE i = n
      <4>1. TwoTo[n - i] = 1
        BY <2>2, <3>1, PowersOfTwo
      <4>2. (2 * z + B[n]) \div 1 = 2 * z + B[n]
        BY <2>4, <2>5
      <4>3. (2 * z + B[n]) % 2 = B[n]
        BY <2>4, <2>5
      <4> QED BY <3>1, <4>1, <4>2, <4>3
    <3>2. CASE i < n
      <4>1. n - 1 - i \in Nat /\ (n - 1 - i) + 1 = n - i /\ i \in 0 .. n - 1
        BY <2>2, <3>2
      <4>2. TwoTo[n - 1 - i] \in Nat \ {0} /\ TwoTo[n - i] = 2 * TwoTo[n - 1 - i]
        BY <4>1, PowersOfTwo
      <4>3. (2 * z + B[n]) \div TwoTo[n - i] = z \div TwoTo[n - 1 - i]
        <5>1. (2 * z + B[n]) \div (2 * TwoTo[n - 1 - i]) = z \div TwoTo[n - 1 - i]
          BY <2>4, <2>5, <4>2, DoubleAndBit
        <5> QED BY <4>2, <5>1
      <4> QED BY <2>3, <4>1, <4>3
    <3> QED BY <2>2, <3>1, <3>2
  <2>7. Of(2 * z + B[n], n + 1)
    BY <2>2, <2>6
  <2> HIDE DEF Of
  <2> QED BY <2>5, <2>7
<1>5. S \in SUBSET Nat
  OBVIOUS
<1>6. S = Nat
  <2> HIDE DEF S
  <2> QED BY <1>3, <1>4, <1>5, Induction
<1>7. PICK z \in 0 .. TwoTo[ByteBits] - 1 : Of(z, ByteBits)
  BY <1>2, <1>6
<1>8. z \in Byte /\ \A i \in 0 .. ByteBits - 1 : Bit(z, i) = Bit(x, i) * Bit(y, i)
  BY <1>7 DEF Byte, Bit, Weight, B
<1>9. \E b \in Byte : \A i \in 0 .. ByteBits - 1 : Bit(b, i) = Bit(x, i) * Bit(y, i)
  BY <1>8
<1> QED BY <1>9 DEF And

-----------------------------------------------------------------------------
(* The layout of the calls *)

\* The command codes are different bytes, and none is what a dead line reads.
LEMMA CodesType ==
  /\ {READ, PAGE_WRITE, WRITE_ENABLE, READ_STATUS, READ_IDROM, SECTOR_ERASE} \subseteq Byte
  /\ READ_STATUS \notin {READ, PAGE_WRITE, WRITE_ENABLE, READ_IDROM, SECTOR_ERASE}
  /\ READ_IDROM \notin {READ, PAGE_WRITE, WRITE_ENABLE, SECTOR_ERASE}
  /\ PAGE_WRITE \notin {READ, WRITE_ENABLE, SECTOR_ERASE}
  /\ SECTOR_ERASE \notin {READ, WRITE_ENABLE}
<1>1. DOMAIN Codes = 1 .. 6
  BY DEF Codes
<1>2. /\ Codes[1] = READ /\ Codes[2] = PAGE_WRITE /\ Codes[3] = WRITE_ENABLE
      /\ Codes[4] = READ_STATUS /\ Codes[5] = READ_IDROM /\ Codes[6] = SECTOR_ERASE
  BY DEF Codes
<1>3. \A i \in 1 .. 6 : Codes[i] \in Byte /\ \A j \in 1 .. 6 : Codes[i] = Codes[j] => i = j
  BY <1>1, PortAssumption
<1>4. 1 \in 1 .. 6 /\ 2 \in 1 .. 6 /\ 3 \in 1 .. 6 /\ 4 \in 1 .. 6 /\ 5 \in 1 .. 6 /\ 6 \in 1 .. 6
  OBVIOUS
<1> QED BY <1>2, <1>3, <1>4

Whats == {"init", "cs", "din", "clk", "bit", "shift", "wait", "take", "select", "poll"}
AccessRecords == [what : Whats, v : Int]
Pieces == Seq(AccessRecords)

\* The bytes of a gpio port go bit by bit, three accesses each.
LEMMA GpioBytes ==
  /\ \A b \in Int : /\ SendByteGpio(b) \in Pieces /\ Len(SendByteGpio(b)) = 3 * ByteBits
                    /\ \A t \in 0 .. ByteBits - 1 :
                         /\ SendByteGpio(b)[3 * t + 1] = Do("din", Bit(b, t))
                         /\ SendByteGpio(b)[3 * t + 2] = Do("clk", 1)
                         /\ SendByteGpio(b)[3 * t + 3] = Do("clk", 0)
  /\ RecvByteGpio \in Pieces /\ Len(RecvByteGpio) = 3 * ByteBits
  /\ \A t \in 0 .. ByteBits - 1 :
       /\ RecvByteGpio[3 * t + 1] = Do("bit", t)
       /\ RecvByteGpio[3 * t + 2] = Do("clk", 1)
       /\ RecvByteGpio[3 * t + 3] = Do("clk", 0)
<1>1. ByteBits \in Nat \ {0} /\ 3 * ByteBits \in Nat
  BY PortAssumption
<1>2. ASSUME NEW i \in 1 .. 3 * ByteBits
      PROVE  (i - 1) \div 3 \in 0 .. ByteBits - 1 /\ i % 3 \in 0 .. 2
  BY <1>1
<1>3. ASSUME NEW t \in 0 .. ByteBits - 1
      PROVE  /\ 3 * t + 1 \in 1 .. 3 * ByteBits /\ 3 * t + 2 \in 1 .. 3 * ByteBits
             /\ 3 * t + 3 \in 1 .. 3 * ByteBits
             /\ (3 * t + 1) % 3 = 1 /\ (3 * t + 2) % 3 = 2 /\ (3 * t + 3) % 3 = 0
             /\ ((3 * t + 1) - 1) \div 3 = t
  BY <1>1
<1>4. ASSUME NEW b \in Int
      PROVE  /\ SendByteGpio(b) \in Pieces /\ Len(SendByteGpio(b)) = 3 * ByteBits
             /\ \A t \in 0 .. ByteBits - 1 :
                  /\ SendByteGpio(b)[3 * t + 1] = Do("din", Bit(b, t))
                  /\ SendByteGpio(b)[3 * t + 2] = Do("clk", 1)
                  /\ SendByteGpio(b)[3 * t + 3] = Do("clk", 0)
  <2> DEFINE f == SendByteGpio(b)
  <2>1. ASSUME NEW i \in 1 .. 3 * ByteBits PROVE f[i] \in AccessRecords
    <3>1. Bit(b, (i - 1) \div 3) \in Int
      BY <1>2, BitType
    <3> QED BY <1>2, <3>1 DEF SendByteGpio, AccessRecords, Whats, Do
  <2>2. f \in [1 .. 3 * ByteBits -> AccessRecords]
    BY <2>1 DEF SendByteGpio
  <2>3. f \in Pieces /\ Len(f) = 3 * ByteBits
    BY <1>1, <2>2 DEF Pieces
  <2>4. ASSUME NEW t \in 0 .. ByteBits - 1
        PROVE  /\ f[3 * t + 1] = Do("din", Bit(b, t))
               /\ f[3 * t + 2] = Do("clk", 1) /\ f[3 * t + 3] = Do("clk", 0)
    <3>1. \A i \in 1 .. 3 * ByteBits :
            /\ i % 3 = 1 => f[i] = Do("din", Bit(b, (i - 1) \div 3))
            /\ i % 3 = 2 => f[i] = Do("clk", 1)
            /\ i % 3 = 0 => f[i] = Do("clk", 0)
      BY DEF SendByteGpio
    <3> HIDE DEF f
    <3> QED BY <1>3, <3>1
  <2> QED BY <2>3, <2>4
<1>5. RecvByteGpio \in Pieces /\ Len(RecvByteGpio) = 3 * ByteBits
  <2>1. ASSUME NEW i \in 1 .. 3 * ByteBits PROVE RecvByteGpio[i] \in AccessRecords
    BY <1>2 DEF RecvByteGpio, AccessRecords, Whats, Do
  <2>2. RecvByteGpio \in [1 .. 3 * ByteBits -> AccessRecords]
    BY <2>1 DEF RecvByteGpio
  <2> QED BY <1>1, <2>2 DEF Pieces
<1>6. ASSUME NEW t \in 0 .. ByteBits - 1
      PROVE  /\ RecvByteGpio[3 * t + 1] = Do("bit", t)
             /\ RecvByteGpio[3 * t + 2] = Do("clk", 1)
             /\ RecvByteGpio[3 * t + 3] = Do("clk", 0)
  <2>1. \A i \in 1 .. 3 * ByteBits :
          /\ i % 3 = 1 => RecvByteGpio[i] = Do("bit", (i - 1) \div 3)
          /\ i % 3 = 2 => RecvByteGpio[i] = Do("clk", 1)
          /\ i % 3 = 0 => RecvByteGpio[i] = Do("clk", 0)
    BY DEF RecvByteGpio
  <2> QED BY <1>3, <2>1
<1> QED BY <1>4, <1>5, <1>6

\* Receiving over EPP takes six accesses.
LEMMA EppReceives ==
  /\ RecvByteEpp \in Pieces /\ Len(RecvByteEpp) = 6
  /\ RecvByteEpp[1] = Do("select", SREG_REG) /\ RecvByteEpp[2] = Do("shift", 0)
  /\ RecvByteEpp[3] = Do("select", CS_REG) /\ RecvByteEpp[4] = Do("wait", 0)
  /\ RecvByteEpp[5] = Do("select", SREG_REG) /\ RecvByteEpp[6] = Do("take", 0)
<1>1. RecvByteEpp \in Pieces
  BY DEF RecvByteEpp, WaitForDataEpp, Pieces, AccessRecords, Whats, Do, SREG_REG, CS_REG
<1> QED BY <1>1 DEF RecvByteEpp, WaitForDataEpp

Kinds == {Prefix, Suffix, SetCs(1), RecvByte, <<Do("poll", 0)>>}
           \cup {SendByte(b) : b \in Byte}
           \cup (IF port = "gpio" THEN {<<Do("init", 0)>>} ELSE {})

\* Every piece is a sequence of accesses, and not an empty one.
LEMMA KindsType ==
  ASSUME port \in Ports, NEW x \in Kinds
  PROVE  x \in Pieces /\ Len(x) \in Nat \ {0}
<1> DEFINE Good(p) == p \in Pieces /\ Len(p) \in Nat \ {0}
<1> USE DEF Pieces, AccessRecords, Whats, Do, SREG_REG, CS_REG
<1>1. port \in {"hm2", "gpio", "io", "epp"} /\ ByteBits \in Nat \ {0}
  BY PortAssumption
<1>4. Good(SetCs(0)) /\ Good(SetCs(1))
  <2>1. ASSUME NEW v \in 0 .. 1
        PROVE  /\ Good(SetCsHm2(v)) /\ Good(SetCsGpio(v))
               /\ Good(SetCsIo(v)) /\ Good(SetCsEpp(v))
    BY DEF SetCsHm2, SetCsGpio, SetCsIo, SetCsEpp
  <2> HIDE DEF Good
  <2> QED BY <1>1, <2>1 DEF SetCs
<1>5. Good(Prefix) /\ Good(Suffix)
  <2>1. Good(PrefixGpio) /\ Good(SuffixGpio)
    BY DEF PrefixGpio, SuffixGpio
  <2> HIDE DEF Good
  <2> QED BY <1>1, <1>4, <2>1 DEF Prefix, Suffix
<1>6. Good(RecvByte)
  <2>1. Good(RecvByteGpio)
    BY <1>1, GpioBytes
  <2>2. Good(RecvByteHm2) /\ Good(RecvByteIo)
    BY DEF RecvByteHm2, RecvByteIo
  <2>3. Good(RecvByteEpp)
    BY EppReceives
  <2> HIDE DEF Good
  <2> QED BY <1>1, <2>1, <2>2, <2>3 DEF RecvByte
<1>7. ASSUME NEW b \in Byte PROVE Good(SendByte(b))
  <2>1. b \in Int
    BY ByteType
  <2>2. Good(SendByteGpio(b))
    <3> HIDE DEF Pieces, AccessRecords, Whats, Do
    <3>1. SendByteGpio(b) \in Pieces /\ Len(SendByteGpio(b)) = 3 * ByteBits
      BY <2>1, GpioBytes
    <3>2. 3 * ByteBits \in Nat \ {0}
      BY <1>1
    <3> QED BY <3>1, <3>2
  <2>3. Good(SendByteHm2(b)) /\ Good(SendByteIo(b)) /\ Good(SendByteEpp(b))
    BY <2>1 DEF SendByteHm2, SendByteIo, SendByteEpp
  <2> HIDE DEF Good
  <2> QED BY <1>1, <2>2, <2>3 DEF SendByte
<1>8. Good(<<Do("poll", 0)>>) /\ Good(<<Do("init", 0)>>)
  OBVIOUS
<1> HIDE DEF Good
<1>9. Good(x)
  BY <1>4, <1>5, <1>6, <1>7, <1>8 DEF Kinds
<1> QED BY <1>9 DEF Good

\* A sequence after a sequence.
LEMMA Joined ==
  ASSUME NEW S, NEW a \in Seq(S), NEW b \in Seq(S)
  PROVE  /\ a \o b \in Seq(S) /\ Len(a \o b) = Len(a) + Len(b)
         /\ Len(a) \in Nat /\ Len(b) \in Nat
         /\ \A i \in 1 .. Len(a) : (a \o b)[i] = a[i]
         /\ \A i \in 1 .. Len(b) : (a \o b)[Len(a) + i] = b[i]
OBVIOUS


\* A command: selected, the bytes sent, as many received as asked, deselected.
LEMMA CommandPieces ==
  ASSUME port \in Ports, NEW bytes \in Seq(Byte), NEW n \in Nat
  PROVE  LET c == Command(bytes, n)  m == Len(bytes) IN
         /\ m \in Nat /\ c \in Seq(Kinds) /\ Len(c) = m + n + 2
         /\ c[1] = Prefix
         /\ \A i \in 1 .. m : c[1 + i] = SendByte(bytes[i])
         /\ \A i \in 1 .. n : c[1 + m + i] = RecvByte
         /\ c[m + n + 2] = Suffix
<1> DEFINE m == Len(bytes)
           s == [i \in 1 .. m |-> SendByte(bytes[i])]
           r == [i \in 1 .. n |-> RecvByte]
<1>1. m \in Nat /\ \A i \in 1 .. m : bytes[i] \in Byte
  OBVIOUS
<1>2. <<Prefix>> \in Seq(Kinds) /\ <<Suffix>> \in Seq(Kinds)
  <2>1. Prefix \in Kinds /\ Suffix \in Kinds
    BY DEF Kinds
  <2> QED BY <2>1
<1>3. s \in Seq(Kinds) /\ Len(s) = m /\ r \in Seq(Kinds) /\ Len(r) = n
  <2>1. s \in [1 .. m -> Kinds] /\ r \in [1 .. n -> Kinds]
    BY <1>1 DEF Kinds
  <2> QED BY <1>1, <2>1
<1>4. (\A i \in 1 .. m : s[i] = SendByte(bytes[i])) /\ (\A i \in 1 .. n : r[i] = RecvByte)
  OBVIOUS
<1> DEFINE a == <<Prefix>> \o s   b == a \o r   c == b \o <<Suffix>>
<1>5. Command(bytes, n) = c
  BY DEF Command
<1> HIDE DEF s, r, m
<1>6. /\ a \in Seq(Kinds) /\ Len(a) = 1 + m /\ a[1] = Prefix
      /\ \A i \in 1 .. m : a[1 + i] = SendByte(bytes[i])
  <2>1. Len(<<Prefix>>) = 1 /\ <<Prefix>>[1] = Prefix
    OBVIOUS
  <2> QED BY <1>2, <1>3, <1>4, <2>1, Joined
<1> HIDE DEF a
<1>7. /\ b \in Seq(Kinds) /\ Len(b) = 1 + m + n
      /\ \A i \in 1 .. 1 + m : b[i] = a[i]
      /\ \A i \in 1 .. n : b[1 + m + i] = RecvByte
  <2>1. /\ a \o r \in Seq(Kinds) /\ Len(a \o r) = Len(a) + Len(r)
        /\ \A i \in 1 .. Len(a) : (a \o r)[i] = a[i]
        /\ \A i \in 1 .. Len(r) : (a \o r)[Len(a) + i] = r[i]
    <3>1. a \in Seq(Kinds) /\ r \in Seq(Kinds)
      BY <1>3, <1>6
    <3> QED BY <3>1, Joined
  <2> QED BY <1>3, <1>4, <1>6, <2>1
<1> HIDE DEF b
<1>8. /\ c \in Seq(Kinds) /\ Len(c) = 1 + m + n + 1
      /\ \A i \in 1 .. 1 + m + n : c[i] = b[i]
      /\ c[1 + m + n + 1] = Suffix
  <2>1. Len(<<Suffix>>) = 1 /\ <<Suffix>>[1] = Suffix /\ 1 \in 1 .. 1
    OBVIOUS
  <2> QED BY <1>2, <1>7, <2>1, Joined
<1> HIDE DEF c
<1>9. m \in Nat
  BY <1>1 DEF m
<1>10. c[1] = Prefix /\ \A i \in 1 .. m : c[1 + i] = SendByte(bytes[i])
  <2>1. c[1] = Prefix
    BY <1>6, <1>7, <1>8, <1>9
  <2>2. ASSUME NEW i \in 1 .. m PROVE c[1 + i] = SendByte(bytes[i])
    <3>1. 1 + i \in 1 .. 1 + m /\ 1 + i \in 1 .. 1 + m + n
      BY <1>9
    <3> QED BY <1>6, <1>7, <1>8, <3>1
  <2> QED BY <2>1, <2>2
<1>11. \A i \in 1 .. n : c[1 + m + i] = RecvByte
  BY <1>7, <1>8, <1>9
<1> QED BY <1>5, <1>8, <1>9, <1>10, <1>11 DEF m

\* Where a command is among the pieces of a call.
Located(all, at, bytes, n) ==
  LET m == Len(bytes) IN
  /\ at \in Nat \ {0} /\ bytes \in Seq(Byte) /\ m \in Nat /\ n \in Nat
  /\ at + m + n + 1 <= Len(all)
  /\ all[at] = Prefix
  /\ \A i \in 1 .. m : all[at + i] = SendByte(bytes[i])
  /\ \A i \in 1 .. n : all[at + m + i] = RecvByte
  /\ all[at + m + n + 1] = Suffix

\* A command after other pieces is found behind them.
LEMMA Behind ==
  ASSUME port \in Ports, NEW x \in Seq(Kinds), NEW bytes \in Seq(Byte), NEW n \in Nat,
         NEW y \in Seq(Kinds)
  PROVE  LET all == x \o Command(bytes, n) \o y IN
         /\ all \in Seq(Kinds)
         /\ Len(all) = Len(x) + (Len(bytes) + n + 2) + Len(y)
         /\ Located(all, Len(x) + 1, bytes, n)
         /\ \A i \in 1 .. Len(x) : all[i] = x[i]
         /\ \A i \in 1 .. Len(y) : all[Len(x) + (Len(bytes) + n + 2) + i] = y[i]
<1> DEFINE c == Command(bytes, n)  m == Len(bytes)  xc == x \o c  all == xc \o y
<1>1. /\ m \in Nat /\ c \in Seq(Kinds) /\ Len(c) = m + n + 2
      /\ c[1] = Prefix
      /\ \A i \in 1 .. m : c[1 + i] = SendByte(bytes[i])
      /\ \A i \in 1 .. n : c[1 + m + i] = RecvByte
      /\ c[m + n + 2] = Suffix
  BY CommandPieces
<1> HIDE DEF c
<1>2. /\ xc \in Seq(Kinds) /\ Len(xc) = Len(x) + Len(c) /\ Len(x) \in Nat
      /\ \A i \in 1 .. Len(x) : xc[i] = x[i]
      /\ \A i \in 1 .. Len(c) : xc[Len(x) + i] = c[i]
  <2>1. x \in Seq(Kinds) /\ c \in Seq(Kinds)
    BY <1>1
  <2> QED BY <2>1, Joined
<1> HIDE DEF xc
<1>3. /\ all \in Seq(Kinds) /\ Len(all) = Len(xc) + Len(y) /\ Len(y) \in Nat
      /\ \A i \in 1 .. Len(xc) : all[i] = xc[i]
      /\ \A i \in 1 .. Len(y) : all[Len(xc) + i] = y[i]
  <2>1. xc \in Seq(Kinds) /\ y \in Seq(Kinds)
    BY <1>2
  <2> QED BY <2>1, Joined
<1> HIDE DEF all
<1>4. ASSUME NEW i \in 1 .. m + n + 2 PROVE all[Len(x) + i] = c[i]
  <2>1. Len(x) + i \in 1 .. Len(xc) /\ i \in 1 .. Len(c)
    BY <1>1, <1>2
  <2> QED BY <1>2, <1>3, <2>1
<1> DEFINE at == Len(x) + 1
<1>5. all[at] = Prefix /\ all[at + m + n + 1] = Suffix
  <2>1. 1 \in 1 .. m + n + 2 /\ m + n + 2 \in 1 .. m + n + 2
    BY <1>1
  <2>2. at + m + n + 1 = Len(x) + (m + n + 2)
    BY <1>1, <1>2
  <2> QED BY <1>1, <1>4, <2>1, <2>2
<1>6. ASSUME NEW i \in 1 .. m PROVE all[at + i] = SendByte(bytes[i])
  <2>1. 1 + i \in 1 .. m + n + 2 /\ at + i = Len(x) + (1 + i)
    BY <1>1, <1>2
  <2> QED BY <1>1, <1>4, <2>1
<1>7. ASSUME NEW i \in 1 .. n PROVE all[at + m + i] = RecvByte
  <2>1. 1 + m + i \in 1 .. m + n + 2 /\ at + m + i = Len(x) + (1 + m + i)
    BY <1>1, <1>2
  <2> QED BY <1>1, <1>4, <2>1
<1>8. Located(all, at, bytes, n)
  <2>1. at \in Nat \ {0} /\ at + m + n + 1 <= Len(all)
    <3>1. /\ m \in Nat /\ n \in Nat /\ Len(x) \in Nat /\ Len(y) \in Nat
          /\ Len(all) = (Len(x) + (m + n + 2)) + Len(y)
      BY <1>1, <1>2, <1>3
    <3> QED BY <3>1
  <2> QED BY <1>1, <1>5, <1>6, <1>7, <2>1 DEF Located
<1>9. \A i \in 1 .. Len(x) : all[i] = x[i]
  <2>1. \A i \in 1 .. Len(x) : i \in 1 .. Len(xc)
    BY <1>1, <1>2
  <2> QED BY <1>2, <1>3, <2>1
<1>10. all = x \o Command(bytes, n) \o y
  BY DEF all, xc, c
<1>11. Len(all) = Len(x) + (m + n + 2) + Len(y)
  BY <1>1, <1>2, <1>3
<1>12. \A i \in 1 .. Len(y) : all[Len(x) + (m + n + 2) + i] = y[i]
  BY <1>1, <1>2, <1>3
<1> QED BY <1>3, <1>8, <1>9, <1>10, <1>11, <1>12

\* What lies in a part of a sequence of pieces lies in all of it.
LEMMA LocatedWithin ==
  ASSUME NEW some, NEW all, NEW off \in Nat, NEW at, NEW bytes, NEW n,
         Located(some, at, bytes, n), Len(some) \in Nat, Len(all) \in Nat,
         off + Len(some) <= Len(all), \A i \in 1 .. Len(some) : all[off + i] = some[i]
  PROVE  Located(all, off + at, bytes, n)
<1> DEFINE m == Len(bytes)
<1>1. m \in Nat /\ n \in Nat /\ at \in Nat \ {0} /\ at + m + n + 1 <= Len(some)
  BY DEF Located
<1>2. /\ at \in 1 .. Len(some) /\ at + m + n + 1 \in 1 .. Len(some)
      /\ \A i \in 1 .. m : at + i \in 1 .. Len(some)
      /\ \A i \in 1 .. n : at + m + i \in 1 .. Len(some)
  BY <1>1
<1>3. /\ some[at] = Prefix /\ some[at + m + n + 1] = Suffix
      /\ \A i \in 1 .. m : some[at + i] = SendByte(bytes[i])
      /\ \A i \in 1 .. n : some[at + m + i] = RecvByte
      /\ bytes \in Seq(Byte)
  BY DEF Located
<1>4. off + at \in Nat \ {0} /\ (off + at) + m + n + 1 <= Len(all)
  BY <1>1
<1>5. all[off + at] = Prefix
  BY <1>2, <1>3
<1>6. all[(off + at) + m + n + 1] = Suffix
  <2>1. (off + at) + m + n + 1 = off + (at + m + n + 1)
    BY <1>1
  <2> QED BY <1>2, <1>3, <2>1
<1>7. ASSUME NEW i \in 1 .. m PROVE all[(off + at) + i] = SendByte(bytes[i])
  <2>1. (off + at) + i = off + (at + i)
    BY <1>1
  <2> QED BY <1>2, <1>3, <2>1
<1>8. ASSUME NEW i \in 1 .. n PROVE all[(off + at) + m + i] = RecvByte
  <2>1. (off + at) + m + i = off + (at + m + i)
    BY <1>1
  <2> QED BY <1>2, <1>3, <2>1
<1> QED BY <1>1, <1>3, <1>4, <1>5, <1>6, <1>7, <1>8 DEF Located

\* A command on its own.
LEMMA Alone ==
  ASSUME port \in Ports, NEW bytes \in Seq(Byte), NEW n \in Nat
  PROVE  LET c == Command(bytes, n) IN
         /\ c \in Seq(Kinds) /\ Len(c) = Len(bytes) + n + 2 /\ Len(bytes) \in Nat
         /\ Located(c, 1, bytes, n)
<1> DEFINE c == Command(bytes, n)  m == Len(bytes)
<1>1. /\ m \in Nat /\ c \in Seq(Kinds) /\ Len(c) = m + n + 2
      /\ c[1] = Prefix
      /\ \A i \in 1 .. m : c[1 + i] = SendByte(bytes[i])
      /\ \A i \in 1 .. n : c[1 + m + i] = RecvByte
      /\ c[m + n + 2] = Suffix
  BY CommandPieces
<1> HIDE DEF c
<1>2. 1 + m + n + 1 = m + n + 2
  BY <1>1
<1>3. Located(c, 1, bytes, n)
  BY <1>1, <1>2 DEF Located
<1> QED BY <1>1, <1>3 DEF c

\* A quotient below a product.
LEMMA QuotientBelow ==
  ASSUME NEW p \in Nat \ {0}, NEW s \in Nat, NEW a \in 0 .. s * p - 1
  PROVE  a \div p \in 0 .. s - 1
<1> DEFINE q == a \div p   r == a % p
<1>1. s * p \in Nat /\ a \in Nat
  OBVIOUS
<1>2. a = p * q + r /\ r \in 0 .. p - 1 /\ q \in Nat
  BY <1>1
<1> HIDE DEF q, r
<1>3. SUFFICES ASSUME q >= s PROVE FALSE
  BY <1>2 DEF q
<1>4. p * q >= p * s
  BY <1>2, <1>3
<1> QED BY <1>1, <1>2, <1>4

\* The three bytes of an address are bytes.
LEMMA AddressBytes ==
  ASSUME NEW a \in Addresses
  PROVE  /\ SendAddress(a) \in Seq(Byte) /\ Len(SendAddress(a)) = 3
         /\ a \div (SectorPages * PageSize) \in 0 .. Sectors - 1
         /\ SendAddress(a)[1] = a \div (SectorPages * PageSize)
         /\ SendAddress(a)[2] = (a \div PageSize) % SectorPages
         /\ SendAddress(a)[3] = a % PageSize
<1>1. /\ TwoTo[ByteBits] \in Nat
      /\ PageSize \in 1 .. TwoTo[ByteBits] /\ SectorPages \in 1 .. TwoTo[ByteBits]
      /\ Sectors \in 1 .. TwoTo[ByteBits]
  BY PortAssumption, ByteType
<1> DEFINE p == SectorPages * PageSize
<1>2. p \in Nat \ {0} /\ Sectors * p = Sectors * SectorPages * PageSize
  BY <1>1
<1> HIDE DEF p
<1>3. a \in 0 .. Sectors * p - 1 /\ a \in Nat
  BY <1>2 DEF Addresses
<1>4. a \div p \in 0 .. Sectors - 1
  <2>1. Sectors \in Nat
    BY <1>1
  <2> QED BY <1>2, <1>3, <2>1, QuotientBelow
<1>5. (a \div PageSize) % SectorPages \in 0 .. SectorPages - 1 /\ a % PageSize \in 0 .. PageSize - 1
  BY <1>1, <1>3
<1>6. a \div p \in Byte /\ (a \div PageSize) % SectorPages \in Byte /\ a % PageSize \in Byte
  BY <1>1, <1>4, <1>5 DEF Byte
<1> QED BY <1>4, <1>6 DEF SendAddress, p

Calling == Op("open", 0, NoPage)

IdBytes == <<READ_IDROM>> \o SendAddress(0)
ReadBytes(c) == <<READ>> \o SendAddress(c.at)
ChangeBytes(c) ==
  IF c.op = "write"
    THEN <<PAGE_WRITE>> \o SendAddress(c.at) \o [k \in 1 .. PageSize |-> c.page[k - 1]]
    ELSE <<SECTOR_ERASE>> \o SendAddress(c.at)

\* What a call can be.
LEMMA CallType ==
  ASSUME NEW c \in Calls \cup {Off, Idle, Calling}
  PROVE  /\ c.op \in {"read", "write", "erase", "deselect", "close", "open", "off", "idle"}
         /\ c.at \in Addresses
         /\ c.op = "off" <=> c = Off
         /\ c.op = "idle" <=> c = Idle
         /\ c.op = "open" <=> c = Calling
         /\ c.op = "write" => c.page \in [0 .. PageSize - 1 -> Byte]
         /\ c.op \in {"read", "write"} => c.at % PageSize = 0
         /\ c.op = "erase" => c.at % (SectorPages * PageSize) = 0
<1>1. 0 \in Addresses
  <2>1. TwoTo[ByteBits] \in Nat
    BY ByteType
  <2>2. PageSize \in Nat \ {0} /\ SectorPages \in Nat \ {0} /\ Sectors \in Nat \ {0}
    BY <2>1, PortAssumption
  <2>3. SectorPages * PageSize >= 1 /\ SectorPages * PageSize \in Nat
    BY <2>2
  <2>4. Sectors * SectorPages * PageSize = Sectors * (SectorPages * PageSize)
    BY <2>2
  <2>5. Sectors * (SectorPages * PageSize) >= 1 * 1
    BY <2>2, <2>3
  <2> QED BY <2>2, <2>4, <2>5 DEF Addresses
<1>2. CASE c \in {Off, Idle, Calling}
  BY <1>1, <1>2 DEF Off, Idle, Calling, Op
<1>3. CASE c \in Calls
  <2>1. Pages \subseteq [0 .. PageSize - 1 -> Byte]
    BY PortAssumption
  <2> QED BY <1>1, <1>3, <2>1 DEF Calls, Op, Off, Idle, Calling
<1> QED BY <1>2, <1>3

\* The bytes of the commands.
LEMMA CommandBytes ==
  ASSUME NEW c \in Calls \cup {Off, Idle, Calling}
  PROVE  /\ IdBytes \in Seq(Byte) /\ Len(IdBytes) = 4 /\ IdBytes[1] = READ_IDROM
         /\ ReadBytes(c) \in Seq(Byte) /\ Len(ReadBytes(c)) = 4 /\ ReadBytes(c)[1] = READ
         /\ c.op \in {"write", "erase"} =>
              /\ ChangeBytes(c) \in Seq(Byte)
              /\ ChangeBytes(c)[1] = IF c.op = "write" THEN PAGE_WRITE ELSE SECTOR_ERASE
              /\ Len(ChangeBytes(c)) = IF c.op = "write" THEN 4 + PageSize ELSE 4
              /\ \A i \in 1 .. 3 : ChangeBytes(c)[1 + i] = SendAddress(c.at)[i]
              /\ c.op = "write" => \A k \in 1 .. PageSize : ChangeBytes(c)[4 + k] = c.page[k - 1]
         /\ <<WRITE_ENABLE>> \in Seq(Byte) /\ <<READ_STATUS>> \in Seq(Byte)
         /\ PageSize \in Nat \ {0}
<1>1. /\ READ \in Byte /\ PAGE_WRITE \in Byte /\ WRITE_ENABLE \in Byte
      /\ READ_STATUS \in Byte /\ READ_IDROM \in Byte /\ SECTOR_ERASE \in Byte
  BY CodesType
<1>2. Calling.at = 0 /\ Calling \in Calls \cup {Off, Idle, Calling}
  BY DEF Calling, Op
<1>3. c.at \in Addresses /\ 0 \in Addresses
  BY <1>2, CallType
<1>4. PageSize \in Nat \ {0}
  <2>1. TwoTo[ByteBits] \in Nat
    BY ByteType
  <2> QED BY <2>1, PortAssumption
<1>5. ASSUME NEW b \in Byte, NEW a \in Addresses
      PROVE  LET s == <<b>> \o SendAddress(a) IN
             /\ s \in Seq(Byte) /\ Len(s) = 4 /\ s[1] = b
             /\ \A i \in 1 .. 3 : s[1 + i] = SendAddress(a)[i]
  <2>1. SendAddress(a) \in Seq(Byte) /\ Len(SendAddress(a)) = 3
    BY <1>5, AddressBytes
  <2>2. <<b>> \in Seq(Byte) /\ Len(<<b>>) = 1 /\ <<b>>[1] = b
    BY <1>5
  <2> DEFINE x == <<b>>  y == SendAddress(a)
  <2> HIDE DEF x, y
  <2>3. /\ x \o y \in Seq(Byte) /\ Len(x \o y) = Len(x) + Len(y)
        /\ \A i \in 1 .. Len(x) : (x \o y)[i] = x[i]
        /\ \A i \in 1 .. Len(y) : (x \o y)[Len(x) + i] = y[i]
    <3>1. x \in Seq(Byte) /\ y \in Seq(Byte)
      BY <2>1, <2>2 DEF x, y
    <3> QED BY <3>1, Joined
  <2>4. Len(x) = 1 /\ Len(y) = 3 /\ x[1] = b /\ 1 \in 1 .. 1
    BY <2>1, <2>2 DEF x, y
  <2> QED BY <2>3, <2>4 DEF x, y
<1>6. /\ IdBytes \in Seq(Byte) /\ Len(IdBytes) = 4 /\ IdBytes[1] = READ_IDROM
      /\ ReadBytes(c) \in Seq(Byte) /\ Len(ReadBytes(c)) = 4 /\ ReadBytes(c)[1] = READ
  BY <1>1, <1>3, <1>5 DEF IdBytes, ReadBytes
<1>7. CASE c.op = "write"
  <2> DEFINE s == <<PAGE_WRITE>> \o SendAddress(c.at)
             d == [k \in 1 .. PageSize |-> c.page[k - 1]]
  <2>1. /\ s \in Seq(Byte) /\ Len(s) = 4 /\ s[1] = PAGE_WRITE
        /\ \A i \in 1 .. 3 : s[1 + i] = SendAddress(c.at)[i]
    BY <1>1, <1>3, <1>5
  <2>2. d \in Seq(Byte) /\ Len(d) = PageSize /\ \A k \in 1 .. PageSize : d[k] = c.page[k - 1]
    <3>1. c.page \in [0 .. PageSize - 1 -> Byte]
      BY <1>7, CallType
    <3>2. d \in [1 .. PageSize -> Byte]
      BY <1>4, <3>1
    <3> QED BY <1>4, <3>2
  <2>3. ChangeBytes(c) = s \o d
    BY <1>7 DEF ChangeBytes
  <2> HIDE DEF s, d
  <2>4. /\ s \o d \in Seq(Byte) /\ Len(s \o d) = 4 + PageSize
        /\ \A i \in 1 .. 4 : (s \o d)[i] = s[i]
        /\ \A k \in 1 .. PageSize : (s \o d)[4 + k] = d[k]
    <3>1. s \in Seq(Byte) /\ d \in Seq(Byte)
      BY <2>1, <2>2
    <3>2. /\ s \o d \in Seq(Byte) /\ Len(s \o d) = Len(s) + Len(d)
          /\ \A i \in 1 .. Len(s) : (s \o d)[i] = s[i]
          /\ \A i \in 1 .. Len(d) : (s \o d)[Len(s) + i] = d[i]
      BY <3>1, Joined
    <3> QED BY <2>1, <2>2, <3>2
  <2>5. /\ 1 \in 1 .. 4
        /\ \A i \in 1 .. 3 : 1 + i \in 1 .. 4
    OBVIOUS
  <2> QED BY <1>1, <1>4, <1>6, <1>7, <2>1, <2>2, <2>3, <2>4, <2>5
<1>8. CASE c.op = "erase"
  BY <1>1, <1>3, <1>4, <1>5, <1>6, <1>8 DEF ChangeBytes
<1>9. CASE c.op \notin {"write", "erase"}
  BY <1>1, <1>4, <1>6, <1>9
<1> QED BY <1>7, <1>8, <1>9

\* Where things are in the calls.
IdAt == IF port = "gpio" THEN 2 ELSE 1

Layout(c, all) ==
  /\ all \in Seq(Kinds)
  /\ c.op = "open" => /\ Len(all) = IdAt + 6 /\ Located(all, IdAt, IdBytes, 1)
                      /\ port = "gpio" => all[1] = <<Do("init", 0)>>
  /\ c.op = "read" => Len(all) = PageSize + 6 /\ Located(all, 1, ReadBytes(c), PageSize)
  /\ c.op \in {"write", "erase"} =>
       LET k == Len(ChangeBytes(c)) IN
       /\ Len(all) = k + 10
       /\ Located(all, 1, <<WRITE_ENABLE>>, 0)
       /\ Located(all, 4, ChangeBytes(c), 0)
       /\ Located(all, k + 6, <<READ_STATUS>>, 1)
       /\ all[k + 10] = <<Do("poll", 0)>>
  /\ c.op = "deselect" => Len(all) = 1 /\ all[1] = SetCs(1)
  /\ c.op = "close" => IF port = "gpio" THEN Len(all) = 1 /\ all[1] = <<Do("init", 0)>>
                                        ELSE Len(all) = 0

\* What writes and erases do behind their write enable.
LEMMA ChangeLayout ==
  ASSUME port \in Ports, NEW bytes \in Seq(Byte), NEW k \in Nat, k = Len(bytes)
  PROVE  LET all == WriteEnable \o Command(bytes, 0) \o WaitForWrite IN
         /\ all \in Seq(Kinds) /\ Len(all) = k + 10
         /\ Located(all, 1, <<WRITE_ENABLE>>, 0)
         /\ Located(all, 4, bytes, 0)
         /\ Located(all, k + 6, <<READ_STATUS>>, 1)
         /\ all[k + 10] = <<Do("poll", 0)>>
<1> DEFINE all == WriteEnable \o Command(bytes, 0) \o WaitForWrite
           poll == <<<<Do("poll", 0)>>>>
<1>1. /\ <<WRITE_ENABLE>> \in Seq(Byte) /\ Len(<<WRITE_ENABLE>>) = 1
      /\ <<READ_STATUS>> \in Seq(Byte) /\ Len(<<READ_STATUS>>) = 1
      /\ 0 \in Nat /\ 1 \in Nat
  BY CodesType
<1>2. /\ WriteEnable \in Seq(Kinds) /\ Len(WriteEnable) = 3
      /\ Located(WriteEnable, 1, <<WRITE_ENABLE>>, 0)
  <2> DEFINE b == <<WRITE_ENABLE>>
  <2>1. b \in Seq(Byte) /\ Len(b) = 1 /\ WriteEnable = Command(b, 0)
    BY <1>1 DEF WriteEnable
  <2> HIDE DEF b
  <2>2. /\ Command(b, 0) \in Seq(Kinds) /\ Len(Command(b, 0)) = Len(b) + 0 + 2
        /\ Located(Command(b, 0), 1, b, 0)
    BY <1>1, <2>1, Alone
  <2> QED BY <2>1, <2>2 DEF b
<1>3. /\ ReadStatus \in Seq(Kinds) /\ Len(ReadStatus) = 4
      /\ Located(ReadStatus, 1, <<READ_STATUS>>, 1)
  <2> DEFINE b == <<READ_STATUS>>
  <2>1. b \in Seq(Byte) /\ Len(b) = 1 /\ ReadStatus = Command(b, 1)
    BY <1>1 DEF ReadStatus
  <2> HIDE DEF b
  <2>2. /\ Command(b, 1) \in Seq(Kinds) /\ Len(Command(b, 1)) = Len(b) + 1 + 2
        /\ Located(Command(b, 1), 1, b, 1)
    BY <1>1, <2>1, Alone
  <2> QED BY <2>1, <2>2 DEF b
<1>4. poll \in Seq(Kinds) /\ Len(poll) = 1 /\ poll[1] = <<Do("poll", 0)>> /\ 1 \in 1 .. 1
  <2>1. <<Do("poll", 0)>> \in Kinds
    BY DEF Kinds
  <2> QED BY <2>1
<1> HIDE DEF poll
<1>5. /\ WaitForWrite \in Seq(Kinds) /\ Len(WaitForWrite) = 5
      /\ \A i \in 1 .. 4 : WaitForWrite[i] = ReadStatus[i]
      /\ WaitForWrite[5] = <<Do("poll", 0)>>
  <2>1. WaitForWrite = ReadStatus \o poll
    BY DEF WaitForWrite, poll
  <2>2. /\ ReadStatus \o poll \in Seq(Kinds)
        /\ Len(ReadStatus \o poll) = Len(ReadStatus) + Len(poll)
        /\ \A i \in 1 .. Len(ReadStatus) : (ReadStatus \o poll)[i] = ReadStatus[i]
        /\ \A i \in 1 .. Len(poll) : (ReadStatus \o poll)[Len(ReadStatus) + i] = poll[i]
    <3>1. ReadStatus \in Seq(Kinds) /\ poll \in Seq(Kinds)
      BY <1>3, <1>4
    <3> QED BY <3>1, Joined
  <2> HIDE DEF poll
  <2>3. Len(ReadStatus) = 4 /\ Len(poll) = 1 /\ poll[1] = <<Do("poll", 0)>>
    BY <1>3, <1>4
  <2>4. (ReadStatus \o poll)[4 + 1] = <<Do("poll", 0)>> /\ 4 + 1 = 5
    <3>1. 1 \in 1 .. Len(poll)
      BY <2>3
    <3>2. (ReadStatus \o poll)[Len(ReadStatus) + 1] = poll[1]
      BY <2>2, <3>1
    <3> QED BY <2>3, <3>2
  <2>5. /\ WaitForWrite \in Seq(Kinds) /\ Len(WaitForWrite) = 4 + 1
        /\ \A i \in 1 .. 4 : WaitForWrite[i] = ReadStatus[i]
    BY <2>1, <2>2, <2>3
  <2> QED BY <2>1, <2>4, <2>5
<1>6. /\ all \in Seq(Kinds)
      /\ Len(all) = Len(WriteEnable) + (Len(bytes) + 0 + 2) + Len(WaitForWrite)
      /\ Located(all, Len(WriteEnable) + 1, bytes, 0)
      /\ \A i \in 1 .. Len(WriteEnable) : all[i] = WriteEnable[i]
      /\ \A i \in 1 .. Len(WaitForWrite) :
           all[Len(WriteEnable) + (Len(bytes) + 0 + 2) + i] = WaitForWrite[i]
  <2>1. WriteEnable \in Seq(Kinds) /\ WaitForWrite \in Seq(Kinds) /\ 0 \in Nat
    BY <1>2, <1>5
  <2> QED BY <2>1, Behind
<1> HIDE DEF all
<1>7. /\ Len(all) = k + 10 /\ Located(all, 4, bytes, 0)
      /\ \A i \in 1 .. 3 : all[i] = WriteEnable[i]
      /\ \A i \in 1 .. 5 : all[(k + 5) + i] = WaitForWrite[i]
  <2>1. Len(WriteEnable) + (Len(bytes) + 0 + 2) = k + 5
    BY <1>2
  <2> QED BY <1>2, <1>5, <1>6, <2>1
<1>8. Located(all, 1, <<WRITE_ENABLE>>, 0)
  <2>1. /\ Len(WriteEnable) \in Nat /\ Len(all) \in Nat /\ 0 \in Nat
        /\ 0 + Len(WriteEnable) <= Len(all) /\ 0 + 1 = 1
        /\ \A i \in 1 .. Len(WriteEnable) : all[0 + i] = WriteEnable[i]
    BY <1>2, <1>7
  <2>2. Located(all, 0 + 1, <<WRITE_ENABLE>>, 0)
    BY <1>2, <2>1, LocatedWithin
  <2> QED BY <2>1, <2>2
<1>9. Located(all, k + 6, <<READ_STATUS>>, 1)
  <2>1. /\ Len(ReadStatus) \in Nat /\ Len(all) \in Nat /\ k + 5 \in Nat
        /\ (k + 5) + Len(ReadStatus) <= Len(all) /\ (k + 5) + 1 = k + 6
        /\ \A i \in 1 .. Len(ReadStatus) : all[(k + 5) + i] = ReadStatus[i]
    <3>1. \A i \in 1 .. 4 : i \in 1 .. 5
      OBVIOUS
    <3> QED BY <1>3, <1>5, <1>7, <3>1
  <2>2. Located(all, (k + 5) + 1, <<READ_STATUS>>, 1)
    BY <1>3, <2>1, LocatedWithin
  <2> QED BY <2>1, <2>2
<1>10. all[k + 10] = <<Do("poll", 0)>>
  <2>1. 5 \in 1 .. 5 /\ (k + 5) + 5 = k + 10
    OBVIOUS
  <2> QED BY <1>5, <1>7, <2>1
<1> QED BY <1>6, <1>7, <1>8, <1>9, <1>10 DEF all

\* The pieces of every call are laid out as said.
LEMMA CallLayout ==
  ASSUME port \in Ports, NEW c \in Calls \cup {Calling}
  PROVE  Layout(c, Accesses(c))
<1>1. c \in Calls \cup {Off, Idle, Calling}
  OBVIOUS
<1>2. c.op \in {"read", "write", "erase", "deselect", "close", "open"}
  <2>1. c.op \notin {"off", "idle"}
    BY DEF Calls, Calling, Op
  <2> QED BY <1>1, <2>1, CallType
<1>3. ASSUME c.op = "open" PROVE Layout(c, Accesses(c))
  <2>1. /\ ReadFlashId \in Seq(Kinds) /\ Len(ReadFlashId) = 7
        /\ Located(ReadFlashId, 1, IdBytes, 1)
    <3>1. IdBytes \in Seq(Byte) /\ Len(IdBytes) = 4
      BY <1>1, CommandBytes
    <3>2. ReadFlashId = Command(IdBytes, 1) /\ 1 \in Nat
      BY DEF ReadFlashId, IdBytes
    <3>3. /\ Command(IdBytes, 1) \in Seq(Kinds)
          /\ Len(Command(IdBytes, 1)) = Len(IdBytes) + 1 + 2
          /\ Located(Command(IdBytes, 1), 1, IdBytes, 1)
      BY <3>1, <3>2, Alone
    <3> QED BY <3>1, <3>2, <3>3
  <2>2. Accesses(c) = InitGpio \o ReadFlashId
    BY <1>3 DEF Accesses
  <2>3. CASE port = "gpio"
    <3> DEFINE x == <<<<Do("init", 0)>>>>
    <3>1. x \in Seq(Kinds) /\ Len(x) = 1 /\ x[1] = <<Do("init", 0)>> /\ 1 \in 1 .. 1
      <4>1. <<Do("init", 0)>> \in Kinds
        BY <2>3 DEF Kinds
      <4> QED BY <4>1
    <3>2. Accesses(c) = x \o ReadFlashId
      BY <2>2, <2>3 DEF InitGpio
    <3> HIDE DEF x
    <3>3. /\ x \o ReadFlashId \in Seq(Kinds)
          /\ Len(x \o ReadFlashId) = Len(x) + Len(ReadFlashId)
          /\ \A i \in 1 .. Len(x) : (x \o ReadFlashId)[i] = x[i]
          /\ \A i \in 1 .. Len(ReadFlashId) :
               (x \o ReadFlashId)[Len(x) + i] = ReadFlashId[i]
      <4>1. x \in Seq(Kinds) /\ ReadFlashId \in Seq(Kinds)
        BY <2>1, <3>1
      <4> QED BY <4>1, Joined
    <3> DEFINE all == Accesses(c)
    <3>4. /\ all \in Seq(Kinds) /\ Len(all) = 8 /\ all[1] = <<Do("init", 0)>>
          /\ \A i \in 1 .. Len(ReadFlashId) : all[1 + i] = ReadFlashId[i]
      <4>1. Len(x) = 1 /\ 1 \in 1 .. Len(x) /\ x[1] = <<Do("init", 0)>>
        BY <3>1
      <4>2. Len(ReadFlashId) = 7
        BY <2>1
      <4> HIDE DEF all
      <4>3. all = x \o ReadFlashId
        BY <3>2 DEF all
      <4>4. all \in Seq(Kinds) /\ all[1] = x[1]
        BY <3>3, <4>1, <4>3
      <4>5. Len(all) = 1 + 7
        BY <3>3, <4>1, <4>2, <4>3
      <4>6. \A i \in 1 .. Len(ReadFlashId) : all[1 + i] = ReadFlashId[i]
        BY <3>3, <4>1, <4>3
      <4> QED BY <4>1, <4>4, <4>5, <4>6
    <3> HIDE DEF all
    <3>5. Located(all, 1 + 1, IdBytes, 1)
      <4>1. Len(ReadFlashId) \in Nat /\ Len(all) \in Nat /\ 1 + Len(ReadFlashId) <= Len(all) /\ 1 \in Nat
        BY <2>1, <3>4
      <4> QED BY <2>1, <3>4, <4>1, LocatedWithin
    <3>6. IdAt = 2 /\ 1 + 1 = 2
      BY <2>3 DEF IdAt
    <3> QED BY <1>3, <2>3, <3>4, <3>5, <3>6 DEF Layout, all
  <2>4. CASE port # "gpio"
    <3>1. Accesses(c) = ReadFlashId
      <4>1. Accesses(c) = <<>> \o ReadFlashId
        BY <2>2, <2>4 DEF InitGpio
      <4>2. ReadFlashId \in Seq(Kinds)
        BY <2>1
      <4> QED BY <4>1, <4>2, ConcatEmptySeq
    <3>2. IdAt = 1
      BY <2>4 DEF IdAt
    <3> QED BY <1>3, <2>1, <2>4, <3>1, <3>2 DEF Layout
  <2> QED BY <2>3, <2>4
<1>4. ASSUME c.op = "read" PROVE Layout(c, Accesses(c))
  <2>1. ReadBytes(c) \in Seq(Byte) /\ Len(ReadBytes(c)) = 4 /\ PageSize \in Nat
    BY <1>1, CommandBytes
  <2>2. Accesses(c) = Command(ReadBytes(c), PageSize)
    BY <1>4 DEF Accesses, ReadPage, ReadBytes
  <2>3. /\ Accesses(c) \in Seq(Kinds) /\ Len(Accesses(c)) = PageSize + 6
        /\ Located(Accesses(c), 1, ReadBytes(c), PageSize)
    <3> DEFINE b == ReadBytes(c)
    <3> HIDE DEF b
    <3>1. b \in Seq(Byte) /\ Len(b) = 4 /\ Accesses(c) = Command(b, PageSize)
      BY <2>1, <2>2 DEF b
    <3>2. /\ Command(b, PageSize) \in Seq(Kinds)
          /\ Len(Command(b, PageSize)) = Len(b) + PageSize + 2
          /\ Located(Command(b, PageSize), 1, b, PageSize)
      BY <2>1, <3>1, Alone
    <3> QED BY <2>1, <3>1, <3>2 DEF b
  <2> QED BY <1>4, <2>3 DEF Layout
<1>5. ASSUME c.op \in {"write", "erase"} PROVE Layout(c, Accesses(c))
  <2> DEFINE k == Len(ChangeBytes(c))
  <2>1. ChangeBytes(c) \in Seq(Byte) /\ k \in Nat
    BY <1>1, <1>5, CommandBytes
  <2>2. Accesses(c) = WriteEnable \o Command(ChangeBytes(c), 0) \o WaitForWrite
    BY <1>5 DEF Accesses, WritePage, EraseSector, ChangeBytes
  <2>3. /\ Accesses(c) \in Seq(Kinds) /\ Len(Accesses(c)) = k + 10
        /\ Located(Accesses(c), 1, <<WRITE_ENABLE>>, 0)
        /\ Located(Accesses(c), 4, ChangeBytes(c), 0)
        /\ Located(Accesses(c), k + 6, <<READ_STATUS>>, 1)
        /\ Accesses(c)[k + 10] = <<Do("poll", 0)>>
    BY <2>1, <2>2, ChangeLayout
  <2> QED BY <1>5, <2>3 DEF Layout
<1>6. ASSUME c.op = "deselect" PROVE Layout(c, Accesses(c))
  <2>1. Accesses(c) = <<SetCs(1)>>
    BY <1>6 DEF Accesses
  <2>2. SetCs(1) \in Kinds
    BY DEF Kinds
  <2>3. Accesses(c) \in Seq(Kinds) /\ Len(Accesses(c)) = 1 /\ Accesses(c)[1] = SetCs(1)
    BY <2>1, <2>2
  <2> QED BY <1>6, <2>3 DEF Layout
<1>7. ASSUME c.op = "close" PROVE Layout(c, Accesses(c))
  <2>1. Accesses(c) = RestoreGpio
    BY <1>7 DEF Accesses
  <2>2. CASE port = "gpio"
    <3>1. <<Do("init", 0)>> \in Kinds /\ RestoreGpio = <<<<Do("init", 0)>>>>
      BY <2>2 DEF Kinds, RestoreGpio
    <3>2. /\ Accesses(c) \in Seq(Kinds) /\ Len(Accesses(c)) = 1
          /\ Accesses(c)[1] = <<Do("init", 0)>>
      BY <2>1, <3>1
    <3> QED BY <1>7, <2>2, <3>2 DEF Layout
  <2>3. CASE port # "gpio"
    <3>1. Accesses(c) \in Seq(Kinds) /\ Len(Accesses(c)) = 0
      BY <2>1, <2>3 DEF RestoreGpio
    <3> QED BY <1>7, <2>3, <3>1 DEF Layout
  <2> QED BY <2>2, <2>3
<1> QED BY <1>2, <1>3, <1>4, <1>5, <1>6, <1>7

-----------------------------------------------------------------------------
(* The pieces of a call do not change while the port does not *)

LEMMA SamePieces ==
  ASSUME port' = port
  PROVE  /\ \A v : SetCs(v)' = SetCs(v)
         /\ Prefix' = Prefix /\ Suffix' = Suffix /\ RecvByte' = RecvByte
         /\ \A b : SendByte(b)' = SendByte(b)
         /\ InitGpio' = InitGpio /\ RestoreGpio' = RestoreGpio
<1>1. \A v : SetCs(v)' = SetCs(v)
  BY DEF SetCs
<1>2. Prefix' = Prefix /\ Suffix' = Suffix
  BY DEF Prefix, Suffix, SetCs
<1>3. RecvByte' = RecvByte
  BY DEF RecvByte
<1>4. \A b : SendByte(b)' = SendByte(b)
  BY DEF SendByte
<1>5. InitGpio' = InitGpio /\ RestoreGpio' = RestoreGpio
  BY DEF InitGpio, RestoreGpio
<1> QED BY <1>1, <1>2, <1>3, <1>4, <1>5

LEMMA SameCommand ==
  ASSUME port' = port, NEW CONSTANT bytes, NEW CONSTANT n
  PROVE  Command(bytes, n)' = Command(bytes, n)
<1>1. /\ Prefix' = Prefix /\ Suffix' = Suffix /\ RecvByte' = RecvByte
      /\ \A b : SendByte(b)' = SendByte(b)
  BY SamePieces
<1>2. [i \in 1 .. Len(bytes) |-> SendByte(bytes[i])]' = [i \in 1 .. Len(bytes) |-> SendByte(bytes[i])]
  BY <1>1
<1> QED BY <1>1, <1>2 DEF Command

LEMMA SameAccesses ==
  ASSUME port' = port, NEW CONSTANT c
  PROVE  Accesses(c)' = Accesses(c)
<1>1. \A bytes, n : Command(bytes, n)' = Command(bytes, n)
  BY SameCommand
<1>2. /\ ReadFlashId' = ReadFlashId /\ ReadPage(c.at)' = ReadPage(c.at)
      /\ WritePage(c.at, c.page)' = WritePage(c.at, c.page)
      /\ EraseSector(c.at)' = EraseSector(c.at)
  BY <1>1 DEF ReadFlashId, ReadPage, WritePage, EraseSector, WriteEnable, WaitForWrite, ReadStatus
<1>3. SetCs(1)' = SetCs(1) /\ InitGpio' = InitGpio /\ RestoreGpio' = RestoreGpio
  BY SamePieces
<1> QED BY <1>2, <1>3 DEF Accesses

LEMMA SameTodo ==
  ASSUME port' = port, call' = call
  PROVE  Accesses(call)' = Accesses(call)
<1>1. \A c : Accesses(c)' = Accesses(c)
  BY SameAccesses
<1> QED BY <1>1

LEMMA NextTodo ==
  ASSUME port' = port, NEW CONSTANT c, call' = c
  PROVE  Accesses(call)' = Accesses(c)
<1>1. \A d : Accesses(d)' = Accesses(d)
  BY SameAccesses
<1> QED BY <1>1

-----------------------------------------------------------------------------
(* Where a call is: the command that piece p of call c is in, which begins  *)
(* at piece At and sends Bytes, and receives as many as it Asks for.        *)

Changes(c) == c.op \in {"write", "erase"}
Size(c) == Len(ChangeBytes(c))

At(c, p) ==
  CASE c.op = "open" -> IdAt
    [] Changes(c) -> (IF p <= 3 THEN 1 ELSE IF p <= Size(c) + 5 THEN 4 ELSE Size(c) + 6)
    [] OTHER -> 1
Bytes(c, p) ==
  CASE c.op = "open" -> IdBytes
    [] Changes(c) -> (IF p <= 3 THEN <<WRITE_ENABLE>>
                      ELSE IF p <= Size(c) + 5 THEN ChangeBytes(c) ELSE <<READ_STATUS>>)
    [] OTHER -> ReadBytes(c)
Asks(c, p) ==
  CASE c.op = "open" -> 1
    [] Changes(c) -> (IF p <= Size(c) + 5 THEN 0 ELSE 1)
    [] OTHER -> PageSize

Past(c, p) == p - At(c, p)
Last(c, p) == Len(Bytes(c, p)) + Asks(c, p) + 1
Within(c, p) ==
  /\ c.op \in {"open", "read", "write", "erase"}
  /\ Past(c, p) \in 0 .. Last(c, p)

\* What a piece outside of the commands is.
Outside(c, p, all) ==
  \/ p = Len(all) + 1
  \/ c.op = "open" /\ port = "gpio" /\ p = 1 /\ all[p] = <<Do("init", 0)>>
  \/ Changes(c) /\ p = Size(c) + 10 /\ p = Len(all) /\ all[p] = <<Do("poll", 0)>>
  \/ c.op = "deselect" /\ p = 1 /\ Len(all) = 1 /\ all[p] = SetCs(1)
  \/ c.op = "close" /\ port = "gpio" /\ p = 1 /\ Len(all) = 1 /\ all[p] = <<Do("init", 0)>>

\* Every piece of a call is in one of its commands, as located, or outside.
LEMMA Place ==
  ASSUME port \in Ports, NEW c \in Calls \cup {Calling}, NEW all, Layout(c, all),
         NEW p \in 1 .. Len(all) + 1
  PROVE  /\ At(c, p) \in Nat \ {0} /\ Bytes(c, p) \in Seq(Byte) /\ Asks(c, p) \in Nat
         /\ Len(Bytes(c, p)) \in Nat \ {0}
         /\ Within(c, p) => p <= Len(all) /\ Located(all, At(c, p), Bytes(c, p), Asks(c, p))
         /\ ~ Within(c, p) => Outside(c, p, all)
<1>1. c \in Calls \cup {Off, Idle, Calling}
  OBVIOUS
<1>2. c.op \in {"read", "write", "erase", "deselect", "close", "open"}
  <2>1. c.op \notin {"off", "idle"}
    BY DEF Calls, Calling, Op
  <2> QED BY <1>1, <2>1, CallType
<1>0. /\ Changes(c) => /\ ChangeBytes(c) \in Seq(Byte) /\ Size(c) \in Nat \ {0}
      /\ <<WRITE_ENABLE>> \in Seq(Byte) /\ Len(<<WRITE_ENABLE>>) = 1
      /\ <<READ_STATUS>> \in Seq(Byte) /\ Len(<<READ_STATUS>>) = 1
  BY <1>1, CommandBytes DEF Changes, Size
<1>3. /\ IdBytes \in Seq(Byte) /\ Len(IdBytes) = 4
      /\ ReadBytes(c) \in Seq(Byte) /\ Len(ReadBytes(c)) = 4
      /\ PageSize \in Nat \ {0}
      /\ Len(all) \in Nat /\ p \in Nat \ {0} /\ p <= Len(all) + 1
  <2>1. Len(all) \in Nat
    BY DEF Layout
  <2> QED BY <1>1, <2>1, CommandBytes
<1>4. IdAt \in 1 .. 2 /\ (IdAt = 2 <=> port = "gpio")
  BY DEF IdAt
<1>5. CASE c.op = "open"
  <2>1. /\ Len(all) = IdAt + 6 /\ Located(all, IdAt, IdBytes, 1)
        /\ port = "gpio" => all[1] = <<Do("init", 0)>>
    BY <1>5 DEF Layout
  <2>2. At(c, p) = IdAt /\ Bytes(c, p) = IdBytes /\ Asks(c, p) = 1
    BY <1>5 DEF At, Bytes, Asks, Changes
  <2>7. Bytes(c, p) \in Seq(Byte) /\ Len(Bytes(c, p)) = 4
    BY <1>3, <2>2, Zenon
  <2>3. Past(c, p) = p - IdAt /\ Last(c, p) = 6
    <3>1. Last(c, p) = 4 + 1 + 1
      BY <2>2, <2>7 DEF Last
    <3> QED BY <2>2, <3>1 DEF Past
  <2>4. Within(c, p) <=> p - IdAt \in 0 .. 6
    BY <1>5, <2>3, Zenon DEF Within
  <2>5. CASE Within(c, p)
    <3>1. p <= Len(all)
      BY <1>4, <2>1, <2>4, <2>5
    <3>2. Located(all, At(c, p), Bytes(c, p), Asks(c, p))
      BY <2>1, <2>2, Zenon
    <3> QED BY <1>4, <2>2, <2>5, <2>7, <3>1, <3>2
  <2>6. CASE ~ Within(c, p)
    <3>1. p = Len(all) + 1 \/ (p = 1 /\ IdAt = 2)
      BY <1>4, <2>1, <2>4, <2>6
    <3>2. Outside(c, p, all)
      BY <1>4, <1>5, <2>1, <3>1, Zenon DEF Outside
    <3> QED BY <1>4, <2>2, <2>6, <2>7, <3>2
  <2> QED BY <2>5, <2>6
<1>6. CASE c.op = "read"
  <2>1. Len(all) = PageSize + 6 /\ Located(all, 1, ReadBytes(c), PageSize)
    BY <1>6 DEF Layout
  <2>2. At(c, p) = 1 /\ Bytes(c, p) = ReadBytes(c) /\ Asks(c, p) = PageSize
    BY <1>6 DEF At, Bytes, Asks, Changes
  <2>7. Bytes(c, p) \in Seq(Byte) /\ Len(Bytes(c, p)) = 4
    BY <1>3, <2>2, Zenon
  <2>3. Past(c, p) = p - 1 /\ Last(c, p) = PageSize + 5
    <3>1. Past(c, p) = p - 1
      BY <2>2 DEF Past
    <3>3. Last(c, p) = 4 + PageSize + 1
      BY <2>2, <2>7 DEF Last
    <3>4. 4 + PageSize + 1 = PageSize + 5
      BY <1>3
    <3> QED BY <3>1, <3>3, <3>4
  <2>4. Within(c, p) <=> p - 1 \in 0 .. PageSize + 5
    BY <1>6, <2>3, Zenon DEF Within
  <2>5. CASE Within(c, p)
    <3>1. p <= Len(all)
      BY <1>3, <2>1, <2>4, <2>5
    <3>2. Located(all, At(c, p), Bytes(c, p), Asks(c, p))
      BY <2>1, <2>2, Zenon
    <3>3. Asks(c, p) \in Nat
      BY <1>3, <2>2
    <3> QED BY <2>2, <2>5, <2>7, <3>1, <3>2, <3>3
  <2>6. CASE ~ Within(c, p)
    <3>1. p = Len(all) + 1
      BY <1>3, <2>1, <2>4, <2>6
    <3>2. Asks(c, p) \in Nat
      BY <1>3, <2>2
    <3> QED BY <2>2, <2>6, <2>7, <3>1, <3>2 DEF Outside
  <2> QED BY <2>5, <2>6
<1>7. CASE Changes(c)
  <2> DEFINE k == Size(c)
  <2>1. /\ Len(all) = k + 10
        /\ Located(all, 1, <<WRITE_ENABLE>>, 0)
        /\ Located(all, 4, ChangeBytes(c), 0)
        /\ Located(all, k + 6, <<READ_STATUS>>, 1)
        /\ all[k + 10] = <<Do("poll", 0)>>
    BY <1>7 DEF Layout, Changes, Size
  <2>2. k \in Nat \ {0} /\ k = Len(ChangeBytes(c)) /\ c.op # "open"
    BY <1>0, <1>7 DEF Size, Changes
  <2>3. /\ At(c, p) = (IF p <= 3 THEN 1 ELSE IF p <= k + 5 THEN 4 ELSE k + 6)
        /\ Bytes(c, p) = (IF p <= 3 THEN <<WRITE_ENABLE>>
                          ELSE IF p <= k + 5 THEN ChangeBytes(c) ELSE <<READ_STATUS>>)
        /\ Asks(c, p) = (IF p <= k + 5 THEN 0 ELSE 1)
    BY <1>7, <2>2 DEF At, Bytes, Asks
  <2>4. Within(c, p) <=> Past(c, p) \in 0 .. Last(c, p)
    BY <1>7 DEF Within, Changes
  <2> HIDE DEF k
  <2>5. CASE p <= 3
    BY <1>0, <1>7, <2>1, <2>2, <2>3, <2>4, <2>5 DEF Past, Last
  <2>6. CASE p > 3 /\ p <= k + 5
    BY <1>0, <1>7, <2>1, <2>2, <2>3, <2>4, <2>6 DEF Past, Last
  <2>7. CASE p > k + 5
    <3>1. ~ (p <= 3) /\ ~ (p <= k + 5)
      BY <2>2, <2>7
    <3>2. At(c, p) = k + 6 /\ Bytes(c, p) = <<READ_STATUS>> /\ Asks(c, p) = 1
      BY <2>3, <3>1
    <3>3. Past(c, p) = p - (k + 6) /\ Last(c, p) = 3
      BY <1>0, <3>2 DEF Past, Last
    <3>4. Within(c, p) <=> p - (k + 6) \in 0 .. 3
      BY <2>4, <3>3
    <3>5. CASE Within(c, p)
      <4>1. p <= Len(all)
        BY <2>1, <2>2, <3>4, <3>5
      <4> QED BY <1>0, <2>1, <2>2, <3>2, <3>5, <4>1
    <3>6. CASE ~ Within(c, p)
      <4>1. p = k + 10 \/ p = Len(all) + 1
        BY <2>1, <2>2, <2>7, <3>4, <3>6
      <4>2. Outside(c, p, all)
        BY <1>7, <2>1, <4>1, Zenon DEF Outside, k
      <4> QED BY <1>0, <2>2, <3>2, <3>6, <4>2
    <3> QED BY <3>5, <3>6
  <2> QED BY <2>2, <2>5, <2>6, <2>7
<1>8. CASE c.op \in {"deselect", "close"}
  <2>1. At(c, p) = 1 /\ Bytes(c, p) = ReadBytes(c) /\ Asks(c, p) = PageSize
    BY <1>8 DEF At, Bytes, Asks, Changes
  <2>2. ~ Within(c, p)
    BY <1>8 DEF Within
  <2>3. Outside(c, p, all)
    BY <1>8 DEF Layout, Outside
  <2>4. Bytes(c, p) \in Seq(Byte) /\ Len(Bytes(c, p)) = 4
    BY <1>3, <2>1, Zenon
  <2>5. Asks(c, p) \in Nat
    BY <1>3, <2>1
  <2> QED BY <2>1, <2>2, <2>3, <2>4, <2>5
<1> QED BY <1>2, <1>5, <1>6, <1>7, <1>8 DEF Changes

\* The places of each call, in numbers.
LEMMA Numbers ==
  ASSUME NEW c \in Calls \cup {Calling}, NEW p \in Nat \ {0}
  PROVE  /\ c.op \in {"read", "write", "erase", "deselect", "close", "open"}
         /\ PageSize \in Nat \ {0} /\ IdAt \in 1 .. 2
         /\ c.op = "open" =>
              /\ At(c, p) = IdAt /\ Bytes(c, p) = IdBytes /\ Asks(c, p) = 1
              /\ Len(Bytes(c, p)) = 4 /\ Past(c, p) = p - IdAt /\ Last(c, p) = 6
              /\ Within(c, p) <=> p - IdAt \in 0 .. 6
         /\ c.op = "read" =>
              /\ At(c, p) = 1 /\ Bytes(c, p) = ReadBytes(c) /\ Asks(c, p) = PageSize
              /\ Len(Bytes(c, p)) = 4 /\ Past(c, p) = p - 1 /\ Last(c, p) = PageSize + 5
              /\ Within(c, p) <=> p - 1 \in 0 .. PageSize + 5
         /\ Changes(c) =>
              LET k == Size(c) IN
              /\ k \in Nat \ {0}
              /\ At(c, p) = (IF p <= 3 THEN 1 ELSE IF p <= k + 5 THEN 4 ELSE k + 6)
              /\ Bytes(c, p) = (IF p <= 3 THEN <<WRITE_ENABLE>>
                                ELSE IF p <= k + 5 THEN ChangeBytes(c) ELSE <<READ_STATUS>>)
              /\ Asks(c, p) = (IF p <= k + 5 THEN 0 ELSE 1)
              /\ Len(Bytes(c, p)) = (IF p <= 3 THEN 1 ELSE IF p <= k + 5 THEN k ELSE 1)
              /\ Past(c, p) = p - (IF p <= 3 THEN 1 ELSE IF p <= k + 5 THEN 4 ELSE k + 6)
              /\ Last(c, p) = (IF p <= 3 THEN 2 ELSE IF p <= k + 5 THEN k + 1 ELSE 3)
              /\ Within(c, p) <=> p <= k + 9
         /\ c.op \in {"deselect", "close"} => ~ Within(c, p)
         /\ Len(Bytes(c, p)) \in Nat /\ Asks(c, p) \in Nat
         /\ Last(c, p) = Len(Bytes(c, p)) + Asks(c, p) + 1 /\ Past(c, p) \in Int
<1>1. c \in Calls \cup {Off, Idle, Calling}
  OBVIOUS
<1>2. c.op \in {"read", "write", "erase", "deselect", "close", "open"}
  <2>1. c.op \notin {"off", "idle"}
    BY DEF Calls, Calling, Op
  <2> QED BY <1>1, <2>1, CallType
<1>3. /\ Len(IdBytes) = 4 /\ Len(ReadBytes(c)) = 4 /\ PageSize \in Nat \ {0}
      /\ Changes(c) => Size(c) \in Nat \ {0}
      /\ Len(<<WRITE_ENABLE>>) = 1 /\ Len(<<READ_STATUS>>) = 1
  <2>1. Changes(c) => ChangeBytes(c) \in Seq(Byte) /\ Len(ChangeBytes(c)) \in Nat \ {0}
    BY <1>1, CommandBytes DEF Changes
  <2> QED BY <1>1, <2>1, CommandBytes DEF Size
<1>4. IdAt \in 1 .. 2
  BY DEF IdAt
<1>5. /\ Past(c, p) = p - At(c, p)
      /\ Last(c, p) = Len(Bytes(c, p)) + Asks(c, p) + 1
  BY DEF Past, Last
<1>6. CASE c.op = "open"
  <2>1. At(c, p) = IdAt /\ Bytes(c, p) = IdBytes /\ Asks(c, p) = 1 /\ ~ Changes(c)
    BY <1>6 DEF At, Bytes, Asks, Changes
  <2>2. Len(Bytes(c, p)) = 4
    BY <1>3, <2>1
  <2>3. Past(c, p) = p - IdAt /\ Last(c, p) = 6
    BY <1>5, <2>1, <2>2
  <2>4. Within(c, p) <=> p - IdAt \in 0 .. 6
    BY <1>6, <2>3, Zenon DEF Within
  <2> QED BY <1>3, <1>4, <1>5, <1>6, <2>1, <2>2, <2>3, <2>4
<1>7. CASE c.op = "read"
  <2>1. /\ At(c, p) = 1 /\ Bytes(c, p) = ReadBytes(c) /\ Asks(c, p) = PageSize
        /\ ~ Changes(c)
    BY <1>7 DEF At, Bytes, Asks, Changes
  <2>2. Len(Bytes(c, p)) = 4
    BY <1>3, <2>1
  <2>3. Past(c, p) = p - 1 /\ Last(c, p) = PageSize + 5
    <3>1. Past(c, p) = p - 1 /\ Last(c, p) = 4 + PageSize + 1
      BY <1>5, <2>1, <2>2
    <3>2. 4 + PageSize + 1 = PageSize + 5
      BY <1>3
    <3> QED BY <3>1, <3>2
  <2>4. Within(c, p) <=> p - 1 \in 0 .. PageSize + 5
    BY <1>7, <2>3, Zenon DEF Within
  <2> QED BY <1>3, <1>4, <1>5, <1>7, <2>1, <2>2, <2>3, <2>4
<1>8. CASE Changes(c)
  <2> DEFINE k == Size(c)
  <2>1. /\ k \in Nat \ {0} /\ k = Len(ChangeBytes(c))
        /\ c.op # "open" /\ c.op # "read" /\ c.op \notin {"deselect", "close"}
    BY <1>3, <1>8 DEF Size, Changes
  <2>2. /\ At(c, p) = (IF p <= 3 THEN 1 ELSE IF p <= k + 5 THEN 4 ELSE k + 6)
        /\ Bytes(c, p) = (IF p <= 3 THEN <<WRITE_ENABLE>>
                          ELSE IF p <= k + 5 THEN ChangeBytes(c) ELSE <<READ_STATUS>>)
        /\ Asks(c, p) = (IF p <= k + 5 THEN 0 ELSE 1)
    BY <1>8, <2>1 DEF At, Bytes, Asks
  <2>3. Within(c, p) <=> Past(c, p) \in 0 .. Last(c, p)
    BY <1>8 DEF Within, Changes
  <2> HIDE DEF k
  <2>4. Len(Bytes(c, p)) = (IF p <= 3 THEN 1 ELSE IF p <= k + 5 THEN k ELSE 1)
    BY <1>3, <2>1, <2>2
  <2>5. Last(c, p) = (IF p <= 3 THEN 2 ELSE IF p <= k + 5 THEN k + 1 ELSE 3)
    <3>1. CASE p <= 3
      BY <1>5, <2>1, <2>2, <2>4, <3>1
    <3>2. CASE ~ (p <= 3) /\ p <= k + 5
      BY <1>5, <2>1, <2>2, <2>4, <3>2
    <3>3. CASE ~ (p <= 3) /\ ~ (p <= k + 5)
      BY <1>5, <2>1, <2>2, <2>4, <3>3
    <3> QED BY <3>1, <3>2, <3>3
  <2>6. Past(c, p) = p - (IF p <= 3 THEN 1 ELSE IF p <= k + 5 THEN 4 ELSE k + 6)
    BY <1>5, <2>2
  <2>7. Within(c, p) <=> p <= k + 9
    BY <2>1, <2>3, <2>5, <2>6
  <2>8. Len(Bytes(c, p)) \in Nat /\ Asks(c, p) \in Nat /\ Past(c, p) \in Int
    BY <2>1, <2>2, <2>4, <2>6
  <2> HIDE DEF Changes
  <2> QED BY <1>2, <1>3, <1>4, <1>5, <1>8, <2>1, <2>2, <2>4, <2>5, <2>6, <2>7, <2>8 DEF k
<1>9. CASE c.op \in {"deselect", "close"}
  <2>1. ~ Within(c, p) /\ ~ Changes(c)
    BY <1>9 DEF Within, Changes
  <2>2. At(c, p) = 1 /\ Bytes(c, p) = ReadBytes(c) /\ Asks(c, p) = PageSize
    BY <1>9 DEF At, Bytes, Asks, Changes
  <2>3. Len(Bytes(c, p)) = 4
    BY <1>3, <2>2
  <2> QED BY <1>3, <1>4, <1>5, <1>9, <2>1, <2>2, <2>3
<1> QED BY <1>2, <1>6, <1>7, <1>8, <1>9 DEF Changes

\* The place after a place: further on in the command, or before the next.
LEMMA NextPlace ==
  ASSUME NEW c \in Calls \cup {Calling}, NEW p \in Nat \ {0}
  PROVE  /\ Within(c, p) /\ Past(c, p) < Last(c, p) =>
              /\ At(c, p + 1) = At(c, p) /\ Bytes(c, p + 1) = Bytes(c, p)
              /\ Asks(c, p + 1) = Asks(c, p) /\ Last(c, p + 1) = Last(c, p)
              /\ Past(c, p + 1) = Past(c, p) + 1 /\ Within(c, p + 1)
         /\ ~ Within(c, p) \/ Past(c, p) = Last(c, p) =>
              ~ Within(c, p + 1) \/ Past(c, p + 1) = 0
         /\ Within(c, 1) => Past(c, 1) = 0
         /\ Changes(c) /\ p = Size(c) + 10 =>
              p - 4 \in Nat \ {0} /\ Within(c, p - 4) /\ Past(c, p - 4) = 0
<1>1. p + 1 \in Nat \ {0} /\ 1 \in Nat \ {0}
  OBVIOUS
<1>2. c.op \in {"read", "write", "erase", "deselect", "close", "open"}
  BY Numbers
<1>3. CASE c.op = "open"
  <2>1. IdAt \in 1 .. 2 /\ ~ Changes(c)
    BY <1>3, Numbers DEF Changes
  <2>2. \A n \in Nat \ {0} :
          /\ At(c, n) = IdAt /\ Bytes(c, n) = IdBytes /\ Asks(c, n) = 1
          /\ Past(c, n) = n - IdAt /\ Last(c, n) = 6
          /\ Within(c, n) <=> n - IdAt \in 0 .. 6
    BY <1>3, Numbers
  <2> QED BY <1>1, <2>1, <2>2
<1>4. CASE c.op = "read"
  <2>1. PageSize \in Nat \ {0} /\ ~ Changes(c)
    BY <1>4, Numbers DEF Changes
  <2>2. \A n \in Nat \ {0} :
          /\ At(c, n) = 1 /\ Bytes(c, n) = ReadBytes(c) /\ Asks(c, n) = PageSize
          /\ Past(c, n) = n - 1 /\ Last(c, n) = PageSize + 5
          /\ Within(c, n) <=> n - 1 \in 0 .. PageSize + 5
    BY <1>4, Numbers
  <2> QED BY <1>1, <2>1, <2>2
<1>5. CASE Changes(c)
  <2> DEFINE k == Size(c)
  <2>1. k \in Nat \ {0}
    BY <1>5, Numbers
  <2> HIDE DEF k
  <2>2. \A n \in Nat \ {0} :
          /\ At(c, n) = (IF n <= 3 THEN 1 ELSE IF n <= k + 5 THEN 4 ELSE k + 6)
          /\ Bytes(c, n) = (IF n <= 3 THEN <<WRITE_ENABLE>>
                            ELSE IF n <= k + 5 THEN ChangeBytes(c) ELSE <<READ_STATUS>>)
          /\ Asks(c, n) = (IF n <= k + 5 THEN 0 ELSE 1)
    BY <1>5, Numbers DEF k
  <2>3. \A n \in Nat \ {0} :
          /\ Past(c, n) = n - (IF n <= 3 THEN 1 ELSE IF n <= k + 5 THEN 4 ELSE k + 6)
          /\ Last(c, n) = (IF n <= 3 THEN 2 ELSE IF n <= k + 5 THEN k + 1 ELSE 3)
          /\ Within(c, n) <=> n <= k + 9
    BY <1>5, Numbers DEF k
  <2>4. ASSUME Within(c, p), Past(c, p) < Last(c, p)
        PROVE  /\ At(c, p + 1) = At(c, p) /\ Bytes(c, p + 1) = Bytes(c, p)
               /\ Asks(c, p + 1) = Asks(c, p) /\ Last(c, p + 1) = Last(c, p)
               /\ Past(c, p + 1) = Past(c, p) + 1 /\ Within(c, p + 1)
    <3>1. /\ (p <= 3 <=> p + 1 <= 3) /\ (p <= k + 5 <=> p + 1 <= k + 5) /\ p + 1 <= k + 9
      BY <2>1, <2>3, <2>4
    <3>2. At(c, p + 1) = At(c, p) /\ Asks(c, p + 1) = Asks(c, p)
      BY <1>1, <2>2, <3>1
    <3>3. Bytes(c, p + 1) = Bytes(c, p)
      <4>1. CASE p <= 3
        BY <1>1, <2>2, <3>1, <4>1, Zenon
      <4>2. CASE ~ (p <= 3) /\ p <= k + 5
        BY <1>1, <2>2, <3>1, <4>2, Zenon
      <4>3. CASE ~ (p <= 3) /\ ~ (p <= k + 5)
        BY <1>1, <2>2, <3>1, <4>3, Zenon
      <4> QED BY <4>1, <4>2, <4>3
    <3>4. Last(c, p + 1) = Last(c, p) /\ Past(c, p + 1) = Past(c, p) + 1
      BY <1>1, <2>1, <2>3, <3>1
    <3> QED BY <1>1, <2>3, <3>1, <3>2, <3>3, <3>4
  <2>5. ASSUME ~ Within(c, p) \/ Past(c, p) = Last(c, p)
        PROVE  ~ Within(c, p + 1) \/ Past(c, p + 1) = 0
    <3>1. p = 3 \/ p = k + 5 \/ p >= k + 9
      BY <2>1, <2>3, <2>5
    <3> QED BY <1>1, <2>1, <2>3, <3>1
  <2>6. Within(c, 1) => Past(c, 1) = 0
    BY <1>1, <2>3
  <2>7. p = k + 10 => p - 4 \in Nat \ {0} /\ Within(c, p - 4) /\ Past(c, p - 4) = 0
    BY <2>1, <2>3
  <2> QED BY <2>4, <2>5, <2>6, <2>7 DEF k
<1>6. CASE c.op \in {"deselect", "close"}
  <2>1. \A n \in Nat \ {0} : ~ Within(c, n)
    BY <1>6, Numbers
  <2>2. ~ Changes(c)
    BY <1>6 DEF Changes
  <2> QED BY <1>1, <2>1, <2>2
<1> QED BY <1>2, <1>3, <1>4, <1>5, <1>6 DEF Changes

-----------------------------------------------------------------------------
(* The accesses of the pieces *)

Poll == <<Do("poll", 0)>>
Reset == <<Do("init", 0)>>

\* A step of a gpio byte is the first, second or third of the steps of a bit.
LEMMA BitSteps ==
  ASSUME NEW s \in 1 .. 3 * ByteBits
  PROVE  \E t \in 0 .. ByteBits - 1 : s \in {3 * t + 1, 3 * t + 2, 3 * t + 3}
<1>1. ByteBits \in Nat \ {0}
  BY PortAssumption
<1> DEFINE t == (s - 1) \div 3
<1>2. t \in 0 .. ByteBits - 1 /\ s \in {3 * t + 1, 3 * t + 2, 3 * t + 3}
  BY <1>1
<1> QED BY <1>2

\* The pieces of each port, access by access.
Is(access, what, v) == access.what = what /\ access.v = v

Hm2Table ==
  /\ Len(Prefix) = 1 /\ Is(Prefix[1], "cs", 0)
  /\ Len(Suffix) = 1 /\ Is(Suffix[1], "cs", 1)
  /\ Len(SetCs(1)) = 1 /\ Is(SetCs(1)[1], "cs", 1)
  /\ \A b \in Byte : /\ Len(SendByte(b)) = 2
                     /\ Is(SendByte(b)[1], "shift", b) /\ Is(SendByte(b)[2], "wait", 0)
  /\ Len(RecvByte) = 3 /\ Is(RecvByte[1], "shift", 0)
  /\ Is(RecvByte[2], "wait", 0) /\ Is(RecvByte[3], "take", 0)
IoTable ==
  /\ Len(Prefix) = 1 /\ Is(Prefix[1], "cs", 0)
  /\ Len(Suffix) = 1 /\ Is(Suffix[1], "cs", 1)
  /\ Len(SetCs(1)) = 1 /\ Is(SetCs(1)[1], "cs", 1)
  /\ \A b \in Byte : Len(SendByte(b)) = 1 /\ Is(SendByte(b)[1], "shift", b)
  /\ Len(RecvByte) = 3 /\ Is(RecvByte[1], "shift", 0)
  /\ Is(RecvByte[2], "wait", 0) /\ Is(RecvByte[3], "take", 0)
EppTable ==
  /\ Len(Prefix) = 2 /\ Is(Prefix[1], "select", CS_REG) /\ Is(Prefix[2], "cs", 0)
  /\ Len(Suffix) = 2 /\ Is(Suffix[1], "select", CS_REG) /\ Is(Suffix[2], "cs", 1)
  /\ Len(SetCs(1)) = 2 /\ Is(SetCs(1)[1], "select", CS_REG) /\ Is(SetCs(1)[2], "cs", 1)
  /\ \A b \in Byte : /\ Len(SendByte(b)) = 2
                     /\ Is(SendByte(b)[1], "select", SREG_REG)
                     /\ Is(SendByte(b)[2], "shift", b)
  /\ Len(RecvByte) = 6
  /\ Is(RecvByte[1], "select", SREG_REG) /\ Is(RecvByte[2], "shift", 0)
  /\ Is(RecvByte[3], "select", CS_REG) /\ Is(RecvByte[4], "wait", 0)
  /\ Is(RecvByte[5], "select", SREG_REG) /\ Is(RecvByte[6], "take", 0)
GpioTable ==
  /\ Len(Prefix) = 4 /\ Is(Prefix[1], "cs", 1) /\ Is(Prefix[2], "din", 0)
  /\ Is(Prefix[3], "clk", 0) /\ Is(Prefix[4], "cs", 0)
  /\ Len(Suffix) = 2 /\ Is(Suffix[1], "cs", 1) /\ Is(Suffix[2], "din", 0)
  /\ Len(SetCs(1)) = 1 /\ Is(SetCs(1)[1], "cs", 1)
  /\ \A b \in Byte : /\ Len(SendByte(b)) = 3 * ByteBits
                     /\ \A t \in 0 .. ByteBits - 1 :
                          /\ Is(SendByte(b)[3 * t + 1], "din", Bit(b, t))
                          /\ Is(SendByte(b)[3 * t + 2], "clk", 1)
                          /\ Is(SendByte(b)[3 * t + 3], "clk", 0)
  /\ Len(RecvByte) = 3 * ByteBits
  /\ \A t \in 0 .. ByteBits - 1 :
       /\ Is(RecvByte[3 * t + 1], "bit", t)
       /\ Is(RecvByte[3 * t + 2], "clk", 1)
       /\ Is(RecvByte[3 * t + 3], "clk", 0)

LEMMA Tables ==
  ASSUME port \in Ports
  PROVE  /\ port \in {"hm2", "gpio", "io", "epp"} /\ ByteBits \in Nat \ {0}
         /\ port = "hm2" => Hm2Table
         /\ port = "io" => IoTable
         /\ port = "epp" => EppTable
         /\ port = "gpio" => GpioTable
<1>1. port \in {"hm2", "gpio", "io", "epp"} /\ ByteBits \in Nat \ {0}
  BY PortAssumption
<1>2. ASSUME port = "hm2" PROVE Hm2Table
  BY <1>2 DEF Is, Do, Hm2Table, Prefix, Suffix, SetCs, SetCsHm2, SendByte, SendByteHm2, RecvByte,
              RecvByteHm2
<1>3. ASSUME port = "io" PROVE IoTable
  BY <1>3 DEF Is, Do, IoTable, Prefix, Suffix, SetCs, SetCsIo, SendByte, SendByteIo, RecvByte,
              RecvByteIo
<1>4. ASSUME port = "epp" PROVE EppTable
  <2>1. Prefix = SetCsEpp(0) /\ Suffix = SetCsEpp(1) /\ SetCs(1) = SetCsEpp(1)
    BY <1>4 DEF Prefix, Suffix, SetCs
  <2>2. \A b \in Byte : SendByte(b) = SendByteEpp(b)
    BY <1>4 DEF SendByte
  <2>3. RecvByte = RecvByteEpp
    BY <1>4 DEF RecvByte
  <2>4. \A b \in Byte : /\ Len(SendByteEpp(b)) = 2
                        /\ Is(SendByteEpp(b)[1], "select", SREG_REG)
                        /\ Is(SendByteEpp(b)[2], "shift", b)
    BY DEF SendByteEpp, Is, Do
  <2>5. /\ Len(SetCsEpp(0)) = 2 /\ Is(SetCsEpp(0)[1], "select", CS_REG)
        /\ Is(SetCsEpp(0)[2], "cs", 0)
        /\ Len(SetCsEpp(1)) = 2 /\ Is(SetCsEpp(1)[1], "select", CS_REG)
        /\ Is(SetCsEpp(1)[2], "cs", 1)
    BY DEF SetCsEpp, Is, Do
  <2>6. \A what, v : Is(Do(what, v), what, v)
    BY DEF Is, Do
  <2>7. /\ Len(RecvByteEpp) = 6
        /\ Is(RecvByteEpp[1], "select", SREG_REG) /\ Is(RecvByteEpp[2], "shift", 0)
        /\ Is(RecvByteEpp[3], "select", CS_REG) /\ Is(RecvByteEpp[4], "wait", 0)
        /\ Is(RecvByteEpp[5], "select", SREG_REG) /\ Is(RecvByteEpp[6], "take", 0)
    BY <2>6, EppReceives
  <2> QED BY <2>1, <2>2, <2>3, <2>4, <2>5, <2>7 DEF EppTable
<1>5. ASSUME port = "gpio" PROVE GpioTable
  <2>1. Prefix = PrefixGpio /\ Suffix = SuffixGpio /\ SetCs(1) = SetCsGpio(1)
    BY <1>5 DEF Prefix, Suffix, SetCs
  <2>2. \A b \in Byte : SendByte(b) = SendByteGpio(b) /\ b \in Int
    BY <1>5, ByteType DEF SendByte
  <2>3. RecvByte = RecvByteGpio
    BY <1>5 DEF RecvByte
  <2>4. /\ Len(PrefixGpio) = 4 /\ Is(PrefixGpio[1], "cs", 1) /\ Is(PrefixGpio[2], "din", 0)
        /\ Is(PrefixGpio[3], "clk", 0) /\ Is(PrefixGpio[4], "cs", 0)
        /\ Len(SuffixGpio) = 2 /\ Is(SuffixGpio[1], "cs", 1) /\ Is(SuffixGpio[2], "din", 0)
        /\ Len(SetCsGpio(1)) = 1 /\ Is(SetCsGpio(1)[1], "cs", 1)
    BY DEF PrefixGpio, SuffixGpio, SetCsGpio, Is, Do
  <2>5. \A what, v : Is(Do(what, v), what, v)
    BY DEF Is, Do
  <2>6. ASSUME NEW b \in Byte
        PROVE  /\ Len(SendByte(b)) = 3 * ByteBits
               /\ \A t \in 0 .. ByteBits - 1 :
                    /\ Is(SendByte(b)[3 * t + 1], "din", Bit(b, t))
                    /\ Is(SendByte(b)[3 * t + 2], "clk", 1)
                    /\ Is(SendByte(b)[3 * t + 3], "clk", 0)
    BY <2>2, <2>5, GpioBytes
  <2>7. /\ Len(RecvByte) = 3 * ByteBits
        /\ \A t \in 0 .. ByteBits - 1 :
             /\ Is(RecvByte[3 * t + 1], "bit", t)
             /\ Is(RecvByte[3 * t + 2], "clk", 1)
             /\ Is(RecvByte[3 * t + 3], "clk", 0)
    BY <2>3, <2>5, GpioBytes
  <2> QED BY <2>1, <2>4, <2>6, <2>7 DEF GpioTable
<1> QED BY <1>1, <1>2, <1>3, <1>4, <1>5

\* The pieces that receive nothing.
Plain == {Prefix, Suffix, SetCs(1)} \cup {SendByte(b) : b \in Byte}
Silent == Plain \cup {Poll} \cup (IF port = "gpio" THEN {Reset} ELSE {})

Valued(what, v) ==
  /\ what \in {"cs", "din", "clk"} => v \in 0 .. 1
  /\ what = "select" => v \in {CS_REG, SREG_REG}
  /\ what = "shift" => v \in Byte
  /\ what \in {"din", "clk"} => port = "gpio"
  /\ what = "shift" => port # "gpio"
  /\ what = "select" => port = "epp"

Fine(access) ==
  /\ access.what \in {"cs", "din", "clk", "bit", "shift", "select", "wait", "take"}
  /\ Valued(access.what, access.v)

LEMMA FineAccess ==
  ASSUME NEW r
  PROVE  /\ Is(r, "cs", 0) => Fine(r)
         /\ Is(r, "cs", 1) => Fine(r)
         /\ Is(r, "wait", 0) => Fine(r)
         /\ Is(r, "take", 0) => Fine(r)
         /\ port = "epp" /\ Is(r, "select", CS_REG) => Fine(r)
         /\ port = "epp" /\ Is(r, "select", SREG_REG) => Fine(r)
         /\ \A b \in Byte : port # "gpio" /\ Is(r, "shift", b) => Fine(r)
         /\ \A v \in 0 .. 1 : port = "gpio" /\ Is(r, "din", v) => Fine(r)
         /\ \A v \in 0 .. 1 : port = "gpio" /\ Is(r, "clk", v) => Fine(r)
         /\ \A t : Is(r, "bit", t) => Fine(r)
BY DEF Is, Fine, Valued

\* What the access of a piece that receives nothing can be ...
LEMMA SilentAccess ==
  ASSUME port \in Ports, NEW x \in Silent, NEW s \in 1 .. Len(x)
  PROVE  /\ x[s].what \in {"cs", "din", "clk", "shift", "select", "wait", "init", "poll"}
         /\ Valued(x[s].what, x[s].v)
         /\ x \in Plain => x[s].what \notin {"init", "poll"}
<1> DEFINE Good(y, i) == Fine(y[i]) /\ y[i].what \notin {"bit", "take"}
<1>1. /\ port \in {"hm2", "gpio", "io", "epp"} /\ ByteBits \in Nat \ {0}
      /\ port = "hm2" => Hm2Table
      /\ port = "io" => IoTable
      /\ port = "epp" => EppTable
      /\ port = "gpio" => GpioTable
  BY Tables
<1>2. Byte \subseteq Int /\ 0 \in 0 .. 1 /\ 1 \in 0 .. 1
  BY ByteType
<1>3. \A r : /\ Is(r, "cs", 0) => Fine(r) /\ r.what \notin {"bit", "take"}
             /\ Is(r, "cs", 1) => Fine(r) /\ r.what \notin {"bit", "take"}
             /\ Is(r, "wait", 0) => Fine(r) /\ r.what \notin {"bit", "take"}
             /\ port = "epp" /\ Is(r, "select", CS_REG) => Fine(r) /\ r.what \notin {"bit", "take"}
             /\ port = "epp" /\ Is(r, "select", SREG_REG) => Fine(r) /\ r.what \notin {"bit", "take"}
             /\ \A b \in Byte : port # "gpio" /\ Is(r, "shift", b) =>
                                  Fine(r) /\ r.what \notin {"bit", "take"}
             /\ \A v \in 0 .. 1 : port = "gpio" /\ (Is(r, "din", v) \/ Is(r, "clk", v)) =>
                                    Fine(r) /\ r.what \notin {"bit", "take"}
  BY FineAccess DEF Is
<1>4. ASSUME x \in {Prefix, Suffix, SetCs(1)} PROVE Good(x, s)
  <2>1. CASE port = "hm2"
    <3>1. Len(x) = 1 /\ (Is(x[1], "cs", 0) \/ Is(x[1], "cs", 1))
      BY <1>1, <1>4, <2>1 DEF Hm2Table
    <3>2. s = 1
      BY <3>1
    <3> QED BY <1>3, <3>1, <3>2
  <2>2. CASE port = "io"
    <3>1. Len(x) = 1 /\ (Is(x[1], "cs", 0) \/ Is(x[1], "cs", 1))
      BY <1>1, <1>4, <2>2 DEF IoTable
    <3>2. s = 1
      BY <3>1
    <3> QED BY <1>3, <3>1, <3>2
  <2>3. CASE port = "epp"
    <3>1. /\ Len(x) = 2 /\ Is(x[1], "select", CS_REG)
          /\ Is(x[2], "cs", 0) \/ Is(x[2], "cs", 1)
      BY <1>1, <1>4, <2>3 DEF EppTable
    <3>2. s = 1 \/ s = 2
      BY <3>1
    <3> QED BY <1>3, <2>3, <3>1, <3>2
  <2>4. CASE port = "gpio"
    <3>1. GpioTable
      BY <1>1, <2>4
    <3>2. \/ Is(x[s], "cs", 1) \/ Is(x[s], "din", 0)
          \/ Is(x[s], "clk", 0) \/ Is(x[s], "cs", 0)
      <4>1. CASE x = Prefix
        <5>1. /\ Len(x) = 4 /\ Is(x[1], "cs", 1) /\ Is(x[2], "din", 0)
              /\ Is(x[3], "clk", 0) /\ Is(x[4], "cs", 0)
          BY <3>1, <4>1 DEF GpioTable
        <5>2. s \in {1, 2, 3, 4}
          BY <5>1
        <5> QED BY <5>1, <5>2
      <4>2. CASE x = Suffix
        <5>1. Len(x) = 2 /\ Is(x[1], "cs", 1) /\ Is(x[2], "din", 0)
          BY <3>1, <4>2 DEF GpioTable
        <5>2. s \in {1, 2}
          BY <5>1
        <5> QED BY <5>1, <5>2
      <4>3. CASE x = SetCs(1)
        <5>1. Len(x) = 1 /\ Is(x[1], "cs", 1)
          BY <3>1, <4>3 DEF GpioTable
        <5>2. s = 1
          BY <5>1
        <5> QED BY <5>1, <5>2
      <4> QED BY <1>4, <4>1, <4>2, <4>3
    <3> QED BY <1>2, <1>3, <2>4, <3>2
  <2> QED BY <1>1, <2>1, <2>2, <2>3, <2>4
<1>5. ASSUME NEW b \in Byte, x = SendByte(b) PROVE Good(x, s)
  <2>1. CASE port = "hm2"
    <3>1. Len(x) = 2 /\ Is(x[1], "shift", b) /\ Is(x[2], "wait", 0)
      BY <1>1, <1>5, <2>1 DEF Hm2Table
    <3>2. s = 1 \/ s = 2
      BY <3>1
    <3> QED BY <1>3, <2>1, <3>1, <3>2
  <2>2. CASE port = "io"
    <3>1. Len(x) = 1 /\ Is(x[1], "shift", b)
      BY <1>1, <1>5, <2>2 DEF IoTable
    <3>2. s = 1
      BY <3>1
    <3> QED BY <1>3, <2>2, <3>1, <3>2
  <2>3. CASE port = "epp"
    <3>1. Len(x) = 2 /\ Is(x[1], "select", SREG_REG) /\ Is(x[2], "shift", b)
      BY <1>1, <1>5, <2>3 DEF EppTable
    <3>2. s = 1 \/ s = 2
      BY <3>1
    <3> QED BY <1>3, <2>3, <3>1, <3>2
  <2>4. CASE port = "gpio"
    <3>1. /\ Len(x) = 3 * ByteBits
          /\ \A t \in 0 .. ByteBits - 1 :
               /\ Is(x[3 * t + 1], "din", Bit(b, t))
               /\ Is(x[3 * t + 2], "clk", 1) /\ Is(x[3 * t + 3], "clk", 0)
      BY <1>1, <1>5, <2>4 DEF GpioTable
    <3>2. PICK t \in 0 .. ByteBits - 1 : s \in {3 * t + 1, 3 * t + 2, 3 * t + 3}
      BY <3>1, BitSteps
    <3>3. Bit(b, t) \in 0 .. 1
      BY <1>2, BitType
    <3>4. \E v \in 0 .. 1 : Is(x[s], "din", v) \/ Is(x[s], "clk", v)
      BY <1>2, <3>1, <3>2, <3>3
    <3> QED BY <1>3, <2>4, <3>4
  <2> QED BY <1>1, <2>1, <2>2, <2>3, <2>4
<1>6. ASSUME x = Poll PROVE x[s].what = "poll" /\ Valued(x[s].what, x[s].v)
  BY <1>6 DEF Poll, Do, Valued
<1>7. ASSUME port = "gpio", x = Reset PROVE x[s].what = "init" /\ Valued(x[s].what, x[s].v)
  BY <1>7 DEF Reset, Do, Valued
<1>8. ASSUME Good(x, s)
      PROVE  /\ x[s].what \in {"cs", "din", "clk", "shift", "select", "wait"}
             /\ Valued(x[s].what, x[s].v)
  BY <1>8 DEF Fine
<1> HIDE DEF Good
<1>9. x \in Plain => Good(x, s)
  BY <1>4, <1>5 DEF Plain
<1> QED BY <1>6, <1>7, <1>8, <1>9 DEF Silent

\* ... and that of the piece that receives a byte.
LEMMA RecvAccess ==
  ASSUME port \in Ports, NEW s \in 1 .. Len(RecvByte)
  PROVE  /\ RecvByte[s].what \in {"bit", "clk", "shift", "select", "wait", "take"}
         /\ Valued(RecvByte[s].what, RecvByte[s].v)
         /\ RecvByte[s].what = "bit" =>
              /\ port = "gpio" /\ RecvByte[s].v \in 0 .. ByteBits - 1
              /\ s = 3 * RecvByte[s].v + 1
         /\ port = "gpio" => \A t \in 0 .. ByteBits - 1 :
                               s = 3 * t + 1 => RecvByte[s].what = "bit"
         /\ port = "gpio" => Len(RecvByte) = 3 * ByteBits
         /\ port # "gpio" => (RecvByte[s].what = "take" <=> s = Len(RecvByte))
         /\ port = "gpio" => RecvByte[s].what # "take"
<1>1. /\ port \in {"hm2", "gpio", "io", "epp"} /\ ByteBits \in Nat \ {0}
      /\ port = "hm2" => Hm2Table
      /\ port = "io" => IoTable
      /\ port = "epp" => EppTable
      /\ port = "gpio" => GpioTable
  BY Tables
<1>2. 0 \in Byte
  BY ByteType
<1> DEFINE r == RecvByte[s]
<1>3. ASSUME Fine(r)
      PROVE  Valued(RecvByte[s].what, RecvByte[s].v)
  BY <1>3 DEF Fine
<1>4. CASE port \in {"hm2", "io"}
  <2>1. /\ Len(RecvByte) = 3 /\ Is(RecvByte[1], "shift", 0)
        /\ Is(RecvByte[2], "wait", 0) /\ Is(RecvByte[3], "take", 0)
    BY <1>1, <1>4 DEF Hm2Table, IoTable
  <2>2. s = 1 \/ s = 2 \/ s = 3
    BY <2>1
  <2>3. Fine(r)
    BY <1>2, <1>4, <2>1, <2>2, FineAccess
  <2>4. r.what \in {"shift", "wait", "take"} /\ (r.what = "take" <=> s = 3)
    BY <2>1, <2>2 DEF Is
  <2> QED BY <1>3, <1>4, <2>1, <2>3, <2>4
<1>5. CASE port = "epp"
  <2>1. /\ Len(RecvByte) = 6
        /\ Is(RecvByte[1], "select", SREG_REG) /\ Is(RecvByte[2], "shift", 0)
        /\ Is(RecvByte[3], "select", CS_REG) /\ Is(RecvByte[4], "wait", 0)
        /\ Is(RecvByte[5], "select", SREG_REG) /\ Is(RecvByte[6], "take", 0)
    BY <1>1, <1>5 DEF EppTable
  <2>2. s \in {1, 2, 3, 4, 5, 6}
    BY <2>1
  <2>3. Fine(r)
    BY <1>2, <1>5, <2>1, <2>2, FineAccess
  <2>4. r.what \in {"select", "shift", "wait", "take"} /\ (r.what = "take" <=> s = 6)
    BY <2>1, <2>2 DEF Is
  <2> QED BY <1>3, <1>5, <2>1, <2>3, <2>4
<1>6. CASE port = "gpio"
  <2>1. /\ Len(RecvByte) = 3 * ByteBits
        /\ \A t \in 0 .. ByteBits - 1 :
             /\ Is(RecvByte[3 * t + 1], "bit", t)
             /\ Is(RecvByte[3 * t + 2], "clk", 1) /\ Is(RecvByte[3 * t + 3], "clk", 0)
    BY <1>1, <1>6 DEF GpioTable
  <2>2. PICK t \in 0 .. ByteBits - 1 : s \in {3 * t + 1, 3 * t + 2, 3 * t + 3}
    BY <2>1, BitSteps
  <2>3. (Is(r, "bit", t) /\ s = 3 * t + 1) \/ Is(r, "clk", 1) \/ Is(r, "clk", 0)
    BY <2>1, <2>2
  <2>4. Fine(r)
    <3>1. 0 \in 0 .. 1 /\ 1 \in 0 .. 1
      OBVIOUS
    <3> QED BY <1>6, <2>3, <3>1, FineAccess
  <2>5. r.what \in {"bit", "clk"} /\ (r.what = "bit" => r.v = t /\ s = 3 * t + 1)
    BY <2>3 DEF Is
  <2>6. \A u \in 0 .. ByteBits - 1 : s = 3 * u + 1 => r.what = "bit"
    BY <2>1 DEF Is
  <2> QED BY <1>3, <1>6, <2>1, <2>4, <2>5, <2>6
<1> QED BY <1>1, <1>4, <1>5, <1>6

-----------------------------------------------------------------------------
(* Bytes that the program has received in the call, at step s of piece p:   *)
(* a gpio byte is there from its first bit.                                 *)

Receiving(c, p) ==
  Within(c, p) /\ Past(c, p) \in Len(Bytes(c, p)) + 1 .. Len(Bytes(c, p)) + Asks(c, p)

Begun(s) == IF port = "gpio" /\ s > 1 THEN 1 ELSE 0
Filled(c, p, s) ==
  IF c.op = "open"
    THEN IF p < IdAt + 5 THEN 0 ELSE IF p = IdAt + 5 THEN Begun(s) ELSE 1
  ELSE IF c.op = "read"
    THEN IF p <= 5 THEN 0 ELSE IF p <= PageSize + 5 THEN p - 6 + Begun(s) ELSE PageSize
  ELSE IF Changes(c)
    THEN IF p <= Size(c) + 7 THEN 0 ELSE IF p = Size(c) + 8 THEN Begun(s)
         ELSE IF p <= Size(c) + 10 THEN 1 ELSE 0
  ELSE 0

LEMMA ReceivingAt ==
  ASSUME NEW c \in Calls \cup {Calling}, NEW p \in Nat \ {0}
  PROVE  /\ c.op = "open" => (Receiving(c, p) <=> p = IdAt + 5)
         /\ c.op = "read" => (Receiving(c, p) <=> p > 5 /\ p <= PageSize + 5)
         /\ Changes(c) => (Receiving(c, p) <=> p = Size(c) + 8)
         /\ c.op \in {"deselect", "close"} => ~ Receiving(c, p)
<1> DEFINE q == Past(c, p)   m == Len(Bytes(c, p))   n == Asks(c, p)
<1>1. PageSize \in Nat \ {0} /\ IdAt \in 1 .. 2
  BY Numbers
<1>2. Receiving(c, p) <=> Within(c, p) /\ q \in m + 1 .. m + n
  BY DEF Receiving
<1>3. ASSUME c.op = "open" PROVE Receiving(c, p) <=> p = IdAt + 5
  <2>1. q = p - IdAt /\ m = 4 /\ n = 1 /\ (Within(c, p) <=> p - IdAt \in 0 .. 6)
    BY <1>3, Numbers
  <2> HIDE DEF q, m, n
  <2> QED BY <1>1, <1>2, <2>1
<1>4. ASSUME c.op = "read" PROVE Receiving(c, p) <=> p > 5 /\ p <= PageSize + 5
  <2>1. q = p - 1 /\ m = 4 /\ n = PageSize /\ (Within(c, p) <=> p - 1 \in 0 .. PageSize + 5)
    BY <1>4, Numbers
  <2> HIDE DEF q, m, n
  <2> QED BY <1>1, <1>2, <2>1
<1>5. ASSUME Changes(c) PROVE Receiving(c, p) <=> p = Size(c) + 8
  <2> DEFINE k == Size(c)
  <2>1. /\ k \in Nat \ {0}
        /\ n = (IF p <= k + 5 THEN 0 ELSE 1)
        /\ m = (IF p <= 3 THEN 1 ELSE IF p <= k + 5 THEN k ELSE 1)
        /\ q = p - (IF p <= 3 THEN 1 ELSE IF p <= k + 5 THEN 4 ELSE k + 6)
        /\ Within(c, p) <=> p <= k + 9
    BY <1>5, Numbers
  <2> HIDE DEF q, m, n, k
  <2> QED BY <1>2, <2>1 DEF k
<1>6. ASSUME c.op \in {"deselect", "close"} PROVE ~ Receiving(c, p)
  <2>1. ~ Within(c, p)
    BY <1>6, Numbers
  <2> QED BY <1>2, <2>1
<1> QED BY <1>3, <1>4, <1>5, <1>6

LEMMA FilledNext ==
  ASSUME NEW c \in Calls \cup {Calling}, NEW p \in Nat \ {0}, NEW s \in Nat \ {0}
  PROVE  /\ Filled(c, p, s) \in 0 .. PageSize
         /\ Filled(c, 1, 1) = 0
         /\ Receiving(c, p) =>
              /\ port # "gpio" => /\ Filled(c, p, s + 1) = Filled(c, p, s)
                                  /\ Filled(c, p + 1, 1) = Filled(c, p, s) + 1
              /\ port = "gpio" => /\ Filled(c, p, s + 1) = Filled(c, p, 1) + 1
                                  /\ s > 1 => /\ Filled(c, p, s) = Filled(c, p, 1) + 1
                                              /\ Filled(c, p + 1, 1) = Filled(c, p, s)
         /\ ~ Receiving(c, p) =>
              /\ Filled(c, p, s + 1) = Filled(c, p, s)
              /\ ~ (Changes(c) /\ p = Size(c) + 10) =>
                    Filled(c, p + 1, 1) = Filled(c, p, s)
         /\ Changes(c) /\ p = Size(c) + 10 =>
              /\ Filled(c, p, s) = 1 /\ Filled(c, p - 4, 1) = 0 /\ Filled(c, p + 1, 1) = 0
         /\ c.op = "open" /\ p = IdAt + 7 => Filled(c, p, s) = 1
<1>1. /\ c.op \in {"read", "write", "erase", "deselect", "close", "open"}
      /\ PageSize \in Nat \ {0} /\ IdAt \in 1 .. 2
      /\ p + 1 \in Nat \ {0} /\ 1 \in Nat \ {0} /\ s + 1 \in Nat \ {0}
  BY Numbers
<1>2. /\ Begun(1) = 0
      /\ port # "gpio" => Begun(s) = 0 /\ Begun(s + 1) = 0
      /\ port = "gpio" => Begun(s + 1) = 1 /\ (s > 1 => Begun(s) = 1)
      /\ Begun(s) \in 0 .. 1
  BY DEF Begun
<1>3. CASE c.op = "open"
  <2>1. ~ Changes(c)
    BY <1>3 DEF Changes
  <2>2. Receiving(c, p) <=> p = IdAt + 5
    BY <1>3, ReceivingAt
  <2>3. \A n, i : Filled(c, n, i) =
          (IF n < IdAt + 5 THEN 0 ELSE IF n = IdAt + 5 THEN Begun(i) ELSE 1)
    BY <1>3 DEF Filled
  <2> QED BY <1>1, <1>2, <2>1, <2>2, <2>3
<1>4. CASE c.op = "read"
  <2>1. ~ Changes(c) /\ c.op # "open"
    BY <1>4 DEF Changes
  <2>2. Receiving(c, p) <=> p > 5 /\ p <= PageSize + 5
    BY <1>4, ReceivingAt
  <2>3. \A n, i : Filled(c, n, i) =
          (IF n <= 5 THEN 0 ELSE IF n <= PageSize + 5 THEN n - 6 + Begun(i) ELSE PageSize)
    BY <1>4 DEF Filled
  <2> QED BY <1>1, <1>2, <2>1, <2>2, <2>3
<1>5. CASE Changes(c)
  <2> DEFINE k == Size(c)
  <2>1. k \in Nat \ {0} /\ c.op # "open" /\ c.op # "read"
    BY <1>5, Numbers DEF Changes
  <2>2. Receiving(c, p) <=> p = k + 8
    BY <1>5, ReceivingAt
  <2>3. \A n, i : Filled(c, n, i) =
          (IF n <= k + 7 THEN 0 ELSE IF n = k + 8 THEN Begun(i)
           ELSE IF n <= k + 10 THEN 1 ELSE 0)
    BY <1>5, <2>1 DEF Filled
  <2> HIDE DEF k
  <2>4. /\ Filled(c, p, s) = (IF p <= k + 7 THEN 0 ELSE IF p = k + 8 THEN Begun(s)
                              ELSE IF p <= k + 10 THEN 1 ELSE 0)
        /\ Filled(c, p, s + 1) = (IF p <= k + 7 THEN 0 ELSE IF p = k + 8 THEN Begun(s + 1)
                                  ELSE IF p <= k + 10 THEN 1 ELSE 0)
        /\ Filled(c, p, 1) = (IF p <= k + 7 THEN 0 ELSE IF p = k + 8 THEN 0
                              ELSE IF p <= k + 10 THEN 1 ELSE 0)
        /\ Filled(c, p + 1, 1) = (IF p + 1 <= k + 7 THEN 0 ELSE IF p + 1 = k + 8 THEN 0
                                  ELSE IF p + 1 <= k + 10 THEN 1 ELSE 0)
        /\ Filled(c, 1, 1) = 0
        /\ p = k + 10 => Filled(c, p - 4, 1) = 0
    BY <1>2, <2>1, <2>3
  <2>5. k = Size(c)
    BY DEF k
  <2>6. CASE p < k + 7
    BY <1>1, <1>2, <2>1, <2>2, <2>4, <2>5, <2>6
  <2>7. CASE p = k + 7
    BY <1>1, <1>2, <2>1, <2>2, <2>4, <2>5, <2>7
  <2>8. CASE p = k + 8
    BY <1>1, <1>2, <2>1, <2>2, <2>4, <2>5, <2>8
  <2>9. CASE p = k + 9
    BY <1>1, <1>2, <2>1, <2>2, <2>4, <2>5, <2>9
  <2>10. CASE p = k + 10
    <3>1. Filled(c, p, s) = 1 /\ Filled(c, p, s + 1) = 1 /\ Filled(c, p + 1, 1) = 0
      BY <2>1, <2>4, <2>10
    <3>2. Filled(c, p - 4, 1) = 0 /\ Filled(c, 1, 1) = 0
      BY <2>4, <2>10
    <3>3. ~ Receiving(c, p) /\ 1 \in 0 .. PageSize
      BY <1>1, <2>1, <2>2, <2>10
    <3> QED BY <1>5, <2>1, <2>5, <2>10, <3>1, <3>2, <3>3
  <2>11. CASE p > k + 10
    BY <1>1, <1>2, <2>1, <2>2, <2>4, <2>5, <2>11
  <2> QED BY <2>1, <2>6, <2>7, <2>8, <2>9, <2>10, <2>11
<1>6. CASE c.op \in {"deselect", "close"}
  <2>1. ~ Changes(c) /\ c.op # "open" /\ c.op # "read"
    BY <1>6 DEF Changes
  <2>2. \A n, i : Filled(c, n, i) = 0
    BY <2>1 DEF Filled
  <2>3. ~ Receiving(c, p)
    BY <1>6, ReceivingAt
  <2> QED BY <1>1, <2>1, <2>2, <2>3
<1> QED BY <1>1, <1>3, <1>4, <1>5, <1>6 DEF Changes

-----------------------------------------------------------------------------
(* The state of a call *)

Active == call \notin {Off, Idle}

\* What the place of a call says of its next access.
LEMMA Where ==
  ASSUME TypeOK, Running
  PROVE  LET q == Past(call, piece)  b == Bytes(call, piece)  m == Len(b)
             last == Last(call, piece)  in == Within(call, piece) IN
         /\ Active /\ call \in Calls \cup {Calling}
         /\ port \in Ports /\ Layout(call, todo)
         /\ piece \in Nat \ {0} /\ piece + 1 \in 1 .. Len(todo) + 1
         /\ step \in 1 .. Len(Now) /\ Len(Now) \in Nat \ {0} /\ Now \in Kinds
         /\ b \in Seq(Byte) /\ m \in Nat \ {0} /\ q \in Int /\ last \in Nat
         /\ in /\ q = 0 => Now = Prefix
         /\ in /\ q \in 1 .. m => Now = SendByte(b[q]) /\ b[q] \in Byte
         /\ in /\ q = last => Now = Suffix
         /\ Receiving(call, piece) => Now = RecvByte
         /\ ~ Receiving(call, piece) => Now \in Silent
         /\ Now[step].what \in {"init", "poll"} => ~ in
         /\ Now[step].what = "init" =>
              /\ port = "gpio" /\ call.op \in {"open", "close"} /\ piece = 1 /\ Len(Now) = 1
         /\ Now[step].what = "poll" =>
              /\ Changes(call) /\ piece = Size(call) + 10 /\ piece = Len(todo) /\ Len(Now) = 1
         /\ ~ in => \/ Now[step].what \in {"init", "poll"}
                    \/ call.op = "deselect" /\ Now = SetCs(1) /\ piece = 1 /\ Len(todo) = 1
<1> DEFINE q == Past(call, piece)  b == Bytes(call, piece)  m == Len(b)
           n == Asks(call, piece)  last == Last(call, piece)  in == Within(call, piece)
           at == At(call, piece)
<1>1. /\ port \in Ports /\ piece \in 1 .. Len(todo) + 1 /\ step \in Nat \ {0}
      /\ piece <= Len(todo) /\ step <= Len(Now)
      /\ todo = IF call \in {Off, Idle} THEN <<>> ELSE Accesses(call)
      /\ call \in Calls \cup {Off, Idle, Calling}
  BY DEF TypeOK, Running, Calling
<1>2. Active
  <2>1. SUFFICES ASSUME call \in {Off, Idle} PROVE FALSE
    BY DEF Active
  <2>2. todo = <<>>
    BY <1>1, <2>1
  <2>3. Len(todo) = 0
    BY <2>2
  <2> QED BY <1>1, <2>3
<1>3. call \in Calls \cup {Calling} /\ todo = Accesses(call)
  BY <1>1, <1>2 DEF Active
<1>4. Layout(call, todo)
  BY <1>1, <1>3, CallLayout
<1>5. todo \in Seq(Kinds) /\ Len(todo) \in Nat
  <2>1. todo \in Seq(Kinds)
    BY <1>4 DEF Layout
  <2> QED BY <2>1
<1>6. piece \in 1 .. Len(todo) /\ Now \in Kinds
  BY <1>1, <1>5 DEF Now
<1>7. Len(Now) \in Nat \ {0}
  BY <1>1, <1>6, KindsType
<1>8. /\ at \in Nat \ {0} /\ b \in Seq(Byte) /\ n \in Nat /\ m \in Nat \ {0}
      /\ in => Located(todo, at, b, n)
      /\ ~ in => Outside(call, piece, todo)
  BY <1>1, <1>3, <1>4, Place
<1>9. q = piece - at /\ last = m + n + 1 /\ (in => q \in 0 .. last)
  BY DEF Past, Last, Within
<1>10. /\ Receiving(call, piece) <=> in /\ q \in m + 1 .. m + n
  BY DEF Receiving
<1>11. piece = at + q
  BY <1>6, <1>8, <1>9
<1> HIDE DEF q, b, m, n, last, in, at
<1>12. ASSUME in
       PROVE  /\ q = 0 => Now = Prefix
              /\ q \in 1 .. m => Now = SendByte(b[q])
              /\ q \in m + 1 .. m + n => Now = RecvByte
              /\ q = last => Now = Suffix
  <2>1. /\ todo[at] = Prefix
        /\ \A i \in 1 .. m : todo[at + i] = SendByte(b[i])
        /\ \A i \in 1 .. n : todo[at + m + i] = RecvByte
        /\ todo[at + m + n + 1] = Suffix
    BY <1>8, <1>12 DEF Located, m
  <2>2. Now = todo[at + q]
    BY <1>11 DEF Now
  <2>3. ASSUME q \in m + 1 .. m + n PROVE Now = RecvByte
    <3>1. q - m \in 1 .. n /\ at + m + (q - m) = at + q
      BY <1>8, <2>3
    <3> QED BY <2>1, <2>2, <3>1
  <2>4. q = last => at + q = at + m + n + 1
    BY <1>8, <1>9
  <2>5. q = 0 => at + q = at
    BY <1>8
  <2> QED BY <2>1, <2>2, <2>3, <2>4, <2>5
<1>13. \A i \in 1 .. m : b[i] \in Byte
  BY <1>8 DEF m
<1>14. ASSUME in, ~ Receiving(call, piece) PROVE Now \in Plain
  <2>1. q = 0 \/ q \in 1 .. m \/ q = last
    BY <1>8, <1>9, <1>10, <1>14
  <2> QED BY <1>12, <1>13, <1>14, <2>1 DEF Plain
<1>15. ASSUME ~ in
       PROVE  \/ call.op \in {"open", "close"} /\ port = "gpio" /\ piece = 1 /\ Now = Reset
              \/ Changes(call) /\ piece = Size(call) + 10 /\ piece = Len(todo) /\ Now = Poll
              \/ call.op = "deselect" /\ Now = SetCs(1) /\ piece = 1 /\ Len(todo) = 1
  BY <1>5, <1>6, <1>8, <1>15 DEF Outside, Now, Reset, Poll
<1>16. ASSUME ~ Receiving(call, piece) PROVE Now \in Silent
  <2>1. CASE in
    BY <1>14, <1>16, <2>1 DEF Silent
  <2>2. CASE ~ in
    BY <1>15, <2>2 DEF Silent, Plain
  <2> QED BY <2>1, <2>2
<1>17. step \in 1 .. Len(Now)
  BY <1>1, <1>7
<1>18. in => Now[step].what \notin {"init", "poll"}
  <2>1. CASE Receiving(call, piece)
    <3>1. Now = RecvByte
      BY <1>10, <1>12, <2>1
    <3>2. step \in 1 .. Len(RecvByte)
      BY <1>17, <3>1
    <3>3. RecvByte[step].what \notin {"init", "poll"}
      BY <1>1, <3>2, RecvAccess
    <3> QED BY <3>1, <3>3
  <2>2. CASE in /\ ~ Receiving(call, piece)
    BY <1>1, <1>14, <1>16, <1>17, <2>2, SilentAccess
  <2> QED BY <1>10, <2>1, <2>2
<1>19. ASSUME ~ in
       PROVE  \/ /\ Now[step].what = "init" /\ port = "gpio" /\ call.op \in {"open", "close"}
                 /\ piece = 1 /\ Len(Now) = 1
              \/ /\ Now[step].what = "poll" /\ Changes(call) /\ piece = Size(call) + 10
                 /\ piece = Len(todo) /\ Len(Now) = 1
              \/ /\ Now[step].what \notin {"init", "poll"} /\ call.op = "deselect"
                 /\ Now = SetCs(1) /\ piece = 1 /\ Len(todo) = 1
  <2>1. CASE Now = Reset
    <3>1. Len(Now) = 1 /\ Now[1].what = "init"
      BY <2>1 DEF Reset, Do
    <3>2. step = 1
      BY <1>17, <3>1
    <3>3. /\ Now # Poll
      BY <2>1, <3>1 DEF Poll, Do
    <3>4. Now # SetCs(1)
      <4>1. SetCs(1) \in Silent /\ SetCs(1) \in Plain
        BY DEF Silent, Plain
      <4> QED BY <1>1, <1>17, <3>1, <3>2, <4>1, SilentAccess
    <3> QED BY <1>15, <1>19, <3>1, <3>2, <3>3, <3>4
  <2>2. CASE Now = Poll
    <3>1. Len(Now) = 1 /\ Now[1].what = "poll"
      BY <2>2 DEF Poll, Do
    <3>2. step = 1
      BY <1>17, <3>1
    <3>3. /\ Now # Reset
      BY <2>2, <3>1 DEF Reset, Do
    <3>4. Now # SetCs(1)
      <4>1. SetCs(1) \in Silent /\ SetCs(1) \in Plain
        BY DEF Silent, Plain
      <4> QED BY <1>1, <1>17, <3>1, <3>2, <4>1, SilentAccess
    <3> QED BY <1>15, <1>19, <3>1, <3>2, <3>3, <3>4
  <2>3. CASE Now = SetCs(1)
    <3>1. SetCs(1) \in Silent /\ SetCs(1) \in Plain
      BY DEF Silent, Plain
    <3>2. Now[step].what \notin {"init", "poll"}
      BY <1>1, <1>17, <2>3, <3>1, SilentAccess
    <3>3. Now # Reset /\ Now # Poll
      <4>1. Now = Reset \/ Now = Poll => Len(Now) = 1 /\ Now[1].what \in {"init", "poll"}
        BY DEF Reset, Poll, Do
      <4>2. Len(Now) = 1 => step = 1
        BY <1>17
      <4> QED BY <3>2, <4>1, <4>2
    <3> QED BY <1>15, <1>19, <3>2, <3>3
  <2> QED BY <1>15, <1>19, <2>1, <2>2, <2>3
<1>20. piece \in Nat \ {0} /\ piece + 1 \in 1 .. Len(todo) + 1 /\ q \in Int /\ last \in Nat
  BY <1>5, <1>6, <1>8, <1>9
<1>21. \A i \in 1 .. m : i = q => b[q] \in Byte
  BY <1>13
<1> QED BY <1>1, <1>2, <1>3, <1>4, <1>6, <1>7, <1>8, <1>10, <1>12, <1>16, <1>17, <1>18, <1>19,
           <1>20, <1>21 DEF q, b, m, last, in

-----------------------------------------------------------------------------
(* The type invariant: TypeOK, what the wiring of a port settles, and how   *)
(* much of the answer the program has.                                      *)

Control ==
  /\ port \in Ports
  /\ call \in Calls \cup {Off, Idle, Calling}
  /\ todo = IF call \in {Off, Idle} THEN <<>> ELSE Accesses(call)
  /\ piece \in 1 .. Len(todo) + 1 /\ step \in Nat \ {0}
  /\ Running => step <= Len(Now)
Received == buff \in Seq(Byte) /\ Len(buff) <= PageSize /\ id \in Byte \cup {Unread}
Wired ==
  /\ GPIO_reg_val \in Registers /\ line \in Registers /\ sel \in {CS_REG, SREG_REG}
  /\ shift \in Byte \cup {Empty} /\ data \in Byte
Chip ==
  /\ got \in Seq(Byte \cup {NoCommand})
  /\ bits \in 0 .. ByteBits - 1 /\ part \in 0 .. TwoTo[bits] - 1
  /\ mem \in Memory /\ wel \in BOOLEAN /\ wip \in BOOLEAN
Counted ==
  /\ calls \in 0 .. MaxCalls /\ crashes \in 0 .. MaxCrashes /\ faults \in 0 .. MaxFaults
  /\ goal \in Memory
  /\ cut \in [busy : BOOLEAN, selected : BOOLEAN, writing : BOOLEAN]
  /\ exposed \subseteq Addresses

Basics ==
  /\ port # "gpio" => bits = 0 /\ part = 0 /\ line.clk = 0
  /\ port = "gpio" => shift = Empty
  /\ line.cs = 1 => got = <<>> /\ bits = 0 /\ part = 0

\* A gpio byte under way leaves room for the bits to come.
Roomy(t) == buff[Len(buff)] + Weight(t) <= TwoTo[ByteBits]
Answered ==
  Active =>
    /\ Len(buff) = Filled(call, piece, step)
    /\ port = "gpio" /\ Receiving(call, piece) =>
         \A t \in 0 .. ByteBits - 1 : step \in {3 * t + 2, 3 * t + 3, 3 * t + 4} => Roomy(t)

TypeInv == TypeOK /\ Basics /\ Answered

LEMMA Parts ==
  /\ TypeOK <=> Control /\ Received /\ Wired /\ Chip /\ Counted
  /\ TypeOK' <=> Control' /\ Received' /\ Wired' /\ Chip' /\ Counted'
BY DEF TypeOK, Control, Received, Wired, Chip, Counted, Calling

\* A process that makes no step of its call.
LEMMA ControlSame ==
  ASSUME Control, UNCHANGED <<port, call, todo, piece, step>>
  PROVE  Control'
<1>1. Accesses(call)' = Accesses(call)
  BY SameTodo
<1>2. Now' = Now /\ (Running' <=> Running)
  BY DEF Now, Running
<1> QED BY <1>1, <1>2 DEF Control

\* A step forward: within the piece, or to the beginning of the next.
LEMMA ControlNext ==
  ASSUME TypeOK, Running, Advance, UNCHANGED <<port, call, todo>>
  PROVE  /\ Control'
         /\ \/ step < Len(Now) /\ step' = step + 1 /\ piece' = piece
            \/ step = Len(Now) /\ step' = 1 /\ piece' = piece + 1
<1>1. Control
  BY Parts
<1>2. /\ piece \in Nat \ {0} /\ piece + 1 \in 1 .. Len(todo) + 1 /\ piece <= Len(todo)
      /\ step \in 1 .. Len(Now) /\ Len(Now) \in Nat \ {0} /\ Layout(call, todo)
  BY Where DEF Running
<1>3. \/ step < Len(Now) /\ step' = step + 1 /\ piece' = piece
      \/ step = Len(Now) /\ step' = 1 /\ piece' = piece + 1
  BY <1>2 DEF Advance
<1>4. todo' = IF call' \in {Off, Idle} THEN <<>> ELSE Accesses(call)'
  BY <1>1, SameTodo DEF Control
<1>5. piece' \in 1 .. Len(todo)' + 1 /\ step' \in Nat \ {0}
  BY <1>2, <1>3
<1>6. Running' => step' <= Len(Now)'
  <2>1. CASE step' = step + 1 /\ piece' = piece /\ step < Len(Now)
    <3>1. Now' = Now
      BY <2>1 DEF Now
    <3> QED BY <1>2, <2>1, <3>1
  <2>2. CASE step' = 1 /\ piece' = piece + 1
    <3>1. ASSUME Running' PROVE Len(Now)' \in Nat \ {0}
      <4>1. todo \in Seq(Kinds)
        BY <1>2 DEF Layout
      <4>2. piece + 1 <= Len(todo)
        BY <2>2, <3>1 DEF Running
      <4>3. todo[piece + 1] \in Kinds
        BY <1>2, <4>1, <4>2
      <4>4. Len(todo[piece + 1]) \in Nat \ {0}
        BY <1>1, <4>3, KindsType DEF Control
      <4>5. Now' = todo[piece + 1]
        BY <2>2 DEF Now
      <4> QED BY <4>4, <4>5
    <3> QED BY <2>2, <3>1
  <2> QED BY <1>3, <2>1, <2>2
<1>7. Control'
  BY <1>1, <1>4, <1>5, <1>6 DEF Control
<1> QED BY <1>3, <1>7

\* The chip keeps to its types.
LEMMA Sizes ==
  /\ PageSize \in Nat \ {0} /\ SectorPages \in Nat \ {0} /\ Sectors \in Nat \ {0}
  /\ Sectors * SectorPages * PageSize \in Nat \ {0}
  /\ SectorPages * PageSize \in Nat \ {0}
  /\ 0 \in Addresses /\ ByteBits \in Nat \ {0} /\ Byte \subseteq Int
<1>1. TwoTo[ByteBits] \in Nat /\ Byte \subseteq Int
  BY ByteType
<1>2. PageSize \in Nat \ {0} /\ SectorPages \in Nat \ {0} /\ Sectors \in Nat \ {0}
  BY <1>1, PortAssumption
<1>3. Sectors * SectorPages \in Nat \ {0} /\ SectorPages * PageSize \in Nat \ {0}
  BY <1>2
<1>4. (Sectors * SectorPages) * PageSize \in Nat \ {0}
  BY <1>2, <1>3
<1> QED BY <1>1, <1>2, <1>3, <1>4, PortAssumption DEF Addresses

LEMMA GotType ==
  ASSUME Chip
  PROVE  /\ Len(got) \in Nat
         /\ \A i \in 1 .. Len(got) : got[i] \in Byte \cup {NoCommand} /\ got[i] \in Int
<1> DEFINE S == Byte \cup {NoCommand}
<1>1. S \subseteq Int
  BY ByteType DEF NoCommand
<1>2. got \in Seq(S)
  BY DEF Chip
<1> HIDE DEF S
<1>3. Len(got) \in Nat /\ \A i \in 1 .. Len(got) : got[i] \in S
  BY <1>2
<1> QED BY <1>1, <1>3 DEF S

LEMMA OutByteType ==
  ASSUME Chip
  PROVE  OutByte \in Byte
<1> DEFINE size == Sectors * SectorPages * PageSize
<1>1. size \in Nat \ {0} /\ Addresses = 0 .. size - 1
  BY Sizes DEF Addresses
<1>2. Ones \in Byte /\ FlashId \in Byte /\ 0 \in Byte /\ 1 \in Byte
  BY ByteType, PortAssumption
<1>3. ASSUME Len(got) >= 4
      PROVE  mem[(Target + Len(got) - 4) % size] \in Byte
  <2>1. /\ got[2] \in Int /\ got[3] \in Int /\ got[4] \in Int /\ Len(got) \in Nat
    <3>1. Len(got) \in Nat /\ \A i \in 1 .. Len(got) : got[i] \in Int
      BY GotType
    <3>2. 2 \in 1 .. Len(got) /\ 3 \in 1 .. Len(got) /\ 4 \in 1 .. Len(got)
      BY <1>3, <3>1
    <3> QED BY <3>1, <3>2
  <2>2. Base \in Int
    <3>1. /\ PageSize \in Nat \ {0} /\ SectorPages \in Nat \ {0} /\ Sectors \in Nat \ {0}
      BY Sizes
    <3>2. (got[2] % Sectors) \in Int /\ (got[3] % SectorPages) \in Int
      BY <2>1, <3>1
    <3> DEFINE a == got[2] % Sectors   b == got[3] % SectorPages
    <3> HIDE DEF a, b
    <3>3. (a * SectorPages + b) * PageSize \in Int
      BY <3>1, <3>2 DEF a, b
    <3> QED BY <3>3 DEF Base, a, b
  <2>3. Target \in Int
    BY <2>1, <2>2, Sizes DEF Target
  <2> HIDE DEF size
  <2>4. (Target + Len(got) - 4) % size \in 0 .. size - 1
    BY <1>1, <2>1, <2>3
  <2> QED BY <1>1, <2>4 DEF Chip, Memory
<1> QED BY <1>2, <1>3 DEF OutByte

LEMMA TookType ==
  ASSUME Chip, NEW b \in Byte
  PROVE  /\ Took(b) \in Seq(Byte \cup {NoCommand})
         /\ got = <<>> => Took(b) = <<NoCommand>> \/ Took(b) = <<b>>
         /\ Len(Took(b)) = Len(got) + 1 /\ Len(got) \in Nat
         /\ \A i \in 1 .. Len(got) : Took(b)[i] = got[i]
         /\ Took(b)[Len(got) + 1] = b \/ (got = <<>> /\ wip /\ b # READ_STATUS)
<1> DEFINE S == Byte \cup {NoCommand}
<1>1. got \in Seq(S) /\ b \in S /\ NoCommand \in S
  BY DEF Chip
<1> HIDE DEF S
<1>2. CASE got = <<>> /\ wip /\ b # READ_STATUS
  <2>1. Took(b) = <<NoCommand>>
    BY <1>2 DEF Took
  <2> QED BY <1>1, <1>2, <2>1 DEF S
<1>3. CASE ~ (got = <<>> /\ wip /\ b # READ_STATUS)
  <2>1. Took(b) = Append(got, b)
    BY <1>3 DEF Took
  <2>2. /\ Append(got, b) \in Seq(S) /\ Len(Append(got, b)) = Len(got) + 1
        /\ Append(got, b)[Len(got) + 1] = b
        /\ \A i \in 1 .. Len(got) : Append(got, b)[i] = got[i]
    BY <1>1
  <2>3. got = <<>> => Append(got, b) = <<b>>
    OBVIOUS
  <2> QED BY <1>1, <2>1, <2>2, <2>3 DEF S
<1> QED BY <1>2, <1>3

LEMMA MemoryWritten ==
  ASSUME Chip
  PROVE  /\ Writes => Programmed \in Memory
         /\ SectorErased \in Memory
<1>1. Ones \in Byte /\ Byte \subseteq Int
  BY ByteType
<1>2. SectorErased \in Memory
  BY <1>1 DEF Chip, SectorErased, Memory
<1>3. ASSUME Writes PROVE Programmed \in Memory
  <2> DEFINE f(x) == {k \in 5 .. Len(got) : Base + ((got[4] + k - 5) % PageSize) = x}
             d(x) == CHOOSE k \in f(x) : \A j \in f(x) : j <= k
             w(x) == IF f(x) = {} THEN mem[x] ELSE And(mem[x], got[d(x)])
  <2>1. Programmed = [x \in Addresses |-> w(x)]
    BY DEF Programmed
  <2>2. ASSUME NEW x \in Addresses PROVE w(x) \in Byte
    <3>1. mem[x] \in Byte
      BY DEF Chip, Memory
    <3>2. CASE f(x) = {}
      BY <3>1, <3>2
    <3>3. CASE f(x) # {}
      <4>1. d(x) \in 5 .. Len(got)
        <5>1. \E k \in f(x) : \A j \in f(x) : j <= k
          <6> DEFINE n == Len(got)
          <6>1. n \in Nat /\ f(x) \subseteq 5 .. n
            BY GotType
          <6> DEFINE T == {n - k : k \in f(x)}
          <6>2. T \subseteq Nat /\ T # {}
            BY <3>3, <6>1
          <6>3. PICK t \in T : \A u \in T : ~ (<<u, t>> \in OpToRel(<, Nat))
            <7> HIDE DEF T
            <7> QED BY <6>2, NatLessThanWellFounded, WFMin
          <6>4. \A u \in T : ~ (u < t)
            <7> HIDE DEF T
            <7>1. \A u \in T : u \in Nat /\ t \in Nat
              BY <6>2, <6>3
            <7> QED BY <6>3, <7>1, Zenon DEF OpToRel
          <6>5. PICK k \in f(x) : t = n - k
            BY <6>3
          <6>6. \A j \in f(x) : n - j \in T
            OBVIOUS
          <6>7. \A j \in f(x) : j <= k
            <7> SUFFICES ASSUME NEW j \in f(x) PROVE j <= k
              OBVIOUS
            <7>1. ~ (n - j < n - k)
              BY <6>4, <6>5, <6>6
            <7>2. j \in Int /\ k \in Int
              BY <6>1
            <7> HIDE DEF f
            <7> QED BY <6>1, <7>1, <7>2
          <6> QED BY <6>5, <6>7
        <5>2. d(x) \in f(x)
          <6> HIDE DEF f
          <6> QED BY <5>1
        <5> QED BY <5>2
      <4>2. got[d(x)] \in Int
        <5> HIDE DEF d
        <5>1. d(x) \in 1 .. Len(got)
          BY <4>1, GotType
        <5> QED BY <5>1, GotType
      <4>3. And(mem[x], got[d(x)]) \in Byte
        <5> HIDE DEF d
        <5> QED BY <1>1, <3>1, <4>2, AndType
      <4> HIDE DEF d, f
      <4> QED BY <3>3, <4>3
    <3> QED BY <3>2, <3>3
  <2> HIDE DEF w
  <2> QED BY <2>1, <2>2 DEF Memory
<1> QED BY <1>2, <1>3

LEMMA DeselectedType ==
  ASSUME Chip, Deselected
  PROVE  Chip' /\ got' = <<>> /\ bits' = 0 /\ part' = 0
<1>1. got' = <<>> /\ bits' = 0 /\ part' = 0
  BY DEF Deselected
<1>2. wip' \in BOOLEAN /\ wel' \in BOOLEAN
  <2>1. Writes \in BOOLEAN /\ Erases \in BOOLEAN
    BY DEF Writes, Erases, Chip, Whole
  <2>2. (Whole /\ got = <<WRITE_ENABLE>>) \in BOOLEAN
    BY DEF Whole
  <2> QED BY <2>1, <2>2, Zenon DEF Deselected, Chip
<1>3. mem' \in Memory
  <2>1. (mem' = Programmed /\ Writes) \/ mem' = SectorErased \/ mem' = mem
    BY DEF Deselected
  <2> QED BY <2>1, MemoryWritten DEF Chip
<1>4. 0 \in 0 .. ByteBits - 1 /\ 0 \in 0 .. TwoTo[0] - 1
  BY Sizes, PowersOfTwo
<1>5. <<>> \in Seq(Byte \cup {NoCommand})
  OBVIOUS
<1> QED BY <1>1, <1>2, <1>3, <1>4, <1>5, Zenon DEF Chip

\* A rising clock brings a bit.
LEMMA BitTaken ==
  ASSUME Chip, NEW b \in 0 .. 1
  PROVE  /\ bits + 1 < ByteBits =>
              /\ bits + 1 \in 0 .. ByteBits - 1
              /\ 2 * part + b \in 0 .. TwoTo[bits + 1] - 1
         /\ ~ (bits + 1 < ByteBits) => bits = ByteBits - 1 /\ 2 * part + b \in Byte
<1>1. /\ ByteBits \in Nat \ {0} /\ bits \in 0 .. ByteBits - 1 /\ bits \in Nat
      /\ part \in 0 .. TwoTo[bits] - 1
  BY Sizes DEF Chip
<1>2. TwoTo[bits] \in Nat \ {0} /\ TwoTo[bits + 1] = 2 * TwoTo[bits]
  BY <1>1, PowersOfTwo
<1>3. 2 * part + b \in 0 .. TwoTo[bits + 1] - 1
  BY <1>1, <1>2
<1>4. ~ (bits + 1 < ByteBits) => bits + 1 = ByteBits
  BY <1>1
<1> QED BY <1>1, <1>3, <1>4 DEF Byte

LEMMA LinesType ==
  ASSUME Chip, line \in Registers, Basics, NEW new \in Registers, Lines(new),
         port # "gpio" => new.clk = 0
  PROVE  /\ Chip' /\ line' = new /\ line' \in Registers
         /\ new.cs = 1 => got' = <<>> /\ bits' = 0 /\ part' = 0
         /\ port # "gpio" => bits' = 0 /\ part' = 0
<1>1. line' = new
  BY DEF Lines
<1>2. /\ line.cs \in 0 .. 1 /\ line.clk \in 0 .. 1
      /\ new.cs \in 0 .. 1 /\ new.clk \in 0 .. 1 /\ new.din \in 0 .. 1
  BY DEF Registers
<1>3. CASE line.cs = 0 /\ new.cs = 1
  <2>1. Deselected
    BY <1>3 DEF Lines
  <2> QED BY <1>1, <2>1, DeselectedType
<1>4. CASE ~ (line.cs = 0 /\ new.cs = 1) /\ line.cs = 0 /\ new.cs = 0 /\ line.clk = 0 /\ new.clk = 1
  <2> DEFINE taken == 2 * part + new.din
  <2>1. /\ IF bits + 1 < ByteBits
             THEN bits' = bits + 1 /\ part' = taken /\ UNCHANGED got
             ELSE bits' = 0 /\ part' = 0 /\ got' = Took(taken)
        /\ UNCHANGED <<mem, wel, wip>>
    BY <1>4 DEF Lines
  <2>2. port = "gpio" /\ new.cs # 1
    BY <1>4
  <2>3. CASE bits + 1 < ByteBits
    <3>1. bits' \in 0 .. ByteBits - 1 /\ part' \in 0 .. TwoTo[bits'] - 1
      BY <1>2, <2>1, <2>3, BitTaken
    <3>2. Chip'
      BY <2>1, <2>3, <3>1 DEF Chip
    <3> QED BY <1>1, <2>2, <3>2
  <2>4. CASE ~ (bits + 1 < ByteBits)
    <3>1. taken \in Byte
      BY <1>2, <2>4, BitTaken
    <3> HIDE DEF taken
    <3>2. Took(taken) \in Seq(Byte \cup {NoCommand})
      BY <3>1, TookType
    <3>3. 0 \in 0 .. ByteBits - 1 /\ 0 \in 0 .. TwoTo[0] - 1
      BY Sizes, PowersOfTwo
    <3>4. bits' = 0 /\ part' = 0 /\ got' = Took(taken) /\ UNCHANGED <<mem, wel, wip>>
      BY <2>1, <2>4
    <3>5. Chip'
      BY <3>2, <3>3, <3>4 DEF Chip
    <3> QED BY <1>1, <2>2, <3>5
  <2> QED BY <2>3, <2>4
<1>5. CASE /\ ~ (line.cs = 0 /\ new.cs = 1)
           /\ ~ (line.cs = 0 /\ new.cs = 0 /\ line.clk = 0 /\ new.clk = 1)
  <2>1. UNCHANGED chipVars
    BY <1>5 DEF Lines
  <2>2. Chip'
    BY <2>1 DEF Chip, chipVars
  <2>3. new.cs = 1 => line.cs = 1
    BY <1>2, <1>5
  <2> QED BY <1>1, <2>1, <2>2, <2>3 DEF Basics, chipVars
<1> QED BY <1>3, <1>4, <1>5

-----------------------------------------------------------------------------
(* The type invariant is inductive *)

LEMMA SamePlaces ==
  ASSUME port' = port
  PROVE  /\ \A c, p : /\ Past(c, p)' = Past(c, p) /\ Last(c, p)' = Last(c, p)
                      /\ At(c, p)' = At(c, p)
                      /\ Within(c, p)' <=> Within(c, p)
                      /\ Receiving(c, p)' <=> Receiving(c, p)
         /\ \A c, p, s : Filled(c, p, s)' = Filled(c, p, s)
<1>1. IdAt' = IdAt
  BY DEF IdAt
<1>2. \A c, p : At(c, p)' = At(c, p)
  <2> SUFFICES ASSUME NEW CONSTANT c, NEW CONSTANT p PROVE At(c, p)' = At(c, p)
    OBVIOUS
  <2> QED BY <1>1 DEF At
<1>3. \A c, p : Past(c, p)' = Past(c, p) /\ Last(c, p)' = Last(c, p)
  BY <1>2 DEF Past, Last
<1>4. \A c, p : Within(c, p)' <=> Within(c, p)
  BY <1>3 DEF Within
<1>5. \A c, p : Receiving(c, p)' <=> Receiving(c, p)
  BY <1>3, <1>4 DEF Receiving
<1>6. \A s : Begun(s)' = Begun(s)
  BY DEF Begun
<1>7. \A c, p, s : Filled(c, p, s)' = Filled(c, p, s)
  BY <1>1, <1>6 DEF Filled
<1> QED BY <1>2, <1>3, <1>4, <1>5, <1>7

\* The next place is the next step of the piece or the first of the next.
Onward ==
  \/ step < Len(Now) /\ step' = step + 1 /\ piece' = piece
  \/ step = Len(Now) /\ step' = 1 /\ piece' = piece + 1

\* An access that receives nothing leaves the answer as it is.
LEMMA AnswerKept ==
  ASSUME TypeInv, Running, Onward, UNCHANGED <<port, call, todo, buff>>,
         Now[step].what \notin {"take", "bit", "poll"}
  PROVE  Answered'
<1> DEFINE c == call   p == piece   s == step
<1>1. /\ Active /\ c \in Calls \cup {Calling} /\ port \in Ports
      /\ p \in Nat \ {0} /\ s \in 1 .. Len(Now) /\ Len(Now) \in Nat \ {0}
      /\ Receiving(c, p) => Now = RecvByte
      /\ Now[step].what = "init" => c.op \in {"open", "close"}
      /\ ~ Within(c, p) => \/ Now[step].what \in {"init", "poll"}
                           \/ c.op = "deselect"
  BY Where DEF TypeInv
<1>2. /\ Len(buff) = Filled(c, p, s)
      /\ port = "gpio" /\ Receiving(c, p) =>
           \A t \in 0 .. ByteBits - 1 : s \in {3 * t + 2, 3 * t + 3, 3 * t + 4} => Roomy(t)
  BY <1>1 DEF TypeInv, Answered
<1>3. s \in Nat \ {0}
  BY <1>1
<1>4. ~ (Changes(c) /\ p = Size(c) + 10)
  <2>1. SUFFICES ASSUME Changes(c), p = Size(c) + 10 PROVE FALSE
    OBVIOUS
  <2>2. Size(c) \in Nat \ {0} /\ (Within(c, p) <=> p <= Size(c) + 9)
    BY <1>1, <2>1, Numbers
  <2>3. ~ Within(c, p)
    BY <2>1, <2>2
  <2>4. c.op \in {"write", "erase"}
    BY <2>1 DEF Changes
  <2> QED BY <1>1, <2>3, <2>4
<1>5. /\ \A i \in 1 .. Len(RecvByte) : port = "gpio" => \A t \in 0 .. ByteBits - 1 :
                                         i = 3 * t + 1 => RecvByte[i].what = "bit"
      /\ port = "gpio" /\ Receiving(c, p) => Len(RecvByte) = 3 * ByteBits
      /\ \A i \in 1 .. Len(RecvByte) :
           port # "gpio" => (RecvByte[i].what = "take" <=> i = Len(RecvByte))
  <2>1. port = "gpio" /\ Receiving(c, p) => Len(RecvByte) = 3 * ByteBits
    <3>1. Receiving(c, p) => s \in 1 .. Len(RecvByte)
      BY <1>1
    <3> QED BY <1>1, <3>1, RecvAccess
  <2> QED BY <1>1, <2>1, RecvAccess
<1>6. ByteBits \in Nat \ {0}
  BY Sizes
<1>7. ASSUME port = "gpio", Receiving(c, p)
      PROVE  /\ s > 1 /\ Len(Now) > 1
             /\ \A t \in 0 .. ByteBits - 1 : s # 3 * t + 1
  <2>1. Now = RecvByte /\ s \in 1 .. Len(RecvByte) /\ Len(RecvByte) = 3 * ByteBits
    BY <1>1, <1>5, <1>7
  <2>2. \A t \in 0 .. ByteBits - 1 : s # 3 * t + 1
    BY <1>5, <1>7, <2>1
  <2>3. s # 1
    <3>1. 0 \in 0 .. ByteBits - 1 /\ 3 * 0 + 1 = 1
      BY <1>6
    <3> QED BY <2>2, <3>1
  <2> QED BY <1>1, <2>1, <2>2, <2>3
<1>8. /\ \A i, j, k : Filled(i, j, k)' = Filled(i, j, k)
      /\ \A i, j : Receiving(i, j)' <=> Receiving(i, j)
  BY SamePlaces
<1>9. CASE s < Len(Now) /\ step' = s + 1 /\ piece' = p
  <2>1. Filled(c, p, s + 1) = Filled(c, p, s)
    <3>1. CASE ~ Receiving(c, p) \/ port # "gpio"
      BY <1>1, <1>3, <3>1, FilledNext
    <3>2. CASE Receiving(c, p) /\ port = "gpio"
      <4>1. s > 1
        BY <1>7, <3>2
      <4>2. /\ Filled(c, p, s + 1) = Filled(c, p, 1) + 1
            /\ s > 1 => Filled(c, p, s) = Filled(c, p, 1) + 1
        BY <1>1, <1>3, <3>2, FilledNext
      <4> QED BY <4>1, <4>2
    <3> QED BY <3>1, <3>2
  <2>2. Len(buff)' = Filled(call, piece, step)'
    BY <1>2, <1>8, <1>9, <2>1
  <2>3. ASSUME port = "gpio", Receiving(c, p), NEW t \in 0 .. ByteBits - 1,
               step' \in {3 * t + 2, 3 * t + 3, 3 * t + 4}
        PROVE  Roomy(t)
    <3>1. s # 3 * t + 1
      BY <1>7, <2>3
    <3>2. s \in {3 * t + 2, 3 * t + 3, 3 * t + 4}
      BY <1>1, <1>9, <2>3, <3>1
    <3> QED BY <1>2, <2>3, <3>2
  <2>4. \A t : Roomy(t) => Roomy(t)'
    BY DEF Roomy
  <2> QED BY <1>8, <1>9, <2>2, <2>3, <2>4 DEF Answered
<1>10. CASE s = Len(Now) /\ step' = 1 /\ piece' = p + 1
  <2>1. Filled(c, p + 1, 1) = Filled(c, p, s)
    <3>1. CASE ~ Receiving(c, p)
      <4>1. ~ Receiving(c, p) => (~ (Changes(c) /\ p = Size(c) + 10) =>
                                    Filled(c, p + 1, 1) = Filled(c, p, s))
        BY <1>1, <1>3, FilledNext
      <4> QED BY <1>4, <3>1, <4>1
    <3>2. CASE Receiving(c, p) /\ port # "gpio"
      <4>1. Now = RecvByte /\ RecvByte[s].what # "take"
        BY <1>1, <3>2
      <4> QED BY <1>1, <1>5, <1>10, <3>2, <4>1
    <3>3. CASE Receiving(c, p) /\ port = "gpio"
      <4>1. s > 1
        BY <1>7, <3>3
      <4> QED BY <1>1, <1>3, <3>3, <4>1, FilledNext
    <3> QED BY <3>1, <3>2, <3>3
  <2>2. Len(buff)' = Filled(call, piece, step)'
    BY <1>2, <1>8, <1>10, <2>1
  <2>3. \A t \in 0 .. ByteBits - 1 : step' \notin {3 * t + 2, 3 * t + 3, 3 * t + 4}
    BY <1>6, <1>10
  <2> QED BY <2>2, <2>3 DEF Answered
<1> QED BY <1>9, <1>10 DEF Onward

\* An access of the program, whatever it is.
LEMMA AccessParts ==
  ASSUME TypeInv, NEW what, Access(what)
  PROVE  /\ Running /\ Now[step].what = what /\ Active /\ Onward /\ Control'
         /\ UNCHANGED <<port, call, todo, id, calls, crashes, goal, cut, exposed>>
         /\ Valued(what, Value)
         /\ what \in {"select", "shift"} => port # "gpio"
         /\ port \in {"io", "epp"} /\ what # "wait" => shift = Empty
<1>1. /\ Running /\ Now[step].what = what /\ Advance
      /\ UNCHANGED <<port, call, todo, id, calls, crashes, goal, cut, exposed>>
      /\ port \in {"io", "epp"} /\ what # "wait" => shift = Empty
  BY DEF Access, Due, histVars
<1>2. Control' /\ Onward
  BY <1>1, ControlNext DEF Onward, TypeInv
<1>3. /\ Active /\ port \in Ports /\ step \in 1 .. Len(Now)
      /\ Receiving(call, piece) => Now = RecvByte
      /\ ~ Receiving(call, piece) => Now \in Silent
  BY <1>1, Where DEF TypeInv
<1>4. Valued(Now[step].what, Now[step].v)
  <2>1. CASE Receiving(call, piece)
    <3>1. Now = RecvByte /\ step \in 1 .. Len(RecvByte)
      BY <1>3, <2>1
    <3>2. Valued(RecvByte[step].what, RecvByte[step].v)
      BY <1>3, <3>1, RecvAccess
    <3> QED BY <3>1, <3>2
  <2>2. CASE ~ Receiving(call, piece)
    <3>1. Now \in Silent
      BY <1>3, <2>2
    <3> QED BY <1>3, <3>1, SilentAccess
  <2> QED BY <2>1, <2>2
<1>5. Valued(what, Value)
  BY <1>1, <1>4 DEF Value
<1> QED BY <1>1, <1>2, <1>3, <1>5 DEF Valued

LEMMA StepGpio ==
  ASSUME TypeInv, NEW what \in {"init", "cs", "din", "clk"}, DriveGpio(what)
  PROVE  TypeInv'
<1>1. /\ port = "gpio" /\ Access(what) /\ Lines(GPIO_reg_val')
      /\ GPIO_reg_val' = IF what = "init" THEN GpioReset
                         ELSE [GPIO_reg_val EXCEPT ![what] = Value]
      /\ UNCHANGED <<buff, sel, shift, data, faults>>
  BY DEF DriveGpio
<1>2. /\ Running /\ Now[step].what = what /\ Active /\ Onward /\ Control'
      /\ UNCHANGED <<port, call, todo, id, calls, crashes, goal, cut, exposed>>
      /\ Valued(what, Value)
  BY <1>1, AccessParts
<1>3. Control /\ Received /\ Wired /\ Chip /\ Counted /\ Basics
  BY Parts DEF TypeInv
<1>4. GPIO_reg_val' \in Registers
  BY <1>1, <1>2, <1>3 DEF Wired, Registers, Valued, GpioReset
<1>5. /\ Chip' /\ line' = GPIO_reg_val' /\ line' \in Registers
      /\ GPIO_reg_val'.cs = 1 => got' = <<>> /\ bits' = 0 /\ part' = 0
  <2>1. line \in Registers
    BY <1>3 DEF Wired
  <2> QED BY <1>1, <1>3, <1>4, <2>1, LinesType
<1>6. Answered'
  BY <1>1, <1>2, AnswerKept
<1>7. Basics'
  BY <1>1, <1>2, <1>3, <1>5 DEF Basics
<1>8. Received' /\ Wired' /\ Counted'
  BY <1>1, <1>2, <1>3, <1>4, <1>5 DEF Received, Wired, Counted
<1> QED BY <1>2, <1>5, <1>6, <1>7, <1>8, Parts DEF TypeInv

\* What an access of a register port leaves to show: wires and chip.
LEMMA StepPlain ==
  ASSUME TypeInv, NEW what, what \notin {"take", "bit", "poll"}, Access(what),
         Wired', Chip', Basics', faults' \in 0 .. MaxFaults, UNCHANGED buff
  PROVE  TypeInv'
<1>1. /\ Running /\ Now[step].what = what /\ Onward /\ Control'
      /\ UNCHANGED <<port, call, todo, id, calls, crashes, goal, cut, exposed>>
  BY AccessParts
<1>2. Received /\ Counted
  BY Parts DEF TypeInv
<1>3. Answered'
  BY <1>1, AnswerKept
<1>4. Received' /\ Counted'
  BY <1>1, <1>2 DEF Received, Counted
<1> QED BY <1>1, <1>3, <1>4, Parts DEF TypeInv

LEMMA StepWrite ==
  ASSUME TypeInv, NEW what \in {"cs", "shift"}, WriteRegister(what)
  PROVE  TypeInv'
<1>1. /\ port # "gpio" /\ Access(what)
      /\ LET register == CASE port = "epp" -> sel
                           [] port # "epp" /\ what = "cs" -> CS_REG
                           [] OTHER -> SREG_REG
         IN IF register = CS_REG THEN WriteCs(Value % 2) ELSE WriteShift(Value)
      /\ UNCHANGED <<buff, GPIO_reg_val, faults>>
  BY DEF WriteRegister
<1>2. Valued(what, Value) /\ UNCHANGED port
  BY <1>1, AccessParts
<1>3. Control /\ Received /\ Wired /\ Chip /\ Counted /\ Basics
  BY Parts DEF TypeInv
<1>4. Value \in Byte /\ Value % 2 \in 0 .. 1
  <2>1. Value \in Byte
    BY <1>2, ByteType DEF Valued
  <2>2. Byte \subseteq Nat
    BY ByteType
  <2>3. Value \in Nat
    BY <2>1, <2>2
  <2> QED BY <2>1, <2>3
<1>5. CASE WriteCs(Value % 2)
  <2> DEFINE new == [line EXCEPT !.cs = Value % 2]
  <2>1. /\ Lines(new) /\ UNCHANGED <<sel, data>>
        /\ shift' = IF Value % 2 = 1 THEN Empty ELSE shift
    BY <1>5 DEF WriteCs
  <2>2. new \in Registers /\ new.clk = 0 /\ line \in Registers /\ new.cs = Value % 2
    BY <1>1, <1>3, <1>4 DEF Registers, Wired, Basics
  <2>3. /\ Chip' /\ line' = new /\ line' \in Registers
        /\ new.cs = 1 => got' = <<>> /\ bits' = 0 /\ part' = 0
        /\ bits' = 0 /\ part' = 0
    <3> HIDE DEF new
    <3> QED BY <1>1, <1>3, <2>1, <2>2, LinesType
  <2>4. Wired'
    BY <1>1, <1>3, <2>1, <2>3 DEF Wired
  <2>5. Basics'
    BY <1>1, <1>2, <2>2, <2>3 DEF Basics
  <2>6. faults' \in 0 .. MaxFaults
    BY <1>1, <1>3 DEF Counted
  <2> QED BY <1>1, <2>3, <2>4, <2>5, <2>6, StepPlain
<1>6. CASE WriteShift(Value)
  <2>1. shift' \in {Value, shift} \/ shift' = Value
    BY <1>6 DEF WriteShift
  <2>2. UNCHANGED <<line, sel, data, got, bits, part, mem, wel, wip>>
    BY <1>6 DEF WriteShift, chipVars
  <2>3. Chip'
    BY <1>3, <2>2 DEF Chip
  <2>4. Wired'
    BY <1>1, <1>3, <1>4, <2>1, <2>2 DEF Wired
  <2>5. Basics'
    BY <1>1, <1>2, <1>3, <2>2 DEF Basics
  <2>6. faults' \in 0 .. MaxFaults
    BY <1>1, <1>3 DEF Counted
  <2> QED BY <1>1, <2>3, <2>4, <2>5, <2>6, StepPlain
<1> QED BY <1>1, <1>5, <1>6

\* Accesses that touch neither line nor chip.
LEMMA StepAside ==
  ASSUME TypeInv, NEW what, what \notin {"take", "bit", "poll"}, Access(what),
         UNCHANGED <<buff, GPIO_reg_val, line, shift, data, chipVars>>,
         sel' \in {CS_REG, SREG_REG}, faults' \in 0 .. MaxFaults
  PROVE  TypeInv'
<1>1. Wired /\ Chip /\ Basics
  BY Parts DEF TypeInv
<1>2. UNCHANGED <<port, got, bits, part, mem, wel, wip>>
  BY AccessParts DEF chipVars
<1>3. Wired' /\ Chip' /\ Basics'
  BY <1>1, <1>2 DEF Wired, Chip, Basics
<1> QED BY <1>3, StepPlain

LEMMA StepSelect ==
  ASSUME TypeInv, SelectRegister
  PROVE  TypeInv'
<1>1. Access("select") /\ sel' = Value
  BY DEF SelectRegister
<1>2. Valued("select", Value)
  BY <1>1, AccessParts
<1>3. sel' \in {CS_REG, SREG_REG}
  BY <1>1, <1>2 DEF Valued
<1>4. faults' \in 0 .. MaxFaults
  BY DEF SelectRegister, TypeInv, TypeOK
<1> QED BY <1>1, <1>3, <1>4, StepAside DEF SelectRegister

LEMMA StepWait ==
  ASSUME TypeInv, WaitForData \/ WaitGivesUp
  PROVE  TypeInv'
<1>1. /\ Access("wait") /\ UNCHANGED <<buff, GPIO_reg_val, portVars, chipVars>>
      /\ faults' = faults \/ (faults < MaxFaults /\ faults' = faults + 1)
  BY DEF WaitForData, WaitGivesUp
<1>2. faults \in 0 .. MaxFaults /\ sel \in {CS_REG, SREG_REG} /\ MaxFaults \in Nat
  BY PortAssumption DEF TypeInv, TypeOK
<1>3. faults' \in 0 .. MaxFaults
  BY <1>1, <1>2
<1>4. UNCHANGED <<line, sel, shift, data>>
  BY <1>1 DEF portVars
<1> QED BY <1>1, <1>2, <1>3, <1>4, StepAside

LEMMA StepLost ==
  ASSUME TypeInv, CycleLost
  PROVE  TypeInv'
<1>1. PICK what \in {"select", "cs", "shift"} : Access(what)
  BY DEF CycleLost
<1>2. /\ UNCHANGED <<buff, GPIO_reg_val, portVars, chipVars>>
      /\ faults < MaxFaults /\ faults' = faults + 1
  BY DEF CycleLost
<1>3. faults \in 0 .. MaxFaults /\ sel \in {CS_REG, SREG_REG} /\ MaxFaults \in Nat
  BY PortAssumption DEF TypeInv, TypeOK
<1>4. faults' \in 0 .. MaxFaults
  BY <1>2, <1>3
<1>5. UNCHANGED <<line, sel, shift, data>>
  BY <1>2 DEF portVars
<1> QED BY <1>1, <1>2, <1>3, <1>4, <1>5, StepAside

\* Nothing of the program moves.
LEMMA StepChip ==
  ASSUME TypeInv, UNCHANGED <<port, progVars, calls, crashes, faults, histVars>>,
         Wired', Chip', Basics'
  PROVE  TypeInv'
<1>1. /\ UNCHANGED <<port, call, todo, piece, step, buff, id, calls, crashes, faults>>
      /\ UNCHANGED <<goal, cut, exposed>>
  BY DEF progVars, histVars
<1>2. Control /\ Received /\ Counted /\ Answered
  BY Parts DEF TypeInv
<1>3. Control' /\ Received' /\ Counted'
  BY <1>1, <1>2, ControlSame DEF Received, Counted
<1>4. /\ Filled(call, piece, step)' = Filled(call, piece, step)
      /\ Receiving(call, piece)' <=> Receiving(call, piece)
  BY <1>1, SamePlaces
<1>5. /\ \A t : Roomy(t)' <=> Roomy(t)
      /\ Active' <=> Active
  BY <1>1 DEF Roomy, Active
<1>6. Answered'
  BY <1>1, <1>2, <1>4, <1>5 DEF Answered
<1> QED BY <1>3, <1>6, Parts DEF TypeInv

LEMMA StepShifted ==
  ASSUME TypeInv, Shifted
  PROVE  TypeInv'
<1>1. Wired /\ Chip /\ Basics
  BY Parts DEF TypeInv
<1>2. /\ shift # Empty /\ shift' = Empty
      /\ IF line.cs = 0 THEN data' = OutByte /\ got' = Took(shift)
                        ELSE data' = Ones /\ UNCHANGED got
      /\ UNCHANGED <<port, progVars, line, sel, bits, part, mem, wel, wip, calls, crashes,
                     faults, histVars>>
  BY DEF Shifted
<1>3. UNCHANGED GPIO_reg_val
  BY <1>2 DEF progVars
<1>4. shift \in Byte
  BY <1>1, <1>2 DEF Wired
<1>5. got' \in Seq(Byte \cup {NoCommand})
  <2>1. Took(shift) \in Seq(Byte \cup {NoCommand})
    BY <1>1, <1>4, TookType
  <2> QED BY <1>1, <1>2, <2>1 DEF Chip
<1>6. data' \in Byte
  BY <1>1, <1>2, OutByteType, ByteType
<1>7. Chip'
  BY <1>1, <1>2, <1>5 DEF Chip
<1>8. Wired'
  BY <1>1, <1>2, <1>3, <1>6 DEF Wired
<1>9. Basics'
  BY <1>1, <1>2 DEF Basics, Wired, Registers
<1> QED BY <1>2, <1>7, <1>8, <1>9, StepChip

LEMMA StepReady ==
  ASSUME TypeInv, ChipReady
  PROVE  TypeInv'
<1>1. Wired /\ Chip /\ Basics
  BY Parts DEF TypeInv
<1>2. /\ wip' = FALSE
      /\ UNCHANGED <<port, GPIO_reg_val, line, sel, shift, data, got, bits, part, mem, wel>>
      /\ UNCHANGED <<port, progVars, calls, crashes, faults, histVars>>
  BY DEF ChipReady, progVars, portVars
<1>3. Wired' /\ Chip' /\ Basics'
  BY <1>1, <1>2 DEF Wired, Chip, Basics
<1> QED BY <1>2, <1>3, StepChip

\* An access that changes the answer, and neither line nor chip.
LEMMA StepAnswer ==
  ASSUME TypeInv, UNCHANGED <<GPIO_reg_val, portVars, chipVars, faults>>,
         UNCHANGED <<port, call, todo, id, calls, crashes, histVars>>,
         Control', Active, Answered', buff' \in Seq(Byte)
  PROVE  TypeInv'
<1>1. Wired /\ Chip /\ Basics /\ Counted /\ Received
  BY Parts DEF TypeInv
<1>2. /\ UNCHANGED <<GPIO_reg_val, line, sel, shift, data, got, bits, part, mem, wel, wip>>
      /\ UNCHANGED <<port, id, calls, crashes, goal, cut, exposed, call, faults>>
  BY DEF portVars, chipVars, histVars
<1>3. Wired' /\ Chip' /\ Basics' /\ Counted'
  BY <1>1, <1>2 DEF Wired, Chip, Basics, Counted
<1>4. Active'
  BY <1>2 DEF Active
<1>5. /\ call' \in Calls \cup {Calling} /\ piece' \in Nat \ {0} /\ step' \in Nat \ {0}
      /\ Len(buff') = Filled(call, piece, step)'
  BY <1>4 DEF Answered, Control, Active
<1>6. Filled(call, piece, step)' = Filled(call', piece', step')
  BY <1>2, SamePlaces
<1>7. Filled(call', piece', step') \in 0 .. PageSize
  BY <1>5, FilledNext
<1>8. Received'
  BY <1>1, <1>2, <1>5, <1>6, <1>7 DEF Received
<1> QED BY <1>3, <1>8, Parts DEF TypeInv

LEMMA StepTake ==
  ASSUME TypeInv, TakeByte
  PROVE  TypeInv'
<1> DEFINE c == call   p == piece   s == step
<1>1. /\ Access("take") /\ UNCHANGED <<GPIO_reg_val, portVars, chipVars, faults>>
      /\ buff' = Append(buff, IF port = "epp" /\ sel = CS_REG THEN line.cs ELSE data)
  BY DEF TakeByte
<1>2. /\ Running /\ Now[step].what = "take" /\ Active /\ Onward /\ Control'
      /\ UNCHANGED <<port, call, todo, id, calls, crashes, goal, cut, exposed>>
  BY <1>1, AccessParts
<1>3. Control /\ Wired /\ Received /\ Answered
  BY Parts DEF TypeInv
<1>4. /\ c \in Calls \cup {Calling} /\ port \in Ports
      /\ p \in Nat \ {0} /\ s \in 1 .. Len(Now) /\ Len(Now) \in Nat \ {0}
      /\ Receiving(c, p) => Now = RecvByte
      /\ ~ Receiving(c, p) => Now \in Silent
  BY <1>2, Where DEF TypeInv
<1>5. Receiving(c, p)
  BY <1>2, <1>4, SilentAccess
<1>6. Now = RecvByte
  BY <1>4, <1>5
<1>7. port # "gpio" /\ s = Len(Now)
  <2>1. RecvByte[s].what = "take" /\ s \in 1 .. Len(RecvByte)
    BY <1>2, <1>4, <1>6
  <2>2. /\ port # "gpio" => (RecvByte[s].what = "take" <=> s = Len(RecvByte))
        /\ port = "gpio" => RecvByte[s].what # "take"
    BY <1>4, <2>1, RecvAccess
  <2> QED BY <1>6, <2>1, <2>2
<1>8. s \in Nat \ {0}
  BY <1>4
<1>9. Filled(c, p + 1, 1) = Filled(c, p, s) + 1
  BY <1>4, <1>5, <1>7, <1>8, FilledNext
<1>10. step' = 1 /\ piece' = p + 1
  BY <1>2, <1>4, <1>7 DEF Onward
<1>11. (IF port = "epp" /\ sel = CS_REG THEN line.cs ELSE data) \in Byte
  <2>1. line.cs \in {0, 1} /\ data \in Byte
    BY <1>3 DEF Wired, Registers
  <2> QED BY <2>1, ByteType
<1>12. buff \in Seq(Byte)
  BY <1>3 DEF Received
<1>13. buff' \in Seq(Byte) /\ Len(buff') = Len(buff) + 1
  BY <1>1, <1>11, <1>12
<1>14. Len(buff)' = Filled(call, piece, step)'
  <2>1. Filled(call, piece, step)' = Filled(c, p + 1, 1)
    BY <1>2, <1>10, SamePlaces
  <2>2. Len(buff) = Filled(c, p, s)
    BY <1>2, <1>3 DEF Answered
  <2> QED BY <1>9, <1>13, <2>1, <2>2
<1>15. Answered'
  BY <1>2, <1>7, <1>14 DEF Answered
<1> QED BY <1>1, <1>2, <1>13, <1>15, StepAnswer DEF histVars

LEMMA StepPoll ==
  ASSUME TypeInv, PollStatus
  PROVE  TypeInv'
<1> DEFINE c == call   p == piece   s == step
<1>1. /\ Running /\ Now[step].what = "poll" /\ ReadAgain /\ buff' = <<>>
      /\ UNCHANGED <<port, call, todo, id, calls, crashes, histVars>>
      /\ UNCHANGED <<GPIO_reg_val, portVars, chipVars, faults>>
  BY DEF PollStatus, Due
<1>2. /\ c \in Calls \cup {Calling} /\ port \in Ports /\ Active
      /\ p \in Nat \ {0} /\ s \in 1 .. Len(Now) /\ Layout(c, todo)
      /\ Changes(c) /\ p = Size(c) + 10 /\ p = Len(todo) /\ Len(Now) = 1
  BY <1>1, Where DEF TypeInv
<1>0. Size(c) \in Nat \ {0}
  BY <1>2, Numbers
<1>3. /\ Filled(c, p - 4, 1) = 0 /\ Filled(c, p + 1, 1) = 0
      /\ p - 4 \in Nat \ {0}
  <2>1. s \in Nat \ {0}
    BY <1>2
  <2>2. p - 4 \in Nat \ {0}
    BY <1>2, <1>0
  <2> QED BY <1>2, <2>1, <2>2, FilledNext
<1>4. Len(ReadStatus) = 4
  <2>1. <<READ_STATUS>> \in Seq(Byte) /\ 1 \in Nat
    BY CodesType
  <2>2. Len(Command(<<READ_STATUS>>, 1)) = Len(<<READ_STATUS>>) + 1 + 2
    BY <1>2, <2>1, Alone
  <2>3. Len(<<READ_STATUS>>) = 1
    OBVIOUS
  <2> QED BY <2>2, <2>3 DEF ReadStatus
<1>5. CASE Advance
  <2>1. Control' /\ Onward
    BY <1>1, <1>5, ControlNext DEF TypeInv, Onward
  <2>2. step' = 1 /\ piece' = p + 1
    BY <1>2, <2>1 DEF Onward
  <2>3. Filled(call, piece, step)' = 0
    BY <1>1, <1>3, <2>2, SamePlaces
  <2>4. Receiving(call, piece)' <=> Receiving(c, p + 1)
    BY <1>1, <2>2, SamePlaces
  <2>5. ~ Receiving(c, p + 1)
    <3>1. p + 1 \in Nat \ {0} /\ p + 1 # Size(c) + 8
      BY <1>2, <1>0
    <3> QED BY <1>2, <3>1, ReceivingAt
  <2>6. Answered'
    BY <1>1, <2>3, <2>4, <2>5 DEF Answered
  <2> QED BY <1>1, <1>2, <2>1, <2>6, StepAnswer
<1>6. CASE step' = 1 /\ piece' = p - 4
  <2>1. Control
    BY Parts DEF TypeInv
  <2>2. todo' = IF call' \in {Off, Idle} THEN <<>> ELSE Accesses(call)'
    BY <1>1, <2>1, SameTodo DEF Control
  <2>3. p - 4 \in 1 .. Len(todo)
    BY <1>2, <1>3
  <2>4. todo[p - 4] \in Kinds
    BY <1>2, <2>3 DEF Layout
  <2>5. Len(todo[p - 4]) \in Nat \ {0}
    BY <1>2, <2>4, KindsType
  <2>6. Now' = todo[p - 4]
    BY <1>1, <1>6 DEF Now
  <2>7. Control'
    BY <1>1, <1>2, <1>6, <2>1, <2>2, <2>3, <2>5, <2>6 DEF Control
  <2>8. Filled(call, piece, step)' = 0
    BY <1>1, <1>3, <1>6, SamePlaces
  <2>9. Receiving(call, piece)' <=> Receiving(c, p - 4)
    BY <1>1, <1>6, SamePlaces
  <2>10. ~ Receiving(c, p - 4)
    <3>1. p - 4 # Size(c) + 8
      BY <1>2, <1>0
    <3> QED BY <1>2, <1>3, <3>1, ReceivingAt
  <2>11. Answered'
    BY <1>1, <2>8, <2>9, <2>10 DEF Answered
  <2> QED BY <1>1, <1>2, <2>7, <2>11, StepAnswer
<1> QED BY <1>1, <1>4, <1>5, <1>6 DEF ReadAgain

LEMMA StepBit ==
  ASSUME TypeInv, ReadGpioBit
  PROVE  TypeInv'
<1> DEFINE c == call   p == piece   s == step   v == Value
           bit == Bit(OutByte, bits) * Weight(v)   M == TwoTo[ByteBits]
<1>1. /\ Access("bit") /\ UNCHANGED <<GPIO_reg_val, portVars, chipVars, faults>>
      /\ buff' = IF v = 0 THEN Append(buff, bit) ELSE [buff EXCEPT ![Len(buff)] = @ + bit]
  BY DEF ReadGpioBit
<1>2. /\ Running /\ Now[step].what = "bit" /\ Active /\ Onward /\ Control'
      /\ UNCHANGED <<port, call, todo, id, calls, crashes, goal, cut, exposed>>
  BY <1>1, AccessParts
<1>3. Control /\ Chip /\ Received /\ Answered
  BY Parts DEF TypeInv
<1>4. /\ c \in Calls \cup {Calling} /\ port \in Ports
      /\ p \in Nat \ {0} /\ s \in 1 .. Len(Now) /\ Len(Now) \in Nat \ {0}
      /\ Receiving(c, p) => Now = RecvByte
      /\ ~ Receiving(c, p) => Now \in Silent
  BY <1>2, Where DEF TypeInv
<1>5. Receiving(c, p)
  BY <1>2, <1>4, SilentAccess
<1>6. Now = RecvByte
  BY <1>4, <1>5
<1>7. port = "gpio" /\ v \in 0 .. ByteBits - 1 /\ s = 3 * v + 1 /\ Len(Now) = 3 * ByteBits
  <2>1. RecvByte[s].what = "bit" /\ s \in 1 .. Len(RecvByte)
    BY <1>2, <1>4, <1>6
  <2>2. /\ RecvByte[s].what = "bit" =>
             /\ port = "gpio" /\ RecvByte[s].v \in 0 .. ByteBits - 1
             /\ s = 3 * RecvByte[s].v + 1
        /\ port = "gpio" => Len(RecvByte) = 3 * ByteBits
    BY <1>4, <2>1, RecvAccess
  <2>3. v = RecvByte[s].v
    BY <1>6 DEF Value
  <2> QED BY <1>6, <2>1, <2>2, <2>3
<1>8. ByteBits \in Nat \ {0} /\ s \in Nat \ {0}
  BY <1>4, Sizes
<1>9. step' = s + 1 /\ piece' = p
  BY <1>2, <1>7, <1>8 DEF Onward
<1>10. bit \in 0 .. Weight(v) /\ Weight(v) \in Nat \ {0} /\ Len(buff) \in Nat
  <2>1. OutByte \in Int
    <3>1. Byte \subseteq Int
      BY Sizes
    <3> QED BY <1>3, <3>1, OutByteType
  <2>2. bits \in 0 .. ByteBits - 1
    BY <1>3 DEF Chip
  <2>3. Bit(OutByte, bits) \in 0 .. 1
    BY <2>1, <2>2, BitType
  <2>4. Weight(v) \in Nat \ {0}
    BY <1>7, WeightType
  <2>5. Len(buff) \in Nat
    BY <1>3 DEF Received
  <2>6. CASE Bit(OutByte, bits) = 0
    <3>1. bit = 0
      BY <2>4, <2>6
    <3> QED BY <2>4, <2>5, <3>1
  <2>7. CASE Bit(OutByte, bits) = 1
    <3>1. bit = Weight(v)
      BY <2>4, <2>7
    <3> QED BY <2>4, <2>5, <3>1
  <2> QED BY <2>3, <2>6, <2>7
<1>11. Byte = 0 .. M - 1 /\ M \in Nat
  BY ByteType DEF Byte
<1>12. /\ Len(buff) = Filled(c, p, s)
       /\ \A t \in 0 .. ByteBits - 1 : s \in {3 * t + 2, 3 * t + 3, 3 * t + 4} => Roomy(t)
  BY <1>2, <1>3, <1>5, <1>7 DEF Answered
<1>13. /\ Filled(c, p, s + 1) = Filled(c, p, 1) + 1
       /\ s > 1 => Filled(c, p, s) = Filled(c, p, 1) + 1
       /\ Filled(c, p, 1) \in 0 .. PageSize
  <2>1. /\ Filled(c, p, s + 1) = Filled(c, p, 1) + 1
        /\ s > 1 => Filled(c, p, s) = Filled(c, p, 1) + 1
    <3>1. Receiving(c, p) => (port = "gpio" =>
            /\ Filled(c, p, s + 1) = Filled(c, p, 1) + 1
            /\ s > 1 => Filled(c, p, s) = Filled(c, p, 1) + 1)
      BY <1>4, <1>8, FilledNext
    <3> QED BY <1>5, <1>7, <3>1
  <2>2. 1 \in Nat \ {0}
    OBVIOUS
  <2>3. Filled(c, p, 1) \in 0 .. PageSize
    BY <1>4, <2>2, FilledNext
  <2> QED BY <2>1, <2>3
<1>14. buff \in Seq(Byte)
  BY <1>3 DEF Received
<1>15. /\ buff' \in Seq(Byte) /\ Len(buff') = Filled(c, p, s + 1)
       /\ buff'[Len(buff')] + Weight(v) <= M
  <2>1. CASE v = 0
    <3>1. bit \in Byte /\ bit + Weight(v) <= M
      <4>1. M = 2 * Weight(v)
        BY <1>7, <2>1, WeightType
      <4> QED BY <1>10, <1>11, <4>1
    <3>2. s = 1
      BY <1>7, <2>1
    <3>3. buff' = Append(buff, bit)
      BY <1>1, <2>1
    <3>4. buff' \in Seq(Byte) /\ Len(buff') = Len(buff) + 1 /\ buff'[Len(buff) + 1] = bit
      BY <1>14, <3>1, <3>3
    <3> QED BY <1>12, <1>13, <3>1, <3>2, <3>4
  <2>2. CASE v # 0
    <3>1. v - 1 \in 0 .. ByteBits - 1 /\ v = (v - 1) + 1 /\ s = 3 * (v - 1) + 4 /\ s > 1
      BY <1>7, <1>8, <2>2
    <3>2. buff[Len(buff)] + Weight(v - 1) <= M
      BY <1>12, <3>1 DEF Roomy
    <3>3. Weight(v - 1) = 2 * Weight(v)
      BY <1>7, <3>1, WeightType
    <3>4. Len(buff) = Filled(c, p, 1) + 1 /\ Len(buff) \in Nat \ {0}
      BY <1>12, <1>13, <3>1
    <3>5. buff[Len(buff)] \in Byte
      BY <1>14, <3>4
    <3> DEFINE new == buff[Len(buff)] + bit
    <3>6. new \in Byte /\ new + Weight(v) <= M
      BY <1>10, <1>11, <3>2, <3>3, <3>5
    <3>7. buff' = [buff EXCEPT ![Len(buff)] = new]
      BY <1>1, <2>2
    <3>8. buff' \in Seq(Byte) /\ Len(buff') = Len(buff) /\ buff'[Len(buff)] = new
      <4> HIDE DEF new
      <4> QED BY <1>14, <3>4, <3>6, <3>7
    <3> QED BY <1>13, <3>4, <3>6, <3>8
  <2> QED BY <2>1, <2>2
<1>16. Len(buff)' = Filled(call, piece, step)'
  <2>1. Filled(call, piece, step)' = Filled(c, p, s + 1)
    BY <1>2, <1>9, SamePlaces
  <2> QED BY <1>15, <2>1
<1>17. ASSUME NEW t \in 0 .. ByteBits - 1, step' \in {3 * t + 2, 3 * t + 3, 3 * t + 4}
       PROVE  Roomy(t)'
  <2>1. t = v
    BY <1>7, <1>8, <1>9, <1>17
  <2>2. Roomy(t)' <=> buff'[Len(buff')] + Weight(t) <= M
    BY DEF Roomy
  <2> QED BY <1>15, <2>1, <2>2
<1>18. Answered'
  BY <1>16, <1>17 DEF Answered
<1> QED BY <1>1, <1>2, <1>15, <1>18, StepAnswer DEF histVars

\* Between two calls, and in a call that begins.
LEMMA EffectType ==
  ASSUME mem \in Memory, NEW c \in Calls \cup {Calling}
  PROVE  Effect(c, mem) \in Memory
<1>1. SUFFICES ASSUME NEW x \in Addresses
               PROVE  (CASE c.op = "write" /\ x \in PageOf(c.at) -> And(mem[x], c.page[x - c.at])
                         [] c.op = "erase" /\ x \in Sector(c.at) -> Ones
                         [] OTHER -> mem[x]) \in Byte
  BY DEF Effect, Memory
<1>2. mem[x] \in Byte /\ mem[x] \in Int
  <2>1. Byte \subseteq Int
    BY Sizes
  <2> QED BY <1>1, <2>1 DEF Memory
<1>3. CASE c.op = "write" /\ x \in PageOf(c.at)
  <2>1. /\ c.page \in [0 .. PageSize - 1 -> Byte] /\ c.at % PageSize = 0
        /\ c.at \in Addresses
    BY <1>3, CallType
  <2>2. x - c.at \in 0 .. PageSize - 1
    <3>1. x \div PageSize = c.at \div PageSize /\ PageSize \in Nat \ {0}
      BY <1>3, Sizes DEF PageOf
    <3>2. x \in Nat /\ c.at \in Nat
      BY <1>1, <2>1, Sizes DEF Addresses
    <3> QED BY <2>1, <3>1, <3>2
  <2>3. c.page[x - c.at] \in Int
    <3>1. Byte \subseteq Int
      BY Sizes
    <3> QED BY <2>1, <2>2, <3>1
  <2>4. And(mem[x], c.page[x - c.at]) \in Byte
    BY <1>2, <2>3, AndType
  <2> QED BY <1>3, <2>4
<1>4. CASE c.op = "erase" /\ x \in Sector(c.at)
  BY <1>4, ByteType
<1> QED BY <1>2, <1>3, <1>4

LEMMA StepBegin ==
  ASSUME TypeInv, NEW c \in Calls \cup {Calling}, Begin(c), id' \in {id, Unread}
  PROVE  TypeInv'
<1>1. /\ calls < MaxCalls /\ calls' = calls + 1 /\ call' = c
      /\ todo' = Accesses(c) /\ piece' = 1 /\ step' = 1 /\ buff' = <<>>
      /\ goal' = Effect(c, mem)
      /\ UNCHANGED <<port, GPIO_reg_val, portVars, chipVars, crashes, faults, cut, exposed>>
  BY DEF Begin
<1>2. UNCHANGED <<line, sel, shift, data, got, bits, part, mem, wel, wip>>
  BY <1>1 DEF portVars, chipVars
<1>3. Control /\ Received /\ Wired /\ Chip /\ Counted /\ Basics
  BY Parts DEF TypeInv
<1>4. Wired' /\ Chip' /\ Basics'
  BY <1>1, <1>2, <1>3 DEF Wired, Chip, Basics
<1>5. Counted'
  <2>1. goal' \in Memory
    BY <1>1, <1>3, EffectType DEF Chip
  <2>2. calls' \in 0 .. MaxCalls
    BY <1>1, <1>3, PortAssumption DEF Counted
  <2> QED BY <1>1, <1>3, <2>1, <2>2 DEF Counted
<1>6. c \notin {Off, Idle} /\ port \in Ports
  <2>1. c.op \notin {"off", "idle"}
    BY DEF Calls, Calling, Op
  <2> QED BY <1>3, <2>1 DEF Off, Idle, Op, Control
<1>7. Received'
  <2>1. buff' \in Seq(Byte) /\ Len(buff') = 0 /\ PageSize \in Nat
    BY <1>1, Sizes
  <2> QED BY <1>3, <2>1 DEF Received
<1>8. Control'
  <2>1. Layout(c, Accesses(c))
    BY <1>6, CallLayout
  <2>2. Accesses(c) \in Seq(Kinds) /\ Len(Accesses(c)) \in Nat
    BY <2>1 DEF Layout
  <2>3. ASSUME Running' PROVE Len(Now)' \in Nat \ {0}
    <3>1. 1 \in 1 .. Len(Accesses(c))
      BY <1>1, <2>2, <2>3 DEF Running
    <3>2. Accesses(c)[1] \in Kinds
      BY <2>2, <3>1
    <3>3. Len(Accesses(c)[1]) \in Nat \ {0}
      BY <1>6, <3>2, KindsType
    <3>4. Now' = Accesses(c)[1]
      BY <1>1 DEF Now
    <3> QED BY <3>3, <3>4
  <2>4. Accesses(call)' = Accesses(c)
    BY <1>1, NextTodo
  <2>5. call' \in Calls \cup {Off, Idle, Calling} /\ port' \in Ports
    BY <1>1, <1>6
  <2>6. todo' = IF call' \in {Off, Idle} THEN <<>> ELSE Accesses(call)'
    BY <1>1, <1>6, <2>4
  <2>7. piece' \in 1 .. Len(todo') + 1 /\ step' \in Nat \ {0}
    BY <1>1, <2>2
  <2> QED BY <1>1, <2>3, <2>5, <2>6, <2>7 DEF Control
<1>9. Answered'
  <2>1. Filled(call, piece, step)' = Filled(c, 1, 1)
    BY <1>1, SamePlaces
  <2>2. Filled(c, 1, 1) = 0 /\ ~ Receiving(c, 1)
    <3>1. 1 \in Nat \ {0}
      OBVIOUS
    <3>2. Filled(c, 1, 1) = 0
      BY <3>1, FilledNext
    <3>3. Within(c, 1) => Past(c, 1) = 0
      BY <3>1, NextPlace
    <3>4. Len(Bytes(c, 1)) \in Nat
      BY <3>1, Numbers
    <3>5. ~ Receiving(c, 1)
      BY <3>3, <3>4 DEF Receiving
    <3> QED BY <3>2, <3>5
  <2>3. Receiving(call, piece)' <=> Receiving(c, 1)
    BY <1>1, SamePlaces
  <2>4. Len(buff') = 0
    BY <1>1
  <2> QED BY <2>1, <2>2, <2>3, <2>4 DEF Answered
<1> QED BY <1>4, <1>5, <1>7, <1>8, <1>9, Parts DEF TypeInv

LEMMA StepReturn ==
  ASSUME TypeInv, Return
  PROVE  TypeInv'
<1>1. /\ call \notin {Off, Idle} /\ piece = Len(todo) + 1
      /\ todo' = <<>> /\ piece' = 1 /\ step' = 1
      /\ call' \in {Off, Idle}
      /\ id' = IF call.op = "open" THEN buff[1] ELSE id
      /\ UNCHANGED <<port, buff, GPIO_reg_val, portVars, chipVars, calls, crashes,
                     faults, histVars>>
  BY DEF Return
<1>2. /\ UNCHANGED <<line, sel, shift, data, got, bits, part, mem, wel, wip>>
      /\ UNCHANGED <<goal, cut, exposed>>
  BY <1>1 DEF portVars, chipVars, histVars
<1>3. Control /\ Received /\ Wired /\ Chip /\ Counted /\ Basics /\ Answered
  BY Parts DEF TypeInv
<1>4. Wired' /\ Chip' /\ Basics' /\ Counted'
  BY <1>1, <1>2, <1>3 DEF Wired, Chip, Basics, Counted
<1>5. id' \in Byte \cup {Unread}
  <2>1. CASE call.op = "open"
    <3>1. call \in Calls \cup {Calling} /\ todo = Accesses(call)
      BY <1>1, <1>3 DEF Control
    <3>2. Len(todo) = IdAt + 6
      BY <1>3, <2>1, <3>1, CallLayout DEF Layout, Control
    <3>3. piece = IdAt + 7 /\ piece \in Nat \ {0} /\ step \in Nat \ {0}
      <4>1. IdAt \in Nat
        BY DEF IdAt
      <4> QED BY <1>1, <1>3, <3>2, <4>1 DEF Control
    <3>4. Filled(call, piece, step) = 1
      BY <2>1, <3>1, <3>3, FilledNext
    <3>5. Len(buff) = 1 /\ buff \in Seq(Byte)
      BY <1>1, <1>3, <3>4 DEF Answered, Active, Received
    <3> QED BY <1>1, <2>1, <3>5
  <2>2. CASE call.op # "open"
    BY <1>1, <1>3, <2>2 DEF Received
  <2> QED BY <2>1, <2>2
<1>6. Received'
  BY <1>1, <1>3, <1>5 DEF Received
<1>7. Control'
  BY <1>1, <1>3 DEF Control, Running
<1>8. Answered'
  BY <1>1 DEF Answered, Active
<1> QED BY <1>4, <1>6, <1>7, <1>8, Parts DEF TypeInv

LEMMA StepCrash ==
  ASSUME TypeInv, Crash
  PROVE  TypeInv'
<1>1. /\ crashes < MaxCrashes /\ crashes' = crashes + 1
      /\ call' = Off /\ todo' = <<>> /\ piece' = 1 /\ step' = 1
      /\ buff' = <<>> /\ id' = Unread
      /\ GPIO_reg_val' = [cs |-> 0, din |-> 0, clk |-> 0]
      /\ cut' = [busy |-> wip, selected |-> line.cs = 0 /\ Sent > 0,
                 writing |-> Writes \/ Erases]
      /\ exposed' = exposed \cup Scope(call) \cup
                (IF port # "gpio" /\ line.cs = 0 /\ Sent \in 1 .. 2 THEN Addresses ELSE {})
      /\ UNCHANGED <<port, portVars, chipVars, calls, faults, goal>>
  BY DEF Crash
<1>2. UNCHANGED <<line, sel, shift, data, got, bits, part, mem, wel, wip>>
  BY <1>1 DEF portVars, chipVars
<1>3. Control /\ Received /\ Wired /\ Chip /\ Counted /\ Basics
  BY Parts DEF TypeInv
<1>4. Wired' /\ Chip' /\ Basics'
  BY <1>1, <1>2, <1>3 DEF Wired, Chip, Basics, Registers
<1>5. Counted'
  <2>1. exposed' \subseteq Addresses
    BY <1>1, <1>3 DEF Counted, Scope, PageOf, Sector
  <2>2. cut' \in [busy : BOOLEAN, selected : BOOLEAN, writing : BOOLEAN]
    <3>1. wip \in BOOLEAN /\ (line.cs = 0 /\ Sent > 0) \in BOOLEAN
          /\ (Writes \/ Erases) \in BOOLEAN
      BY <1>3 DEF Chip
    <3> QED BY <1>1, <3>1
  <2>3. crashes' \in 0 .. MaxCrashes
    BY <1>1, <1>3, PortAssumption DEF Counted
  <2> QED BY <1>1, <1>3, <2>1, <2>2, <2>3 DEF Counted
<1>6. Received'
  BY <1>1, Sizes DEF Received
<1>7. Control'
  BY <1>1, <1>3 DEF Control, Running
<1>8. Answered'
  BY <1>1 DEF Answered, Active
<1> QED BY <1>4, <1>5, <1>6, <1>7, <1>8, Parts DEF TypeInv

LEMMA TypeInit ==
  ASSUME Init
  PROVE  TypeInv
<1>1. Control
  BY DEF Init, Control, Running
<1>2. Received
  BY Sizes DEF Init, Received
<1>3. Wired
  BY ByteType DEF Init, Wired, Registers, GpioReset
<1>4. Chip
  <2>1. mem \in Memory /\ wel \in BOOLEAN /\ wip \in BOOLEAN /\ got = <<>>
    BY PortAssumption DEF Init
  <2>2. bits \in 0 .. ByteBits - 1
    BY Sizes DEF Init
  <2>3. part \in 0 .. TwoTo[bits] - 1
    BY PowersOfTwo DEF Init
  <2> QED BY <2>1, <2>2, <2>3 DEF Chip
<1>5. Counted
  BY PortAssumption DEF Init, Counted
<1>6. Basics
  BY DEF Init, Basics, GpioReset
<1>7. Answered
  BY DEF Init, Answered, Active
<1> QED BY <1>1, <1>2, <1>3, <1>4, <1>5, <1>6, <1>7, Parts DEF TypeInv

LEMMA TypeStep ==
  ASSUME TypeInv, [Next]_vars
  PROVE  TypeInv'
<1>1. CASE Open
  BY <1>1, StepBegin DEF Open, Calling
<1>2. CASE Call
  BY <1>2, StepBegin DEF Call
<1>3. CASE Process
  <2>1. CASE Return
    BY <2>1, StepReturn
  <2>2. CASE \E what \in {"init", "cs", "din", "clk"} : DriveGpio(what)
    BY <2>2, StepGpio
  <2>3. CASE ReadGpioBit
    BY <2>3, StepBit
  <2>4. CASE \E what \in {"cs", "shift"} : WriteRegister(what)
    BY <2>4, StepWrite
  <2>5. CASE SelectRegister
    BY <2>5, StepSelect
  <2>6. CASE WaitForData
    BY <2>6, StepWait
  <2>7. CASE TakeByte
    BY <2>7, StepTake
  <2>8. CASE PollStatus
    BY <2>8, StepPoll
  <2> QED BY <1>3, <2>1, <2>2, <2>3, <2>4, <2>5, <2>6, <2>7, <2>8 DEF Process
<1>4. CASE WaitGivesUp
  BY <1>4, StepWait
<1>5. CASE CycleLost
  BY <1>5, StepLost
<1>6. CASE Crash
  BY <1>6, StepCrash
<1>7. CASE Shifted
  BY <1>7, StepShifted
<1>8. CASE ChipReady
  BY <1>8, StepReady
<1>9. CASE UNCHANGED vars
  <2>1. UNCHANGED <<port, progVars, portVars, chipVars, calls, crashes, faults, histVars>>
    BY <1>9 DEF vars
  <2>2. Wired /\ Chip /\ Basics
    BY Parts DEF TypeInv
  <2>3. Wired' /\ Chip' /\ Basics'
    BY <2>1, <2>2 DEF progVars, portVars, chipVars, Wired, Chip, Basics
  <2> QED BY <2>1, <2>3, StepChip
<1> QED BY <1>1, <1>2, <1>3, <1>4, <1>5, <1>6, <1>7, <1>8, <1>9 DEF Next

\* Every place a call can be in, every byte of the answer, the lines, the
\* serializer and the chip keep to their types: no piece runs over its end, the
\* answer never outgrows the page, and the bits of a byte never outgrow a byte
\* (the loops of eeprom_local.c and the send and receive of every port).
THEOREM PortTypeCorrect == Spec => []TypeOK
<1>1. Init => TypeInv
  BY TypeInit
<1>2. TypeInv /\ [Next]_vars => TypeInv'
  BY TypeStep
<1>3. TypeInv => TypeOK
  BY DEF TypeInv
<1> QED BY <1>1, <1>2, <1>3, PTL DEF Spec

-----------------------------------------------------------------------------
(* Where the call under way is, in terms of its command: Pos is 0 at the    *)
(* prefix, up to Outs at a byte that is sent, up to Outs + Ins at one that  *)
(* is received, and one more at the suffix.                                 *)

Inside == Active /\ Within(call, piece)
Pos == Past(call, piece)
Sending == Bytes(call, piece)
Outs == Len(Sending)
Ins == Asks(call, piece)
Selected == Inside /\ Pos >= 1

LEMMA SpotType ==
  ASSUME TypeInv, Inside
  PROVE  /\ Pos \in 0 .. Outs + Ins + 1 /\ Outs \in Nat \ {0} /\ Ins \in Nat
         /\ Sending \in Seq(Byte) /\ Running
         /\ call \in Calls \cup {Calling} /\ piece \in Nat \ {0}
<1>1. /\ call \in Calls \cup {Off, Idle, Calling} /\ port \in Ports
      /\ todo = IF call \in {Off, Idle} THEN <<>> ELSE Accesses(call)
      /\ piece \in 1 .. Len(todo) + 1
  BY Parts DEF TypeInv, Control
<1>2. call \in Calls \cup {Calling} /\ todo = Accesses(call) /\ Within(call, piece)
  BY <1>1 DEF Inside, Active
<1>3. Layout(call, todo)
  BY <1>1, <1>2, CallLayout
<1>4. /\ Sending \in Seq(Byte) /\ Ins \in Nat /\ Outs \in Nat \ {0}
      /\ piece <= Len(todo)
  BY <1>1, <1>2, <1>3, Place DEF Sending, Ins, Outs
<1>5. Pos \in 0 .. Last(call, piece) /\ Last(call, piece) = Outs + Ins + 1
  BY <1>2 DEF Within, Pos, Last, Outs, Ins, Sending
<1> QED BY <1>1, <1>2, <1>4, <1>5 DEF Running

\* In the same piece, ...
LEMMA SameSpot ==
  ASSUME UNCHANGED <<port, call, piece>>
  PROVE  /\ (Inside' <=> Inside) /\ (Selected' <=> Selected)
         /\ Pos' = Pos /\ Sending' = Sending /\ Outs' = Outs /\ Ins' = Ins
<1>1. Pos' = Pos /\ (Within(call, piece)' <=> Within(call, piece))
  BY SamePlaces DEF Pos
<1>2. Size(call)' = Size(call)
  BY DEF Size, ChangeBytes, SendAddress
<1>3. Bytes(call, piece)' = Bytes(call, piece) /\ Asks(call, piece)' = Asks(call, piece)
  BY <1>2 DEF Bytes, Asks, IdBytes, ReadBytes, ChangeBytes, SendAddress, Changes
<1>4. Sending' = Sending /\ Ins' = Ins
  BY <1>3 DEF Sending, Ins
<1>5. Outs' = Outs
  BY <1>4 DEF Outs
<1>6. Inside' <=> Inside
  BY <1>1 DEF Inside, Active
<1> QED BY <1>1, <1>4, <1>5, <1>6 DEF Selected

\* ... in the next, ...
LEMMA NextSpot ==
  ASSUME TypeInv, Running, UNCHANGED <<port, call, todo>>, piece' = piece + 1
  PROVE  /\ Inside /\ Pos <= Outs + Ins =>
              /\ Inside' /\ Selected' /\ Pos' = Pos + 1
              /\ Sending' = Sending /\ Outs' = Outs /\ Ins' = Ins
         /\ ~ Inside \/ Pos = Outs + Ins + 1 => ~ Selected'
<1> DEFINE c == call   p == piece
<1>1. /\ c \in Calls \cup {Calling} /\ p \in Nat \ {0} /\ Active
  BY Where DEF TypeInv
<1>2. /\ Within(c, p) /\ Past(c, p) < Last(c, p) =>
           /\ Bytes(c, p + 1) = Bytes(c, p)
           /\ Asks(c, p + 1) = Asks(c, p)
           /\ Past(c, p + 1) = Past(c, p) + 1 /\ Within(c, p + 1)
      /\ ~ Within(c, p) \/ Past(c, p) = Last(c, p) =>
           ~ Within(c, p + 1) \/ Past(c, p + 1) = 0
  BY <1>1, NextPlace
<1>3. Last(c, p) = Outs + Ins + 1
  BY DEF Last, Outs, Ins, Sending
<1>4. /\ Pos' = Past(c, p + 1) /\ (Within(call, piece)' <=> Within(c, p + 1))
  BY SamePlaces DEF Pos
<1>5. /\ Sending' = Bytes(c, p + 1) /\ Ins' = Asks(c, p + 1)
  <2>1. Size(call)' = Size(call)
    BY DEF Size, ChangeBytes, SendAddress
  <2> QED BY <2>1 DEF Sending, Ins, Bytes, Asks, IdBytes, ReadBytes, ChangeBytes, SendAddress,
                      Changes
<1>6. Outs' = Len(Sending')
  BY DEF Outs
<1>7. Inside' <=> Within(c, p + 1)
  BY <1>1, <1>4 DEF Inside, Active
<1>8. ASSUME Inside, Pos <= Outs + Ins
      PROVE  /\ Inside' /\ Selected' /\ Pos' = Pos + 1
             /\ Sending' = Sending /\ Outs' = Outs /\ Ins' = Ins
  <2>1. Pos \in Nat /\ Outs \in Nat /\ Ins \in Nat
    BY <1>8, SpotType
  <2>2. Within(c, p) /\ Past(c, p) < Last(c, p)
    BY <1>3, <1>8, <2>1 DEF Inside, Pos
  <2>3. /\ Sending' = Sending /\ Ins' = Ins /\ Pos' = Pos + 1 /\ Inside'
    BY <1>2, <1>4, <1>5, <1>7, <2>2 DEF Sending, Ins, Pos
  <2>4. Outs' = Outs
    BY <1>6, <2>3 DEF Outs
  <2> QED BY <2>1, <2>3, <2>4 DEF Selected
<1>9. ASSUME ~ Inside \/ Pos = Outs + Ins + 1
      PROVE  ~ Selected'
  <2>1. ~ Within(c, p) \/ Past(c, p) = Last(c, p)
    BY <1>1, <1>3, <1>9 DEF Inside, Pos
  <2> QED BY <1>2, <1>4, <1>7, <2>1 DEF Selected
<1> QED BY <1>8, <1>9

\* ... at the beginning of a call, at the beginning of the status read once
\* more, and between two calls.
LEMMA FirstSpot ==
  ASSUME port' = port
  PROVE  /\ \A c \in Calls \cup {Calling} : call' = c /\ piece' = 1 => ~ Selected'
         /\ call' \in {Off, Idle} => ~ Selected' /\ ~ Inside'
         /\ call \in Calls \cup {Calling} /\ call' = call /\ Changes(call)
              /\ piece = Size(call) + 10 /\ piece' = piece - 4 => ~ Selected'
<1>1. ASSUME NEW c \in Calls \cup {Calling}, call' = c, piece' = 1
      PROVE  ~ Selected'
  <2>1. Within(c, 1) => Past(c, 1) = 0
    BY NextPlace
  <2>2. Pos' = Past(c, 1) /\ (Within(call, piece)' <=> Within(c, 1))
    BY <1>1, SamePlaces DEF Pos
  <2> QED BY <2>1, <2>2 DEF Selected, Inside
<1>2. ASSUME call \in Calls \cup {Calling}, call' = call, Changes(call),
             piece = Size(call) + 10, piece' = piece - 4
      PROVE  ~ Selected'
  <2>1. Size(call) \in Nat \ {0}
    BY <1>2, Numbers
  <2>2. Past(call, piece - 4) = 0
    BY <1>2, <2>1, NextPlace
  <2>3. Pos' = Past(call, piece - 4)
    BY <1>2, SamePlaces DEF Pos
  <2> QED BY <2>2, <2>3 DEF Selected
<1>3. call' \in {Off, Idle} => ~ Selected' /\ ~ Inside'
  BY DEF Selected, Inside, Active
<1> QED BY <1>1, <1>2, <1>3

\* The piece at each place.
LEMMA SpotPiece ==
  ASSUME TypeInv, Running
  PROVE  /\ Active /\ call \in Calls \cup {Calling} /\ port \in Ports
         /\ piece \in Nat \ {0} /\ step \in 1 .. Len(Now) /\ Len(Now) \in Nat \ {0}
         /\ Inside /\ Pos = 0 => Now = Prefix
         /\ Inside /\ Pos \in 1 .. Outs => Now = SendByte(Sending[Pos]) /\ Sending[Pos] \in Byte
         /\ Inside /\ Pos \in Outs + 1 .. Outs + Ins => Now = RecvByte
         /\ Inside /\ Pos = Outs + Ins + 1 => Now = Suffix
         /\ ~ Inside => \/ /\ call.op = "deselect" /\ Now = SetCs(1)
                           /\ piece = 1 /\ Len(todo) = 1
                        \/ /\ Now[step].what = "init" /\ Len(Now) = 1 /\ port = "gpio"
                           /\ call.op \in {"open", "close"} /\ piece = 1
                        \/ /\ Now[step].what = "poll" /\ Len(Now) = 1
                           /\ Changes(call) /\ piece = Size(call) + 10 /\ piece = Len(todo)
         /\ Now[step].what \in {"init", "poll"} => ~ Inside /\ Len(Now) = 1
<1> DEFINE c == call   p == piece
<1>1. /\ Active /\ c \in Calls \cup {Calling} /\ port \in Ports
      /\ p \in Nat \ {0} /\ step \in 1 .. Len(Now) /\ Len(Now) \in Nat \ {0}
      /\ Within(c, p) /\ Past(c, p) = 0 => Now = Prefix
      /\ Within(c, p) /\ Past(c, p) \in 1 .. Len(Bytes(c, p)) =>
           Now = SendByte(Bytes(c, p)[Past(c, p)]) /\ Bytes(c, p)[Past(c, p)] \in Byte
      /\ Within(c, p) /\ Past(c, p) = Last(c, p) => Now = Suffix
      /\ Receiving(c, p) => Now = RecvByte
  BY Where DEF TypeInv
<1>2. /\ Now[step].what \in {"init", "poll"} => ~ Within(c, p)
      /\ Now[step].what = "init" =>
           /\ port = "gpio" /\ call.op \in {"open", "close"} /\ piece = 1 /\ Len(Now) = 1
      /\ Now[step].what = "poll" =>
           /\ Changes(call) /\ piece = Size(call) + 10 /\ piece = Len(todo) /\ Len(Now) = 1
      /\ ~ Within(c, p) => \/ Now[step].what \in {"init", "poll"}
                           \/ call.op = "deselect" /\ Now = SetCs(1) /\ piece = 1 /\ Len(todo) = 1
  BY Where DEF TypeInv
<1>3. Inside <=> Within(c, p)
  BY <1>1 DEF Inside
<1>4. Last(c, p) = Outs + Ins + 1
  BY DEF Last, Outs, Ins, Sending
<1>5. Inside /\ Pos \in Outs + 1 .. Outs + Ins => Receiving(c, p)
  BY <1>3 DEF Receiving, Pos, Outs, Ins, Sending
<1>6. Inside /\ Pos \in 1 .. Outs => Now = SendByte(Sending[Pos]) /\ Sending[Pos] \in Byte
  BY <1>1, <1>3 DEF Pos, Outs, Sending
<1>7. /\ Inside /\ Pos = 0 => Now = Prefix
      /\ Inside /\ Pos = Outs + Ins + 1 => Now = Suffix
  BY <1>1, <1>3, <1>4 DEF Pos
<1>8. ~ Inside => \/ /\ call.op = "deselect" /\ Now = SetCs(1)
                     /\ piece = 1 /\ Len(todo) = 1
                  \/ /\ Now[step].what = "init" /\ Len(Now) = 1 /\ port = "gpio"
                     /\ call.op \in {"open", "close"} /\ piece = 1
                  \/ /\ Now[step].what = "poll" /\ Len(Now) = 1
                     /\ Changes(call) /\ piece = Size(call) + 10 /\ piece = Len(todo)
  BY <1>2, <1>3
<1> QED BY <1>1, <1>2, <1>3, <1>5, <1>6, <1>7, <1>8

\* The accesses that drive the lines of a gpio port, place by place.
AtLine(what, v) == Is(Now[step], what, v)
GpioBit(t) ==
  \/ step = 3 * t + 1 /\ Pos <= Outs /\ AtLine("din", Bit(Sending[Pos], t))
  \/ step = 3 * t + 1 /\ Pos > Outs /\ AtLine("bit", t)
  \/ step = 3 * t + 2 /\ AtLine("clk", 1)
  \/ step = 3 * t + 3 /\ AtLine("clk", 0)
GpioPlace ==
  \/ ~ Inside /\ Now[step].what \in {"init", "poll"}
  \/ ~ Inside /\ call.op = "deselect" /\ Len(Now) = 1 /\ AtLine("cs", 1)
  \/ /\ Inside /\ Pos = 0 /\ Len(Now) = 4
     /\ \/ step = 1 /\ AtLine("cs", 1)
        \/ step = 2 /\ AtLine("din", 0)
        \/ step = 3 /\ AtLine("clk", 0)
        \/ step = 4 /\ AtLine("cs", 0)
  \/ /\ Inside /\ Pos \in 1 .. Outs + Ins /\ Len(Now) = 3 * ByteBits
     /\ \E t \in 0 .. ByteBits - 1 : GpioBit(t)
  \/ /\ Inside /\ Pos = Outs + Ins + 1 /\ Len(Now) = 2
     /\ \/ step = 1 /\ AtLine("cs", 1)
        \/ step = 2 /\ AtLine("din", 0)

LEMMA GpioAccess ==
  ASSUME TypeInv, Running, port = "gpio"
  PROVE  GpioPlace
<1>1. /\ port \in Ports /\ step \in 1 .. Len(Now) /\ Len(Now) \in Nat \ {0}
  BY SpotPiece
<1>2. /\ Len(Prefix) = 4 /\ Is(Prefix[1], "cs", 1) /\ Is(Prefix[2], "din", 0)
      /\ Is(Prefix[3], "clk", 0) /\ Is(Prefix[4], "cs", 0)
      /\ Len(Suffix) = 2 /\ Is(Suffix[1], "cs", 1) /\ Is(Suffix[2], "din", 0)
      /\ Len(SetCs(1)) = 1 /\ Is(SetCs(1)[1], "cs", 1)
  BY <1>1, Tables DEF GpioTable
<1>3. /\ \A b \in Byte : /\ Len(SendByte(b)) = 3 * ByteBits
                         /\ \A t \in 0 .. ByteBits - 1 :
                              /\ Is(SendByte(b)[3 * t + 1], "din", Bit(b, t))
                              /\ Is(SendByte(b)[3 * t + 2], "clk", 1)
                              /\ Is(SendByte(b)[3 * t + 3], "clk", 0)
      /\ Len(RecvByte) = 3 * ByteBits
      /\ \A t \in 0 .. ByteBits - 1 :
           /\ Is(RecvByte[3 * t + 1], "bit", t)
           /\ Is(RecvByte[3 * t + 2], "clk", 1)
           /\ Is(RecvByte[3 * t + 3], "clk", 0)
  BY <1>1, Tables DEF GpioTable
<1>4. CASE ~ Inside
  <2>1. CASE call.op = "deselect" /\ Now = SetCs(1)
    <3>1. Len(Now) = 1 /\ step = 1
      <4>1. Len(Now) = 1
        BY <1>2, <2>1
      <4> QED BY <1>1, <4>1
    <3>2. AtLine("cs", 1)
      BY <1>2, <2>1, <3>1 DEF AtLine
    <3> QED BY <1>4, <2>1, <3>1, <3>2 DEF GpioPlace
  <2>2. CASE Now[step].what \in {"init", "poll"}
    BY <1>4, <2>2 DEF GpioPlace
  <2> QED BY <1>4, <2>1, <2>2, SpotPiece
<1>5. CASE Inside
  <2>1. Pos \in 0 .. Outs + Ins + 1 /\ Outs \in Nat /\ Ins \in Nat
    BY <1>5, SpotType
  <2>2. CASE Pos = 0
    <3>1. Now = Prefix
      BY <1>5, <2>2, SpotPiece
    <3>2. Len(Now) = 4 /\ step \in {1, 2, 3, 4}
      <4>1. Len(Now) = 4
        BY <1>2, <3>1
      <4> QED BY <1>1, <4>1
    <3> QED BY <1>2, <1>5, <2>2, <3>1, <3>2 DEF GpioPlace, AtLine
  <2>3. CASE Pos \in 1 .. Outs
    <3>1. Now = SendByte(Sending[Pos]) /\ Sending[Pos] \in Byte
      BY <1>5, <2>3, SpotPiece
    <3>2. Len(Now) = 3 * ByteBits
      BY <1>3, <3>1
    <3>3. PICK t \in 0 .. ByteBits - 1 : step \in {3 * t + 1, 3 * t + 2, 3 * t + 3}
      BY <1>1, <3>2, BitSteps
    <3>4. /\ Is(Now[3 * t + 1], "din", Bit(Sending[Pos], t))
          /\ Is(Now[3 * t + 2], "clk", 1)
          /\ Is(Now[3 * t + 3], "clk", 0)
      BY <1>3, <3>1
    <3>5. GpioBit(t)
      BY <2>3, <3>3, <3>4 DEF GpioBit, AtLine
    <3>6. Pos \in 1 .. Outs + Ins
      BY <2>1, <2>3
    <3> QED BY <1>5, <3>2, <3>5, <3>6 DEF GpioPlace
  <2>4. CASE Pos \in Outs + 1 .. Outs + Ins
    <3>1. Now = RecvByte
      BY <1>5, <2>4, SpotPiece
    <3>2. Len(Now) = 3 * ByteBits
      BY <1>3, <3>1
    <3>3. PICK t \in 0 .. ByteBits - 1 : step \in {3 * t + 1, 3 * t + 2, 3 * t + 3}
      BY <1>1, <3>2, BitSteps
    <3>4. /\ Is(Now[3 * t + 1], "bit", t)
          /\ Is(Now[3 * t + 2], "clk", 1)
          /\ Is(Now[3 * t + 3], "clk", 0)
      BY <1>3, <3>1
    <3>5. Pos \in 1 .. Outs + Ins /\ Pos > Outs
      BY <2>1, <2>4
    <3>6. GpioBit(t)
      BY <3>3, <3>4, <3>5 DEF GpioBit, AtLine
    <3> QED BY <1>5, <3>2, <3>5, <3>6 DEF GpioPlace
  <2>5. CASE Pos = Outs + Ins + 1
    <3>1. Now = Suffix
      BY <1>5, <2>5, SpotPiece
    <3>2. Len(Now) = 2 /\ step \in {1, 2}
      <4>1. Len(Now) = 2
        BY <1>2, <3>1
      <4> QED BY <1>1, <4>1
    <3> QED BY <1>2, <1>5, <2>5, <3>1, <3>2 DEF GpioPlace, AtLine
  <2> QED BY <2>1, <2>2, <2>3, <2>4, <2>5
<1> QED BY <1>4, <1>5

\* The accesses of the other ports: an EPP register is selected first.
Lead == IF port = "epp" THEN 1 ELSE 0
Chosen(s) == Now[IF s <= 3 THEN 1 ELSE IF s <= 5 THEN 3 ELSE 5].v
EppAt(s, v) == port = "epp" => step = s /\ Chosen(s) = v
RegPlace ==
  \/ ~ Inside /\ Now[step].what = "poll"
  \/ port = "epp" /\ step \in {1, 3, 5} /\ step < Len(Now) /\ AtLine("select", Chosen(step + 1))
  \/ /\ step = Lead + 1 /\ Len(Now) = step /\ EppAt(2, CS_REG)
     /\ \/ ~ Inside /\ call.op = "deselect" /\ AtLine("cs", 1)
        \/ Inside /\ Pos = 0 /\ AtLine("cs", 0)
        \/ Inside /\ Pos = Outs + Ins + 1 /\ AtLine("cs", 1)
  \/ /\ step = Lead + 1 /\ Inside /\ EppAt(2, SREG_REG)
     /\ \/ /\ Pos \in 1 .. Outs /\ AtLine("shift", Sending[Pos])
           /\ port = "hm2" => step < Len(Now)
        \/ Pos \in Outs + 1 .. Outs + Ins /\ AtLine("shift", 0) /\ step < Len(Now)
  \/ /\ step > Lead + 1 /\ Inside /\ Pos \in 1 .. Outs + Ins
     /\ AtLine("wait", 0) /\ EppAt(4, CS_REG)
     /\ port = "hm2" => step = 2
  \/ /\ step > Lead + 1 /\ step = Len(Now) /\ Inside /\ Pos \in Outs + 1 .. Outs + Ins
     /\ AtLine("take", 0) /\ EppAt(6, SREG_REG)
     /\ port = "hm2" => step = 3

LEMMA RegAccess ==
  ASSUME TypeInv, Running, port # "gpio"
  PROVE  RegPlace
<1>1. /\ port \in Ports /\ step \in 1 .. Len(Now) /\ Len(Now) \in Nat \ {0}
  BY SpotPiece
<1>2. port \in {"hm2", "io", "epp"}
  BY <1>1, Tables
<1>3. CASE ~ Inside
  <2>1. CASE call.op = "deselect" /\ Now = SetCs(1)
    <3>1. CASE port = "epp"
      <4>1. /\ Len(Now) = 2 /\ Is(Now[1], "select", CS_REG) /\ Is(Now[2], "cs", 1)
        BY <1>1, <2>1, <3>1, Tables DEF EppTable
      <4>2. step \in {1, 2}
        BY <1>1, <4>1
      <4>3. Chosen(2) = CS_REG /\ Lead = 1
        BY <3>1, <4>1 DEF Chosen, Is, Lead
      <4>4. CASE step = 1
        BY <3>1, <4>1, <4>3, <4>4 DEF RegPlace, AtLine
      <4>5. CASE step = 2
        <5>1. AtLine("cs", 1) /\ EppAt(2, CS_REG)
          BY <4>1, <4>3, <4>5 DEF AtLine, EppAt
        <5> QED BY <1>3, <2>1, <4>1, <4>3, <4>5, <5>1 DEF RegPlace
      <4> QED BY <4>2, <4>4, <4>5
    <3>2. CASE port # "epp"
      <4>1. Len(Now) = 1 /\ Is(Now[1], "cs", 1)
        BY <1>1, <1>2, <2>1, <3>2, Tables DEF Hm2Table, IoTable
      <4>2. step = 1
        BY <1>1, <4>1
      <4> QED BY <1>3, <2>1, <3>2, <4>1, <4>2 DEF RegPlace, AtLine, EppAt, Lead
    <3> QED BY <3>1, <3>2
  <2>2. CASE Now[step].what = "poll"
    BY <1>3, <2>2 DEF RegPlace
  <2> QED BY <1>3, <2>1, <2>2, SpotPiece
<1>4. CASE Inside
  <2>1. Pos \in 0 .. Outs + Ins + 1 /\ Outs \in Nat /\ Ins \in Nat
    BY <1>4, SpotType
  <2>2. CASE Pos = 0
    <3>1. Now = Prefix
      BY <1>4, <2>2, SpotPiece
    <3>2. CASE port = "epp"
      <4>1. /\ Len(Now) = 2 /\ Is(Now[1], "select", CS_REG) /\ Is(Now[2], "cs", 0)
        BY <1>1, <3>1, <3>2, Tables DEF EppTable
      <4>2. step \in {1, 2}
        BY <1>1, <4>1
      <4> QED BY <1>4, <2>2, <3>2, <4>1, <4>2 DEF RegPlace, AtLine, Is, EppAt, Chosen, Lead
    <3>3. CASE port # "epp"
      <4>1. Len(Now) = 1 /\ Is(Now[1], "cs", 0)
        BY <1>1, <1>2, <3>1, <3>3, Tables DEF Hm2Table, IoTable
      <4>2. step = 1
        BY <1>1, <4>1
      <4> QED BY <1>4, <2>2, <3>3, <4>1, <4>2 DEF RegPlace, AtLine, EppAt, Lead
    <3> QED BY <3>2, <3>3
  <2>3. CASE Pos = Outs + Ins + 1
    <3>1. Now = Suffix
      BY <1>4, <2>3, SpotPiece
    <3>2. CASE port = "epp"
      <4>1. /\ Len(Now) = 2 /\ Is(Now[1], "select", CS_REG) /\ Is(Now[2], "cs", 1)
        BY <1>1, <3>1, <3>2, Tables DEF EppTable
      <4>2. step \in {1, 2}
        BY <1>1, <4>1
      <4> QED BY <1>4, <2>3, <3>2, <4>1, <4>2 DEF RegPlace, AtLine, Is, EppAt, Chosen, Lead
    <3>3. CASE port # "epp"
      <4>1. Len(Now) = 1 /\ Is(Now[1], "cs", 1)
        BY <1>1, <1>2, <3>1, <3>3, Tables DEF Hm2Table, IoTable
      <4>2. step = 1
        BY <1>1, <4>1
      <4> QED BY <1>4, <2>3, <3>3, <4>1, <4>2 DEF RegPlace, AtLine, EppAt, Lead
    <3> QED BY <3>2, <3>3
  <2>4. CASE Pos \in 1 .. Outs
    <3> DEFINE b == Sending[Pos]
    <3>1. Now = SendByte(b) /\ b \in Byte /\ Pos \in 1 .. Outs + Ins
      BY <1>4, <2>1, <2>4, SpotPiece
    <3> HIDE DEF b
    <3>2. CASE port = "epp"
      <4>1. /\ Len(Now) = 2 /\ Is(Now[1], "select", SREG_REG) /\ Is(Now[2], "shift", b)
        BY <1>1, <3>1, <3>2, Tables DEF EppTable
      <4>2. step \in {1, 2}
        BY <1>1, <4>1
      <4> QED BY <1>4, <2>4, <3>2, <4>1, <4>2 DEF RegPlace, AtLine, Is, EppAt, Chosen, Lead, b
    <3>3. CASE port = "io"
      <4>1. Len(Now) = 1 /\ Is(Now[1], "shift", b)
        BY <1>1, <3>1, <3>3, Tables DEF IoTable
      <4>2. step = 1
        BY <1>1, <4>1
      <4> QED BY <1>4, <2>4, <3>3, <4>1, <4>2 DEF RegPlace, AtLine, EppAt, Lead, b
    <3>4. CASE port = "hm2"
      <4>1. Len(Now) = 2 /\ Is(Now[1], "shift", b) /\ Is(Now[2], "wait", 0)
        BY <1>1, <3>1, <3>4, Tables DEF Hm2Table
      <4>2. step \in {1, 2}
        BY <1>1, <4>1
      <4> QED BY <1>4, <2>4, <3>1, <3>4, <4>1, <4>2 DEF RegPlace, AtLine, EppAt, Lead, b
    <3> QED BY <1>2, <3>2, <3>3, <3>4
  <2>5. CASE Pos \in Outs + 1 .. Outs + Ins
    <3>1. Now = RecvByte /\ Pos \in 1 .. Outs + Ins
      BY <1>4, <2>1, <2>5, SpotPiece
    <3>2. CASE port = "epp"
      <4>1. /\ Len(Now) = 6
            /\ Is(Now[1], "select", SREG_REG) /\ Is(Now[2], "shift", 0)
            /\ Is(Now[3], "select", CS_REG) /\ Is(Now[4], "wait", 0)
            /\ Is(Now[5], "select", SREG_REG) /\ Is(Now[6], "take", 0)
        BY <1>1, <3>1, <3>2, Tables DEF EppTable
      <4>2. step \in {1, 2, 3, 4, 5, 6}
        BY <1>1, <4>1
      <4>3. /\ Chosen(2) = SREG_REG /\ Chosen(4) = CS_REG /\ Chosen(6) = SREG_REG
        BY <4>1 DEF Chosen, Is
      <4>4. /\ step = 1 => AtLine("select", Chosen(2))
            /\ step = 3 => AtLine("select", Chosen(4))
            /\ step = 5 => AtLine("select", Chosen(6))
            /\ step = 2 => AtLine("shift", 0)
            /\ step = 4 => AtLine("wait", 0)
            /\ step = 6 => AtLine("take", 0)
        BY <4>1, <4>3 DEF AtLine
      <4>5. Lead = 1
        BY <3>2 DEF Lead
      <4>6. CASE step \in {1, 3, 5}
        BY <3>2, <4>1, <4>4, <4>6 DEF RegPlace
      <4>7. CASE step \in {2, 4, 6}
        <5>1. CASE step = 2
          <6>1. AtLine("shift", 0) /\ EppAt(2, SREG_REG) /\ step = Lead + 1 /\ step < Len(Now)
            BY <4>1, <4>3, <4>4, <4>5, <5>1 DEF EppAt
          <6> QED BY <1>4, <2>5, <6>1 DEF RegPlace
        <5>2. CASE step = 4
          <6>1. AtLine("wait", 0) /\ EppAt(4, CS_REG) /\ step > Lead + 1 /\ port # "hm2"
            BY <3>2, <4>3, <4>4, <4>5, <5>2 DEF EppAt
          <6> QED BY <1>4, <3>1, <6>1 DEF RegPlace
        <5>3. CASE step = 6
          <6>1. /\ AtLine("take", 0) /\ EppAt(6, SREG_REG) /\ step > Lead + 1 /\ port # "hm2"
                /\ step = Len(Now)
            BY <3>2, <4>1, <4>3, <4>4, <4>5, <5>3 DEF EppAt
          <6> QED BY <1>4, <2>5, <6>1 DEF RegPlace
        <5> QED BY <4>7, <5>1, <5>2, <5>3
      <4> QED BY <4>2, <4>6, <4>7
    <3>3. CASE port # "epp"
      <4>1. /\ Len(Now) = 3 /\ Is(Now[1], "shift", 0)
            /\ Is(Now[2], "wait", 0) /\ Is(Now[3], "take", 0)
        BY <1>1, <1>2, <3>1, <3>3, Tables DEF Hm2Table, IoTable
      <4>2. step \in {1, 2, 3}
        BY <1>1, <4>1
      <4> QED BY <1>4, <2>5, <3>1, <3>3, <4>1, <4>2 DEF RegPlace, AtLine, EppAt, Lead
    <3> QED BY <3>2, <3>3
  <2> QED BY <2>1, <2>2, <2>3, <2>4, <2>5
<1> QED BY <1>3, <1>4

-----------------------------------------------------------------------------
(* The wires while nothing was lost.  A gpio port: the shadow register is    *)
(* the register, chip select is low within a command and the clock high      *)
(* behind the second access of each bit; only a process that has not         *)
(* initialised them yet knows nothing of the lines.                          *)

Entering == port = "gpio" /\ (call = Off \/ (call.op = "open" /\ piece = 1))
CsLow == Selected /\ ~ (Pos = Outs + Ins + 1 /\ step = 2)
ClkHigh == Selected /\ Pos <= Outs + Ins /\ step % 3 = 0

GpioWires ==
  port = "gpio" /\ ~ Entering =>
    /\ GPIO_reg_val = line
    /\ line.cs = IF CsLow THEN 0 ELSE 1
    /\ line.clk = IF ClkHigh THEN 1 ELSE 0

\* The other ports: a byte is shifted only while the chip is selected, HostMot2
\* waits for it, and the EPP address register is the one selected last.
RegWires ==
  port # "gpio" =>
    /\ shift # Empty => line.cs = 0
    /\ Selected => line.cs = 0
    /\ port = "hm2" /\ call # Off /\ shift # Empty => Selected /\ Pos <= Outs + Ins /\ step = 2
    /\ port = "epp" /\ Running /\ step > 1 => sel = Chosen(step)

Wires == faults = 0 => GpioWires /\ RegWires

\* A process that has not initialised the lines is about to.
LEMMA EnteringAt ==
  ASSUME TypeInv, Entering, Active
  PROVE  Running /\ Now[step].what = "init" /\ ~ Inside /\ piece = 1 /\ Len(Now) = 1
<1>1. call.op = "open" /\ piece = 1 /\ port = "gpio"
  BY DEF Entering, Active
<1>2. /\ call \in Calls \cup {Off, Idle, Calling} /\ port \in Ports
      /\ todo = IF call \in {Off, Idle} THEN <<>> ELSE Accesses(call)
  BY Parts DEF TypeInv, Control
<1>3. call \in Calls \cup {Calling} /\ todo = Accesses(call)
  BY <1>2 DEF Active
<1>4. Len(todo) = IdAt + 6 /\ IdAt = 2
  BY <1>1, <1>2, <1>3, CallLayout DEF Layout, IdAt
<1>5. Running
  BY <1>1, <1>4 DEF Running
<1>6. ~ Inside
  <2>1. Inside => Pos >= 0 /\ Past(call, 1) = 1 - 2
    BY <1>1, <1>3, <1>4, SpotType, Numbers
  <2> QED BY <1>1, <2>1 DEF Pos
<1>7. Now[step].what = "init" /\ Len(Now) = 1
  BY <1>1, <1>5, <1>6, SpotPiece DEF Changes
<1> QED BY <1>1, <1>5, <1>6, <1>7

\* What the next place expects of the lines, by the access in between.
LEMMA LineNext ==
  ASSUME TypeInv, Running, port = "gpio", Onward, UNCHANGED <<port, call, todo>>
  PROVE  /\ AtLine("cs", 1) => ~ CsLow' /\ ~ ClkHigh' /\ ~ ClkHigh
         /\ AtLine("cs", 0) => CsLow' /\ ~ ClkHigh' /\ ~ ClkHigh
         /\ Now[step].what \in {"din", "bit"} => (CsLow' <=> CsLow) /\ ~ ClkHigh' /\ ~ ClkHigh
         /\ AtLine("clk", 1) => (CsLow' <=> CsLow) /\ ClkHigh'
         /\ AtLine("clk", 0) => (CsLow' <=> CsLow) /\ ~ ClkHigh'
         /\ Now[step].what \in {"init", "poll"} =>
              ~ CsLow' /\ ~ ClkHigh' /\ ~ CsLow /\ ~ ClkHigh
<1>1. /\ step \in 1 .. Len(Now) /\ Len(Now) \in Nat \ {0} /\ GpioPlace
  BY SpotPiece, GpioAccess
<1>2. \/ step < Len(Now) /\ step' = step + 1 /\ piece' = piece
      \/ step = Len(Now) /\ step' = 1 /\ piece' = piece + 1
  BY DEF Onward
<1>3. ASSUME piece' = piece
      PROVE  (Selected' <=> Selected) /\ Pos' = Pos /\ Outs' = Outs /\ Ins' = Ins
  BY <1>3, SameSpot
<1>4. ASSUME piece' = piece + 1
      PROVE  /\ Inside /\ Pos <= Outs + Ins =>
                  Selected' /\ Pos' = Pos + 1 /\ Outs' = Outs /\ Ins' = Ins
             /\ ~ Inside \/ Pos = Outs + Ins + 1 => ~ Selected'
  BY <1>4, NextSpot
<1>5. Inside => Pos \in 0 .. Outs + Ins + 1 /\ Outs \in Nat \ {0} /\ Ins \in Nat
  BY SpotType
<1>6. CASE ~ Inside
  <2>1. CASE Now[step].what \in {"init", "poll"}
    <3>1. Len(Now) = 1
      BY <1>6, <2>1, SpotPiece
    <3>2. ~ Selected' /\ ~ Selected
      BY <1>1, <1>2, <1>4, <1>6, <3>1 DEF Selected
    <3> QED BY <2>1, <3>2 DEF CsLow, ClkHigh, AtLine, Is
  <2>2. CASE Len(Now) = 1 /\ AtLine("cs", 1)
    <3>1. ~ Selected' /\ ~ Selected
      BY <1>1, <1>2, <1>4, <1>6, <2>2 DEF Selected
    <3> QED BY <2>2, <3>1 DEF CsLow, ClkHigh, AtLine, Is
  <2> QED BY <1>1, <1>6, <2>1, <2>2 DEF GpioPlace
<1>7. CASE Inside /\ Pos = 0
  <2>1. /\ Len(Now) = 4
        /\ \/ step = 1 /\ AtLine("cs", 1)
           \/ step = 2 /\ AtLine("din", 0)
           \/ step = 3 /\ AtLine("clk", 0)
           \/ step = 4 /\ AtLine("cs", 0)
    BY <1>1, <1>5, <1>7 DEF GpioPlace
  <2>2. ~ Selected
    BY <1>7 DEF Selected
  <2>3. CASE step = 4
    <3>1. step' = 1 /\ piece' = piece + 1
      BY <1>2, <2>1, <2>3
    <3>2. Selected' /\ Pos' = 1 /\ Outs' = Outs /\ Ins' = Ins
      BY <1>4, <1>5, <1>7, <3>1
    <3>3. AtLine("cs", 0)
      BY <2>1, <2>3
    <3>4. CsLow' /\ ~ ClkHigh' /\ ~ ClkHigh
      BY <1>5, <1>7, <2>2, <3>1, <3>2 DEF CsLow, ClkHigh
    <3> QED BY <3>3, <3>4 DEF AtLine, Is
  <2>4. CASE step # 4
    <3>1. step' = step + 1 /\ piece' = piece
      BY <1>2, <2>1, <2>4
    <3>2. ~ CsLow' /\ ~ ClkHigh' /\ ~ CsLow /\ ~ ClkHigh
      BY <1>3, <2>2, <3>1 DEF CsLow, ClkHigh
    <3> QED BY <2>1, <2>4, <3>2 DEF AtLine, Is
  <2> QED BY <2>3, <2>4
<1>8. CASE Inside /\ Pos \in 1 .. Outs + Ins
  <2>1. Len(Now) = 3 * ByteBits /\ \E t \in 0 .. ByteBits - 1 : GpioBit(t)
    BY <1>1, <1>5, <1>8 DEF GpioPlace
  <2>2. PICK t \in 0 .. ByteBits - 1 : GpioBit(t)
    BY <2>1
  <2>3. ByteBits \in Nat \ {0}
    BY Sizes
  <2>4. /\ Selected /\ CsLow
    BY <1>5, <1>8 DEF Selected, CsLow
  <2>5. CsLow' /\ (ClkHigh' <=> step' % 3 = 0)
    <3>1. CASE piece' = piece
      BY <1>3, <1>5, <1>8, <2>4, <3>1 DEF CsLow, ClkHigh
    <3>2. CASE piece' = piece + 1
      <4>1. Selected' /\ Pos' = Pos + 1 /\ Outs' = Outs /\ Ins' = Ins /\ step' = 1
        BY <1>2, <1>4, <1>5, <1>8, <3>2
      <4> QED BY <1>5, <1>8, <4>1 DEF CsLow, ClkHigh
    <3> QED BY <1>2, <3>1, <3>2
  <2>6. ClkHigh <=> step % 3 = 0
    BY <1>8, <2>4 DEF ClkHigh
  <2>7. CASE step = 3 * t + 1
    <3>1. step % 3 # 0 /\ step' = step + 1 /\ step' % 3 # 0
      BY <1>2, <2>1, <2>3, <2>7
    <3>2. AtLine("din", Bit(Sending[Pos], t)) \/ AtLine("bit", t)
      BY <2>2, <2>7 DEF GpioBit
    <3> QED BY <2>4, <2>5, <2>6, <3>1, <3>2 DEF AtLine, Is
  <2>8. CASE step = 3 * t + 2
    <3>1. step' = step + 1 /\ step' % 3 = 0
      BY <1>2, <2>1, <2>3, <2>8
    <3>2. AtLine("clk", 1)
      BY <2>2, <2>8 DEF GpioBit
    <3> QED BY <2>4, <2>5, <3>1, <3>2 DEF AtLine, Is
  <2>9. CASE step = 3 * t + 3
    <3>1. step' % 3 # 0
      BY <1>2, <2>1, <2>3, <2>9
    <3>2. AtLine("clk", 0)
      BY <2>2, <2>9 DEF GpioBit
    <3> QED BY <2>4, <2>5, <3>1, <3>2 DEF AtLine, Is
  <2> QED BY <2>2, <2>7, <2>8, <2>9 DEF GpioBit
<1>9. CASE Inside /\ Pos = Outs + Ins + 1
  <2>1. /\ Len(Now) = 2
        /\ \/ step = 1 /\ AtLine("cs", 1)
           \/ step = 2 /\ AtLine("din", 0)
    BY <1>1, <1>5, <1>9 DEF GpioPlace
  <2>2. ~ ClkHigh
    BY <1>5, <1>9 DEF ClkHigh
  <2>3. CASE step = 1
    <3>1. step' = 2 /\ piece' = piece
      BY <1>2, <2>1, <2>3
    <3>2. ~ CsLow' /\ ~ ClkHigh'
      BY <1>3, <1>5, <1>9, <3>1 DEF CsLow, ClkHigh
    <3> QED BY <2>1, <2>2, <2>3, <3>2 DEF AtLine, Is
  <2>4. CASE step = 2
    <3>1. step' = 1 /\ piece' = piece + 1
      BY <1>2, <2>1, <2>4
    <3>2. ~ CsLow' /\ ~ ClkHigh' /\ ~ CsLow
      BY <1>4, <1>9, <2>4, <3>1 DEF CsLow, ClkHigh
    <3> QED BY <2>1, <2>2, <2>4, <3>2 DEF AtLine, Is
  <2> QED BY <2>1, <2>3, <2>4
<1> QED BY <1>5, <1>6, <1>7, <1>8, <1>9

\* The lines of a gpio port move with the place.
LEMMA GpioWiresDrive ==
  ASSUME TypeInv, GpioWires, NEW what \in {"init", "cs", "din", "clk"}, DriveGpio(what)
  PROVE  GpioWires'
<1>1. /\ port = "gpio" /\ Access(what) /\ Lines(GPIO_reg_val')
      /\ GPIO_reg_val' = IF what = "init" THEN GpioReset
                         ELSE [GPIO_reg_val EXCEPT ![what] = Value]
  BY DEF DriveGpio
<1>2. /\ Running /\ Now[step].what = what /\ Active /\ Onward
      /\ UNCHANGED <<port, call, todo>> /\ Valued(what, Value)
  BY <1>1, AccessParts
<1>3. line' = GPIO_reg_val'
  BY <1>1 DEF Lines
<1>4. Value = Now[step].v
  BY DEF Value
<1>5. CASE what = "init"
  <2>1. ~ CsLow' /\ ~ ClkHigh'
    BY <1>1, <1>2, <1>5, LineNext
  <2> QED BY <1>1, <1>3, <1>5, <2>1 DEF GpioWires, GpioReset
<1>6. CASE what # "init"
  <2>1. ~ Entering
    BY <1>2, <1>6, EnteringAt
  <2>2. /\ GPIO_reg_val = line /\ line \in Registers
        /\ line.cs = IF CsLow THEN 0 ELSE 1
        /\ line.clk = IF ClkHigh THEN 1 ELSE 0
    BY <1>1, <2>1 DEF GpioWires, TypeInv, TypeOK
  <2>3. line' = [line EXCEPT ![what] = Value]
    BY <1>1, <1>3, <1>6, <2>2
  <2>4. Value \in 0 .. 1
    BY <1>2, <1>6 DEF Valued
  <2>5. CASE what = "cs"
    <3>1. line'.cs = Value /\ line'.clk = line.clk
      BY <2>2, <2>3, <2>5 DEF Registers
    <3>2. CASE Value = 1
      <4>1. AtLine("cs", 1)
        BY <1>2, <1>4, <2>5, <3>2 DEF AtLine, Is
      <4>2. ~ CsLow' /\ ~ ClkHigh' /\ ~ ClkHigh
        BY <1>1, <1>2, <4>1, LineNext
      <4> QED BY <1>3, <2>2, <3>1, <3>2, <4>2 DEF GpioWires
    <3>3. CASE Value = 0
      <4>1. AtLine("cs", 0)
        BY <1>2, <1>4, <2>5, <3>3 DEF AtLine, Is
      <4>2. CsLow' /\ ~ ClkHigh' /\ ~ ClkHigh
        BY <1>1, <1>2, <4>1, LineNext
      <4> QED BY <1>3, <2>2, <3>1, <3>3, <4>2 DEF GpioWires
    <3> QED BY <2>4, <3>2, <3>3
  <2>6. CASE what = "din"
    <3>1. line'.cs = line.cs /\ line'.clk = line.clk
      BY <2>2, <2>3, <2>6 DEF Registers
    <3>2. (CsLow' <=> CsLow) /\ ~ ClkHigh' /\ ~ ClkHigh
      BY <1>1, <1>2, <2>6, LineNext
    <3> QED BY <1>3, <2>2, <3>1, <3>2 DEF GpioWires
  <2>7. CASE what = "clk"
    <3>1. line'.cs = line.cs /\ line'.clk = Value
      BY <2>2, <2>3, <2>7 DEF Registers
    <3>2. CASE Value = 1
      <4>1. AtLine("clk", 1)
        BY <1>2, <1>4, <2>7, <3>2 DEF AtLine, Is
      <4>2. (CsLow' <=> CsLow) /\ ClkHigh'
        BY <1>1, <1>2, <4>1, LineNext
      <4> QED BY <1>3, <2>2, <3>1, <3>2, <4>2 DEF GpioWires
    <3>3. CASE Value = 0
      <4>1. AtLine("clk", 0)
        BY <1>2, <1>4, <2>7, <3>3 DEF AtLine, Is
      <4>2. (CsLow' <=> CsLow) /\ ~ ClkHigh'
        BY <1>1, <1>2, <4>1, LineNext
      <4> QED BY <1>3, <2>2, <3>1, <3>3, <4>2 DEF GpioWires
    <3> QED BY <2>4, <3>2, <3>3
  <2> QED BY <1>6, <2>5, <2>6, <2>7
<1> QED BY <1>5, <1>6

\* Where the status is read again, and behind the last access.
LEMMA PollNext ==
  ASSUME TypeInv, PollStatus
  PROVE  /\ ~ Selected /\ ~ Selected' /\ Active /\ ~ Entering' /\ step' = 1
         /\ Changes(call) /\ piece = Size(call) + 10 /\ piece = Len(todo) /\ ~ Inside
         /\ IF buff[1] % 2 = 1 THEN piece' = piece - 4 ELSE piece' = piece + 1
<1>1. /\ Running /\ Now[step].what = "poll" /\ ReadAgain
      /\ UNCHANGED <<port, call, todo>>
  BY DEF PollStatus, Due
<1>2. /\ call \in Calls \cup {Calling} /\ port \in Ports /\ Active
      /\ step \in 1 .. Len(Now)
      /\ Changes(call) /\ piece = Size(call) + 10 /\ piece = Len(todo) /\ Len(Now) = 1
  BY <1>1, Where DEF TypeInv
<1>3. ~ Inside
  BY <1>1, SpotPiece
<1>4. Len(ReadStatus) = 4
  <2>1. <<READ_STATUS>> \in Seq(Byte) /\ 1 \in Nat
    BY CodesType
  <2>2. Len(Command(<<READ_STATUS>>, 1)) = Len(<<READ_STATUS>>) + 1 + 2
    BY <1>2, <2>1, Alone
  <2>3. Len(<<READ_STATUS>>) = 1
    OBVIOUS
  <2> QED BY <2>2, <2>3 DEF ReadStatus
<1>5. ~ Entering'
  BY <1>1, <1>2 DEF Entering, Changes, Active
<1>6. /\ step' = 1 /\ IF buff[1] % 2 = 1 THEN piece' = piece - 4 ELSE piece' = piece + 1
  BY <1>1, <1>2, <1>4 DEF ReadAgain, Advance
<1>7. CASE piece' = piece - 4
  BY <1>1, <1>2, <1>3, <1>5, <1>6, <1>7, FirstSpot DEF Selected
<1>8. CASE piece' = piece + 1
  BY <1>1, <1>2, <1>3, <1>5, <1>6, <1>8, NextSpot DEF Selected
<1> QED BY <1>6, <1>7, <1>8

\* A call that begins or ends, and a crash.
LEMMA Turning ==
  ASSUME TypeInv, Open \/ Call \/ Return \/ Crash
  PROVE  /\ ~ Selected' /\ step' = 1 /\ UNCHANGED <<port, line, sel, shift, data, chipVars, faults>>
         /\ ~ Crash => UNCHANGED <<GPIO_reg_val, crashes, cut>> /\ ~ Selected
         /\ ~ Crash /\ ~ Entering' => ~ Entering
         /\ port = "gpio" /\ (Crash \/ Open \/ call' = Off) => Entering'
         /\ Call => call = Idle
<1>1. CASE Open \/ Call
  <2>1. PICK c \in Calls \cup {Calling} : Begin(c)
    BY <1>1 DEF Open, Call, Calling
  <2>2. call \in {Off, Idle} /\ (Call => call = Idle)
    BY <1>1 DEF Open, Call
  <2>3. /\ call' = c /\ piece' = 1 /\ step' = 1
        /\ UNCHANGED <<port, GPIO_reg_val, line, sel, shift, data, chipVars, crashes, faults, cut>>
    BY <2>1 DEF Begin, portVars
  <2>4. ~ Selected /\ ~ Selected'
    BY <2>2, <2>3, FirstSpot DEF Selected, Inside, Active
  <2>5. Open /\ port = "gpio" => Entering'
    BY <2>3 DEF Open, Begin, Op, Entering
  <2>6. ~ Entering' => ~ Entering
    <3>1. CASE Open
      BY <2>5, <3>1 DEF Entering
    <3>2. CASE Call
      BY <2>2, <3>2 DEF Entering, Idle, Off, Op
    <3> QED BY <1>1, <3>1, <3>2
  <2>7. ~ Crash
    BY <1>1, <2>2, <2>3 DEF Crash, Off, Calls, Calling, Op
  <2>8. call' # Off
    BY <2>3 DEF Off, Calls, Calling, Op
  <2> QED BY <2>2, <2>3, <2>4, <2>5, <2>6, <2>7, <2>8
<1>2. CASE Return
  <2>1. /\ call \notin {Off, Idle} /\ piece = Len(todo) + 1 /\ call' \in {Off, Idle}
        /\ step' = 1
        /\ UNCHANGED <<port, GPIO_reg_val, line, sel, shift, data, chipVars, crashes, faults, cut>>
    BY <1>2 DEF Return, portVars, histVars
  <2>2. ~ Running
    <3>1. Len(todo) \in Nat
      <4>1. call \in Calls \cup {Calling} /\ todo = Accesses(call) /\ port \in Ports
        BY <2>1 DEF TypeInv, TypeOK, Calling
      <4>2. todo \in Seq(Kinds)
        BY <4>1, CallLayout DEF Layout
      <4> QED BY <4>2
    <3> QED BY <2>1, <3>1 DEF Running
  <2>3. ~ Selected /\ ~ Selected'
    BY <2>1, <2>2, SpotType, FirstSpot DEF Selected
  <2>4. ~ Entering
    BY <2>1, <2>2, EnteringAt DEF Active
  <2>5. call' # call /\ (Crash => crashes' = crashes + 1 /\ crashes \in Nat)
    BY <2>1 DEF Crash, TypeInv, TypeOK
  <2>6. ~ Crash
    BY <2>1, <2>5
  <2>7. ~ Open /\ ~ Call
    BY <2>1 DEF Open, Call
  <2>8. call' = Off /\ port = "gpio" => Entering'
    BY <2>1 DEF Entering
  <2> QED BY <2>1, <2>3, <2>4, <2>6, <2>7, <2>8
<1>3. CASE Crash
  <2>1. /\ call' = Off /\ step' = 1 /\ call # Off /\ crashes' = crashes + 1 /\ crashes \in Nat
        /\ UNCHANGED <<port, line, sel, shift, data, chipVars, faults>>
    BY <1>3 DEF Crash, portVars, TypeInv, TypeOK
  <2>2. ~ Selected' /\ (port = "gpio" => Entering')
    BY <2>1, FirstSpot DEF Entering
  <2>3. ~ Call
    BY <2>1 DEF Call, Begin
  <2> QED BY <1>3, <2>1, <2>2, <2>3
<1> QED BY <1>1, <1>2, <1>3

\* How many bytes of the command the program has given to the serializer.
Given == Pos - 1 + IF Pos <= Outs + Ins /\ step > Lead + 1 THEN 1 ELSE 0

\* The place after an access of a register port.
LEMMA RegNext ==
  ASSUME TypeInv, Running, port # "gpio", Onward, UNCHANGED <<port, call, todo>>
  PROVE  /\ AtLine("cs", 0) =>
              /\ Inside /\ ~ Selected /\ Selected' /\ Pos' = 1 /\ Given' = 0 /\ step' = 1
              /\ step = Lead + 1 /\ EppAt(2, CS_REG)
         /\ AtLine("cs", 1) =>
              /\ ~ Selected' /\ step' = 1
              /\ Selected => Pos = Outs + Ins + 1 /\ Given = Outs + Ins
              /\ step = Lead + 1 /\ EppAt(2, CS_REG)
         /\ Now[step].what = "cs" => AtLine("cs", 0) \/ AtLine("cs", 1)
         /\ Now[step].what = "shift" =>
              /\ Selected /\ Selected' /\ Given = Pos - 1 /\ Given' = Pos /\ Pos \in 1 .. Outs + Ins
              /\ step = Lead + 1 /\ EppAt(2, SREG_REG)
              /\ Pos <= Outs => Now[step].v = Sending[Pos]
              /\ port = "hm2" => step' = 2 /\ Pos' = Pos
         /\ Now[step].what \in {"wait", "take"} =>
              /\ Selected /\ Selected' /\ Given = Pos /\ Given' = Pos /\ Pos \in 1 .. Outs + Ins
              /\ port = "epp" => step \in {4, 6} /\ (step' = 1 \/ step' = step + 1)
         /\ Now[step].what = "wait" => (port = "epp" => EppAt(4, CS_REG))
         /\ Now[step].what = "take" =>
              /\ Pos > Outs /\ EppAt(6, SREG_REG) /\ Pos' = Pos + 1 /\ step' = 1
              /\ port = "hm2" => step = 3
         /\ Now[step].what = "select" =>
              /\ (Selected' <=> Selected) /\ Given' = Given /\ Pos' = Pos
              /\ port = "epp" /\ step \in {1, 3, 5} /\ step' = step + 1
              /\ Now[step].v = Chosen(step + 1)
         /\ Selected /\ Selected' => Sending' = Sending /\ Outs' = Outs /\ Ins' = Ins
         /\ Inside /\ Selected' => Sending' = Sending /\ Outs' = Outs /\ Ins' = Ins
<1>1. /\ step \in 1 .. Len(Now) /\ Len(Now) \in Nat \ {0} /\ RegPlace
  BY SpotPiece, RegAccess
<1>2. \/ step < Len(Now) /\ step' = step + 1 /\ piece' = piece
      \/ step = Len(Now) /\ step' = 1 /\ piece' = piece + 1
  BY DEF Onward
<1>3. ASSUME piece' = piece
      PROVE  /\ (Selected' <=> Selected) /\ Pos' = Pos /\ Outs' = Outs /\ Ins' = Ins
             /\ Sending' = Sending
  BY <1>3, SameSpot
<1>4. ASSUME piece' = piece + 1
      PROVE  /\ Inside /\ Pos <= Outs + Ins =>
                  /\ Selected' /\ Pos' = Pos + 1 /\ Outs' = Outs /\ Ins' = Ins
                  /\ Sending' = Sending
             /\ ~ Inside \/ Pos = Outs + Ins + 1 => ~ Selected'
  BY <1>4, NextSpot
<1>5. Inside => Pos \in 0 .. Outs + Ins + 1 /\ Outs \in Nat \ {0} /\ Ins \in Nat
  BY SpotType
<1>6. Inside /\ Selected' => Sending' = Sending /\ Outs' = Outs /\ Ins' = Ins
  BY <1>2, <1>3, <1>4, <1>5
<1>7. Selected => Inside /\ Pos >= 1
  BY DEF Selected
<1>8. Lead' = Lead /\ Lead \in {0, 1} /\ (port = "epp" <=> Lead = 1)
  BY DEF Lead
<1>9. CASE ~ Inside /\ Now[step].what = "poll"
  <2>1. Now[step].what \notin {"cs", "shift", "wait", "take", "select"}
    BY <1>9
  <2> QED BY <1>6, <1>7, <2>1 DEF AtLine, Is
<1>10. CASE port = "epp" /\ step \in {1, 3, 5} /\ step < Len(Now) /\ AtLine("select", Chosen(step + 1))
  <2>1. Now[step].what = "select" /\ Now[step].v = Chosen(step + 1)
    BY <1>10 DEF AtLine, Is
  <2>2. step' = step + 1 /\ piece' = piece
    BY <1>2, <1>10
  <2>3. /\ (Selected' <=> Selected) /\ Pos' = Pos /\ Outs' = Outs /\ Ins' = Ins
    BY <1>3, <2>2
  <2>4. Given' = Given
    BY <1>8, <1>10, <2>2, <2>3 DEF Given
  <2> QED BY <1>6, <1>7, <1>10, <2>1, <2>2, <2>3, <2>4 DEF AtLine, Is
<1>11. CASE /\ step = Lead + 1 /\ Len(Now) = step /\ EppAt(2, CS_REG)
            /\ \/ ~ Inside /\ call.op = "deselect" /\ AtLine("cs", 1)
               \/ Inside /\ Pos = 0 /\ AtLine("cs", 0)
               \/ Inside /\ Pos = Outs + Ins + 1 /\ AtLine("cs", 1)
  <2>1. step' = 1 /\ piece' = piece + 1
    BY <1>2, <1>11
  <2>2. CASE ~ Inside \/ Pos = Outs + Ins + 1
    <3>1. ~ Selected'
      BY <1>4, <2>1, <2>2
    <3>2. Selected => Pos = Outs + Ins + 1 /\ Given = Outs + Ins
      BY <1>5, <1>7, <2>2 DEF Given
    <3>3. AtLine("cs", 1)
      BY <1>5, <1>11, <2>2
    <3> QED BY <1>6, <1>7, <1>11, <2>1, <3>1, <3>2, <3>3 DEF AtLine, Is
  <2>3. CASE Inside /\ Pos = 0
    <3>1. /\ Selected' /\ Pos' = 1 /\ Outs' = Outs /\ Ins' = Ins
      BY <1>4, <1>5, <2>1, <2>3
    <3>2. Given' = 0
      BY <1>8, <2>1, <3>1 DEF Given
    <3>3. AtLine("cs", 0) /\ ~ Selected
      BY <1>5, <1>7, <1>11, <2>3
    <3> QED BY <1>6, <1>7, <1>11, <2>1, <2>3, <3>1, <3>2, <3>3 DEF AtLine, Is
  <2> QED BY <1>11, <2>2, <2>3
<1>12. CASE /\ step = Lead + 1 /\ Inside /\ EppAt(2, SREG_REG)
            /\ \/ /\ Pos \in 1 .. Outs /\ AtLine("shift", Sending[Pos])
                  /\ port = "hm2" => step < Len(Now)
               \/ Pos \in Outs + 1 .. Outs + Ins /\ AtLine("shift", 0) /\ step < Len(Now)
  <2>1. Now[step].what = "shift" /\ Pos \in 1 .. Outs + Ins
        /\ (Pos <= Outs => Now[step].v = Sending[Pos])
        /\ (port = "hm2" => step < Len(Now))
    <3>1. CASE Pos \in 1 .. Outs
      BY <1>5, <1>12, <3>1 DEF AtLine, Is
    <3>2. CASE Pos \in Outs + 1 .. Outs + Ins
      BY <1>5, <1>12, <3>2 DEF AtLine, Is
    <3> QED BY <1>12, <3>1, <3>2
  <2>2. Selected /\ Given = Pos - 1
    BY <1>5, <1>8, <1>12, <2>1 DEF Selected, Given
  <2>3. Selected' /\ Given' = Pos
    <3>1. CASE step' = step + 1 /\ piece' = piece
      BY <1>3, <1>5, <1>8, <1>12, <2>1, <2>2, <3>1 DEF Given
    <3>2. CASE step' = 1 /\ piece' = piece + 1
      <4>1. Selected' /\ Pos' = Pos + 1 /\ Outs' = Outs /\ Ins' = Ins
        BY <1>4, <1>5, <1>12, <2>1, <3>2
      <4> QED BY <1>5, <1>8, <2>1, <3>2, <4>1 DEF Given
    <3> QED BY <1>2, <3>1, <3>2
  <2>4. port = "hm2" => step' = 2 /\ Pos' = Pos
    BY <1>2, <1>3, <1>8, <1>12, <2>1
  <2> QED BY <1>6, <1>7, <1>12, <2>1, <2>2, <2>3, <2>4 DEF AtLine, Is
<1>13. CASE /\ step > Lead + 1 /\ Inside /\ Pos \in 1 .. Outs + Ins
            /\ AtLine("wait", 0) /\ EppAt(4, CS_REG)
            /\ port = "hm2" => step = 2
  <2>1. Now[step].what = "wait"
    BY <1>13 DEF AtLine, Is
  <2>2. Selected /\ Given = Pos
    BY <1>5, <1>8, <1>13 DEF Selected, Given
  <2>3. Selected' /\ Given' = Pos
    <3>1. CASE step' = step + 1 /\ piece' = piece
      <4>1. step' > Lead' + 1
        BY <1>1, <1>8, <1>13, <3>1
      <4> QED BY <1>3, <1>5, <1>13, <2>2, <3>1, <4>1 DEF Given
    <3>2. CASE step' = 1 /\ piece' = piece + 1
      <4>1. Selected' /\ Pos' = Pos + 1 /\ Outs' = Outs /\ Ins' = Ins
        BY <1>4, <1>5, <1>13, <3>2
      <4> QED BY <1>5, <1>8, <1>13, <3>2, <4>1 DEF Given
    <3> QED BY <1>2, <3>1, <3>2
  <2> QED BY <1>2, <1>6, <1>7, <1>13, <2>1, <2>2, <2>3 DEF AtLine, Is, EppAt
<1>14. CASE /\ step > Lead + 1 /\ step = Len(Now) /\ Inside /\ Pos \in Outs + 1 .. Outs + Ins
            /\ AtLine("take", 0) /\ EppAt(6, SREG_REG)
            /\ port = "hm2" => step = 3
  <2>1. Now[step].what = "take" /\ Pos \in 1 .. Outs + Ins /\ Pos > Outs
    BY <1>5, <1>14 DEF AtLine, Is
  <2>2. Selected /\ Given = Pos
    BY <1>5, <1>8, <1>14, <2>1 DEF Selected, Given
  <2>3. step' = 1 /\ piece' = piece + 1
    BY <1>1, <1>2, <1>14
  <2>4. Selected' /\ Pos' = Pos + 1 /\ Outs' = Outs /\ Ins' = Ins
    BY <1>4, <1>5, <1>14, <2>1, <2>3
  <2>5. Given' = Pos
    BY <1>5, <1>8, <2>1, <2>3, <2>4 DEF Given
  <2> QED BY <1>6, <1>7, <1>14, <2>1, <2>2, <2>3, <2>4, <2>5 DEF AtLine, Is, EppAt
<1> QED BY <1>1, <1>9, <1>10, <1>11, <1>12, <1>13, <1>14 DEF RegPlace

\* The serializer is empty where a register is written, and the EPP address is
\* that of the register meant.
LEMMA RegWrite ==
  ASSUME TypeInv, RegWires, NEW what \in {"cs", "shift"}, WriteRegister(what)
  PROVE  /\ shift = Empty /\ port # "gpio" /\ Access(what)
         /\ what = "cs" => /\ Lines([line EXCEPT !.cs = Value]) /\ Value \in 0 .. 1
                           /\ line' = [line EXCEPT !.cs = Value]
                           /\ shift' = Empty /\ UNCHANGED <<sel, data>>
         /\ what = "shift" => shift' = Value /\ UNCHANGED <<line, sel, data, chipVars>>
         /\ UNCHANGED <<buff, faults>>
<1>1. /\ port # "gpio" /\ Access(what)
      /\ LET register == CASE port = "epp" -> sel
                           [] port # "epp" /\ what = "cs" -> CS_REG
                           [] OTHER -> SREG_REG
         IN IF register = CS_REG THEN WriteCs(Value % 2) ELSE WriteShift(Value)
      /\ UNCHANGED <<buff, faults>>
  BY DEF WriteRegister
<1>2. /\ Running /\ Now[step].what = what /\ Active /\ Onward
      /\ UNCHANGED <<port, call, todo>> /\ Valued(what, Value)
      /\ port \in {"io", "epp"} => shift = Empty
  BY <1>1, AccessParts
<1>3. port \in {"hm2", "io", "epp"}
  BY <1>1, SpotPiece, <1>2, Tables
<1>4. /\ step = Lead + 1
      /\ what = "cs" => EppAt(2, CS_REG)
      /\ what = "shift" => EppAt(2, SREG_REG)
  BY <1>1, <1>2, RegNext
<1>5. shift = Empty
  <2>1. CASE port = "hm2"
    <3>1. step = 1
      BY <1>4, <2>1 DEF Lead
    <3>2. call # Off
      BY <1>2 DEF Active
    <3> QED BY <2>1, <3>1, <3>2 DEF RegWires
  <2> QED BY <1>2, <1>3, <2>1
<1>6. port = "epp" => sel = IF what = "cs" THEN CS_REG ELSE SREG_REG
  BY <1>2, <1>4 DEF RegWires, EppAt
<1>7. IF what = "cs" THEN WriteCs(Value % 2) ELSE WriteShift(Value)
  BY <1>1, <1>6 DEF CS_REG, SREG_REG
<1>8. CASE what = "cs"
  <2>1. Value \in 0 .. 1
    BY <1>2, <1>8 DEF Valued
  <2>2. Value % 2 = Value
    BY <2>1
  <2>3. /\ Lines([line EXCEPT !.cs = Value]) /\ UNCHANGED <<sel, data>>
        /\ shift' = IF Value = 1 THEN Empty ELSE shift
    BY <1>7, <1>8, <2>2 DEF WriteCs
  <2> QED BY <1>1, <1>5, <1>8, <2>1, <2>3 DEF Lines
<1>9. CASE what = "shift"
  BY <1>1, <1>5, <1>7, <1>9 DEF WriteShift
<1> QED BY <1>8, <1>9

LEMMA RegWiresAccess ==
  ASSUME TypeInv, RegWires, port # "gpio",
         \/ \E what \in {"cs", "shift"} : WriteRegister(what)
         \/ SelectRegister \/ WaitForData \/ TakeByte
  PROVE  RegWires'
<1>1. PICK what \in {"cs", "shift", "select", "wait", "take"} :
         /\ Access(what)
         /\ what \in {"cs", "shift"} => WriteRegister(what)
         /\ what = "select" => SelectRegister
         /\ what = "wait" => WaitForData
         /\ what = "take" => TakeByte
  BY DEF WriteRegister, SelectRegister, WaitForData, TakeByte
<1>2. /\ Running /\ Now[step].what = what /\ Active /\ Onward
      /\ UNCHANGED <<port, call, todo>>
  BY <1>1, AccessParts
<1>3. port' # "gpio" /\ call # Off /\ (Running /\ step > 1 /\ port = "epp" => sel = Chosen(step))
      /\ (shift # Empty => line.cs = 0) /\ (Selected => line.cs = 0)
      /\ (port = "hm2" /\ shift # Empty => Selected /\ Pos <= Outs + Ins /\ step = 2)
  BY <1>2 DEF RegWires, Active
<1>4. \/ step' = step + 1 /\ piece' = piece
      \/ step' = 1
  BY <1>2 DEF Onward
<1>5. step \in 1 .. Len(Now) /\ Len(Now) \in Nat
  BY <1>2, SpotPiece
<1>6. ASSUME step' > 1 PROVE /\ step' = step + 1
                            /\ \A s : Chosen(s)' = Chosen(s)
  <2>1. step' = step + 1 /\ piece' = piece
    BY <1>4, <1>6
  <2>2. Now' = Now
    BY <1>2, <2>1 DEF Now
  <2> QED BY <2>1, <2>2 DEF Chosen
<1>7. ASSUME sel' = sel, port = "epp", step' > 1, step \in {2, 4, 6}
      PROVE  sel' = Chosen(step)'
  <2>1. sel = Chosen(step) /\ step' = step + 1 /\ \A s : Chosen(s)' = Chosen(s)
    BY <1>2, <1>3, <1>6, <1>7
  <2>2. step = 6 \/ Chosen(step + 1) = Chosen(step)
    BY <1>7 DEF Chosen
  <2>3. step # 6 \/ Chosen(step + 1) = Chosen(step)
    BY <1>7 DEF Chosen
  <2>4. Chosen(step)' = Now'[IF step' <= 3 THEN 1 ELSE IF step' <= 5 THEN 3 ELSE 5].v
    BY DEF Chosen
  <2>5. Now' = Now
    BY <1>2, <1>4, <1>7 DEF Now
  <2> QED BY <1>7, <2>1, <2>4, <2>5 DEF Chosen
<1>8. CASE what = "cs"
  <2>1. /\ line' = [line EXCEPT !.cs = Value] /\ Value \in 0 .. 1
        /\ shift' = Empty /\ UNCHANGED sel
    BY <1>1, <1>8, RegWrite
  <2>2. line'.cs = Value
    BY <2>1 DEF TypeInv, TypeOK, Registers
  <2>3. step' = 1 /\ (Selected' => AtLine("cs", 0))
    BY <1>2, <1>8, RegNext
  <2>4. Selected' => Value = 0
    BY <2>3 DEF AtLine, Is, Value
  <2> QED BY <2>1, <2>2, <2>3, <2>4 DEF RegWires
<1>9. CASE what = "shift"
  <2>1. UNCHANGED <<line, sel>>
    BY <1>1, <1>9, RegWrite
  <2>2. /\ Selected /\ Selected' /\ Pos \in 1 .. Outs + Ins /\ step = Lead + 1
        /\ port = "hm2" => step' = 2 /\ Pos' = Pos
        /\ Outs' = Outs /\ Ins' = Ins
    BY <1>2, <1>9, RegNext
  <2>3. port = "epp" => step = 2
    BY <2>2 DEF Lead
  <2> QED BY <1>2, <1>3, <1>7, <2>1, <2>2, <2>3 DEF RegWires
<1>10. CASE what = "select"
  <2>1. UNCHANGED <<line, shift>> /\ sel' = Value
    BY <1>1, <1>10 DEF SelectRegister
  <2>2. /\ (Selected' <=> Selected) /\ step' = step + 1 /\ Now[step].v = Chosen(step + 1)
        /\ port = "epp" /\ step \in {1, 3, 5}
    BY <1>2, <1>10, RegNext
  <2>3. sel' = Chosen(step)'
    <3>1. Now' = Now
      BY <1>2, <1>4, <2>2 DEF Now
    <3> QED BY <2>1, <2>2, <3>1 DEF Chosen, Value
  <2> QED BY <1>2, <1>3, <2>1, <2>2, <2>3 DEF RegWires
<1>11. CASE what = "wait"
  <2>1. UNCHANGED <<line, shift, sel>> /\ Available
    BY <1>1, <1>11 DEF WaitForData, portVars
  <2>2. /\ Selected /\ Selected'
        /\ port = "epp" => step \in {4, 6}
    BY <1>2, <1>11, RegNext
  <2>3. port = "hm2" => shift = Empty
    BY <2>1 DEF Available
  <2> QED BY <1>2, <1>3, <1>7, <2>1, <2>2, <2>3 DEF RegWires
<1>12. CASE what = "take"
  <2>1. UNCHANGED <<line, shift, sel>>
    BY <1>1, <1>12 DEF TakeByte, portVars
  <2>2. /\ Selected /\ Selected' /\ step' = 1
        /\ port = "hm2" => step = 3
    BY <1>2, <1>12, RegNext
  <2> QED BY <1>2, <1>3, <2>1, <2>2 DEF RegWires
<1> QED BY <1>8, <1>9, <1>10, <1>11, <1>12

\* Which port makes which access.
LEMMA PortAccess ==
  ASSUME TypeInv, NEW what, Access(what)
  PROVE  /\ port = "gpio" => what \notin {"shift", "wait", "take", "select"}
         /\ port # "gpio" => what # "bit"
<1>1. Running /\ Now[step].what = what
  BY AccessParts
<1>2. CASE port = "gpio"
  BY <1>1, <1>2, GpioAccess DEF GpioPlace, GpioBit, AtLine, Is
<1>3. CASE port # "gpio"
  BY <1>1, <1>3, RegAccess DEF RegPlace, AtLine, Is
<1> QED BY <1>2, <1>3

\* Neither the process nor the wires move.
LEMMA WiresSame ==
  ASSUME GpioWires, RegWires, UNCHANGED <<port, call, todo, piece, step, GPIO_reg_val, line, sel>>,
         shift' \in {shift, Empty}
  PROVE  GpioWires' /\ RegWires'
<1>1. /\ (Selected' <=> Selected) /\ Pos' = Pos /\ Outs' = Outs /\ Ins' = Ins
  BY SameSpot
<1>2. (Entering' <=> Entering) /\ (CsLow' <=> CsLow) /\ (ClkHigh' <=> ClkHigh)
  BY <1>1 DEF Entering, CsLow, ClkHigh
<1>3. (Running' <=> Running) /\ Chosen(step)' = Chosen(step)
  BY DEF Running, Chosen, Now
<1> QED BY <1>1, <1>2, <1>3 DEF GpioWires, RegWires

LEMMA WiresInit ==
  ASSUME Init
  PROVE  Wires
<1>1. /\ call = Off /\ todo = <<>> /\ shift = Empty /\ step = 1
  BY DEF Init
<1>2. ~ Selected /\ (port = "gpio" => Entering)
  BY <1>1 DEF Selected, Inside, Active, Entering
<1> QED BY <1>1, <1>2 DEF Wires, GpioWires, RegWires

LEMMA WiresStep ==
  ASSUME TypeInv, Wires, [Next]_vars
  PROVE  Wires'
<1>1. SUFFICES ASSUME faults' = 0 PROVE GpioWires' /\ RegWires'
  BY DEF Wires
<1>2. ~ WaitGivesUp /\ ~ CycleLost
  BY <1>1 DEF WaitGivesUp, CycleLost, TypeInv, TypeOK
<1>3. faults = 0
  <2>1. faults' = faults
    <3>1. CASE Open \/ Call \/ Return \/ Crash
      BY <3>1, Turning
    <3>2. CASE Process /\ ~ Return
      BY <3>2 DEF Process, DriveGpio, ReadGpioBit, WriteRegister, SelectRegister, WaitForData,
                  TakeByte, PollStatus
    <3>3. CASE Shifted \/ ChipReady \/ UNCHANGED vars
      BY <3>3 DEF Shifted, ChipReady, vars
    <3> QED BY <1>2, <3>1, <3>2, <3>3 DEF Next
  <2> QED BY <1>1, <2>1
<1>4. GpioWires /\ RegWires
  BY <1>3 DEF Wires
<1>5. CASE Open \/ Call \/ Return \/ Crash
  <2>1. /\ ~ Selected' /\ step' = 1 /\ UNCHANGED <<port, line, sel, shift>>
        /\ ~ Crash => UNCHANGED <<GPIO_reg_val>> /\ ~ Selected
        /\ ~ Crash /\ ~ Entering' => ~ Entering
        /\ port = "gpio" /\ (Crash \/ Open \/ call' = Off) => Entering'
    BY <1>5, Turning
  <2>2. GpioWires'
    <3>1. SUFFICES ASSUME port' = "gpio", ~ Entering' PROVE GpioWires'
      BY DEF GpioWires
    <3>2. /\ ~ Crash /\ ~ Entering /\ UNCHANGED <<GPIO_reg_val, line>> /\ ~ Selected
      BY <2>1, <3>1
    <3>3. GPIO_reg_val = line /\ line.cs = 1 /\ line.clk = 0
      BY <1>4, <2>1, <3>1, <3>2 DEF GpioWires, CsLow, ClkHigh
    <3>4. ~ CsLow' /\ ~ ClkHigh'
      BY <2>1 DEF CsLow, ClkHigh
    <3> QED BY <3>2, <3>3, <3>4 DEF GpioWires
  <2>3. RegWires'
    <3>1. port = "hm2" /\ call' # Off => shift = Empty
      <4>1. CASE Crash
        BY <4>1 DEF Crash
      <4>2. CASE Open
        BY <4>2 DEF Open
      <4>3. CASE Call \/ Return
        <5>1. ~ Crash /\ call # Off
          BY <2>1, <4>3 DEF Call, Return, Crash, Idle, Off, Op, Begin, TypeInv, TypeOK
        <5> QED BY <1>4, <2>1, <5>1 DEF RegWires
      <4> QED BY <1>5, <4>1, <4>2, <4>3
    <3> QED BY <1>4, <2>1, <3>1 DEF RegWires
  <2> QED BY <2>2, <2>3
<1>6. CASE \E what \in {"init", "cs", "din", "clk"} : DriveGpio(what)
  <2>1. port' = "gpio"
    BY <1>6, AccessParts DEF DriveGpio
  <2> QED BY <1>4, <1>6, <2>1, GpioWiresDrive DEF RegWires
<1>7. CASE ReadGpioBit
  <2>1. /\ Access("bit") /\ UNCHANGED <<GPIO_reg_val, line>>
    BY <1>7 DEF ReadGpioBit, portVars
  <2>2. /\ Running /\ Now[step].what = "bit" /\ Active /\ Onward
        /\ UNCHANGED <<port, call, todo>> /\ port = "gpio"
    BY <2>1, AccessParts, PortAccess
  <2>3. (CsLow' <=> CsLow) /\ ~ ClkHigh' /\ ~ ClkHigh
    BY <2>2, LineNext
  <2>4. ~ Entering
    BY <2>2, EnteringAt
  <2> QED BY <1>4, <2>1, <2>2, <2>3, <2>4 DEF GpioWires, RegWires
<1>8. CASE (\E what \in {"cs", "shift"} : WriteRegister(what))
             \/ SelectRegister \/ WaitForData \/ TakeByte
  <2>1. port # "gpio" /\ port' = port
    BY <1>8, PortAccess, AccessParts DEF WriteRegister, SelectRegister, WaitForData, TakeByte
  <2>2. RegWires'
    BY <1>4, <1>8, <2>1, RegWiresAccess
  <2> QED BY <2>1, <2>2 DEF GpioWires
<1>9. CASE PollStatus
  <2>1. /\ UNCHANGED <<port, call, GPIO_reg_val, line, sel, shift>>
    BY <1>9 DEF PollStatus, Due, portVars
  <2>2. /\ ~ Selected /\ ~ Selected' /\ Active /\ ~ Entering' /\ step' = 1 /\ ~ Inside
    BY <1>9, PollNext
  <2>3. ~ Entering
    <3>1. Running /\ Now[step].what = "poll"
      BY <1>9 DEF PollStatus, Due
    <3> QED BY <2>2, <3>1, EnteringAt
  <2>4. ~ CsLow /\ ~ ClkHigh /\ ~ CsLow' /\ ~ ClkHigh'
    BY <2>2 DEF CsLow, ClkHigh
  <2>5. GpioWires'
    BY <1>4, <2>1, <2>3, <2>4 DEF GpioWires
  <2>6. RegWires'
    BY <1>4, <2>1, <2>2 DEF RegWires
  <2> QED BY <2>5, <2>6
<1>10. CASE Shifted \/ ChipReady \/ UNCHANGED vars
  <2>1. /\ UNCHANGED <<port, call, todo, piece, step, GPIO_reg_val, line, sel>>
        /\ shift' \in {shift, Empty}
    BY <1>10 DEF Shifted, ChipReady, vars, progVars, portVars
  <2> QED BY <1>4, <2>1, WiresSame
<1> QED BY <1>2, <1>5, <1>6, <1>7, <1>8, <1>9, <1>10 DEF Next, Process

-----------------------------------------------------------------------------
(* What the chip has of a command, while nothing was lost and the chip       *)
(* listens: the bytes that were sent, whole or bit by bit, and nothing       *)
(* between two commands; it is busy only from the end of a write or an erase *)
(* until the status said so.                                                 *)

Clean == faults = 0 /\ LeftClean

\* Byte j of the answer; of a status only that it tells of a write under way.
Expected(j) ==
  CASE call.op = "open" -> FlashId
    [] call.op = "read" -> mem[call.at + j - 1]
    [] OTHER -> 1
Stands == Changes(call) => wip

Polling ==
  /\ Active /\ Changes(call) /\ piece <= Size(call) + 10
  /\ piece >= Size(call) + 6 \/ (port = "gpio" /\ piece = Size(call) + 5 /\ step = 2)

Resting ==
  ~ Selected => IF port = "gpio" THEN Entering => ~ Writes /\ ~ Erases
                ELSE got = <<>> /\ shift = Empty

Heard == \A i \in 1 .. Len(got) : i <= Outs => got[i] = Sending[i]

RegTrack ==
  port # "gpio" /\ Selected =>
    /\ Sent = Given
    /\ shift # Empty /\ Given <= Outs => shift = Sending[Given]
    /\ Stands /\ Given = Pos /\ Pos > Outs /\ shift = Empty => data = Expected(Pos - Outs)

Taken == step \div 3   \* bits of a gpio byte that the clock has brought
GpioTrack ==
  port = "gpio" /\ Selected =>
    /\ Pos <= Outs + Ins => IF Taken = ByteBits THEN bits = 0 /\ Len(got) = Pos
                            ELSE bits = Taken /\ Len(got) = Pos - 1
    /\ Pos = Outs + Ins + 1 /\ step = 1 => bits = 0 /\ Len(got) = Pos - 1
    /\ Pos <= Outs => /\ part = Sending[Pos] \div TwoTo[ByteBits - bits]
                      /\ step % 3 = 2 => line.din = Bit(Sending[Pos], bits)

\* A gpio byte of which only the first bits are there.
UnderWay == port = "gpio" /\ Receiving(call, piece) /\ step > 1
Told ==
  Active /\ Stands =>
    /\ \A j \in 1 .. Len(buff) : j < Len(buff) \/ ~ UnderWay => buff[j] = Expected(j)
    /\ UnderWay => \A t \in 0 .. ByteBits - 1 : step \in {3 * t + 2, 3 * t + 3, 3 * t + 4} =>
                     buff[Len(buff)] = (Expected(Len(buff)) \div Weight(t)) * Weight(t)

Tracked ==
  /\ wip => Polling
  /\ Resting
  /\ Selected => Heard
  /\ RegTrack
  /\ GpioTrack
  /\ Told

Track == Clean => Tracked

\* While a write is under way only a status is asked for.
LEMMA PollingAt ==
  ASSUME TypeInv, Polling, Inside, Pos <= Outs + Ins \/ port # "gpio"
  PROVE  Sending = <<READ_STATUS>> /\ Outs = 1 /\ Ins = 1
<1> DEFINE c == call   p == piece   k == Size(c)
<1>1. c \in Calls \cup {Calling} /\ p \in Nat \ {0}
  BY SpotType
<1>2. Changes(c) /\ p >= k + 5 /\ (p >= k + 6 \/ p = k + 5)
  <2>1. k \in Nat
    BY <1>1, Numbers DEF Polling
  <2> QED BY <1>1, <2>1 DEF Polling
<1>3. /\ k \in Nat \ {0}
      /\ Bytes(c, p) = (IF p <= 3 THEN <<WRITE_ENABLE>>
                        ELSE IF p <= k + 5 THEN ChangeBytes(c) ELSE <<READ_STATUS>>)
      /\ Asks(c, p) = (IF p <= k + 5 THEN 0 ELSE 1)
      /\ Len(Bytes(c, p)) = (IF p <= 3 THEN 1 ELSE IF p <= k + 5 THEN k ELSE 1)
      /\ Past(c, p) = p - (IF p <= 3 THEN 1 ELSE IF p <= k + 5 THEN 4 ELSE k + 6)
  BY <1>1, <1>2, Numbers
<1>4. p # k + 5
  <2>1. SUFFICES ASSUME p = k + 5 PROVE FALSE
    OBVIOUS
  <2>2. Pos = k + 1 /\ Outs = k /\ Ins = 0
    BY <1>1, <1>3, <2>1 DEF Pos, Outs, Ins, Sending
  <2>3. port = "gpio"
    BY <1>3, <2>1 DEF Polling
  <2> QED BY <1>3, <2>2, <2>3
<1>5. p > k + 5 /\ p > 3
  BY <1>1, <1>2, <1>3, <1>4
<1> QED BY <1>1, <1>3, <1>5 DEF Sending, Outs, Ins

\* The chip takes every byte of a command, so it has what was sent.
LEMMA ByteHeard ==
  ASSUME TypeInv, Selected, Pos <= Outs + Ins \/ port # "gpio", wip => Polling, Heard,
         NEW b \in Byte,
         Len(got) < Outs => b = Sending[Len(got) + 1]
  PROVE  /\ Took(b) = Append(got, b)
         /\ \A i \in 1 .. Len(got) + 1 : i <= Outs => Took(b)[i] = Sending[i]
<1>1. Chip /\ Inside /\ Outs \in Nat \ {0}
  BY Parts, SpotType DEF TypeInv, Selected
<1>2. Len(got) \in Nat /\ got \in Seq(Byte \cup {NoCommand})
  BY <1>1, GotType DEF Chip
<1>3. ~ (got = <<>> /\ wip /\ b # READ_STATUS)
  <2>1. SUFFICES ASSUME got = <<>>, wip PROVE b = READ_STATUS
    OBVIOUS
  <2>2. Sending = <<READ_STATUS>>
    BY <1>1, <2>1, PollingAt
  <2>3. b = Sending[1]
    BY <1>1, <2>1
  <2> QED BY <2>2, <2>3
<1>4. Took(b) = Append(got, b)
  BY <1>3 DEF Took
<1>5. /\ \A i \in 1 .. Len(got) : Took(b)[i] = got[i]
      /\ Took(b)[Len(got) + 1] = b
  BY <1>2, <1>4
<1>6. ASSUME NEW i \in 1 .. Len(got) + 1, i <= Outs PROVE Took(b)[i] = Sending[i]
  <2>1. CASE i \in 1 .. Len(got)
    BY <1>5, <1>6, <2>1 DEF Heard
  <2>2. CASE i = Len(got) + 1
    <3>1. Len(got) < Outs
      BY <1>1, <1>2, <1>6, <2>2
    <3>2. b = Sending[i]
      BY <2>2, <3>1
    <3> QED BY <1>5, <2>2, <3>2
  <2> QED BY <1>2, <2>1, <2>2
<1> QED BY <1>4, <1>6

\* Three address bytes make the address again.
LEMMA AddressAgain ==
  ASSUME NEW a \in Addresses
  PROVE  LET w == a \div (SectorPages * PageSize)  v == (a \div PageSize) % SectorPages IN
         /\ w % Sectors = w /\ v % SectorPages = v /\ (a % PageSize) % PageSize = a % PageSize
         /\ (w * SectorPages + v) * PageSize + (a % PageSize) = a
         /\ (w * SectorPages + v) = a \div PageSize
         /\ w \in Nat /\ v \in Nat /\ a % PageSize \in 0 .. PageSize - 1
<1> DEFINE P == PageSize  S == SectorPages  u == a \div P  w == a \div (S * P)  v == u % S
           r == a % P
<1>1. P \in Nat \ {0} /\ S \in Nat \ {0} /\ Sectors \in Nat \ {0} /\ S * P \in Nat \ {0}
  BY Sizes
<1>2. a \in Nat
  BY <1>1 DEF Addresses
<1>3. u \in Nat /\ r \in 0 .. P - 1 /\ a = P * u + r
  BY <1>1, <1>2
<1>4. v \in 0 .. S - 1 /\ u \div S \in Nat /\ u = S * (u \div S) + v
  <2> HIDE DEF u
  <2> QED BY <1>1, <1>3
<1>5. w = u \div S
  <2> DEFINE q == u \div S  e == P * v + r
  <2>1. q \in Nat /\ v \in 0 .. S - 1 /\ u = S * q + v
    BY <1>4
  <2> HIDE DEF q, u, v, r
  <2>2. e \in 0 .. S * P - 1
    <3>1. P * v <= P * (S - 1) /\ P * v \in Nat
      BY <1>1, <2>1
    <3>2. P * (S - 1) = S * P - P
      BY <1>1
    <3> QED BY <1>1, <1>3, <3>1, <3>2
  <2>3. a = (S * P) * q + e
    <3>1. P * u = P * (S * q) + P * v
      BY <1>1, <2>1
    <3>2. P * (S * q) = (S * P) * q
      BY <1>1, <2>1
    <3> QED BY <1>1, <1>3, <2>1, <3>1, <3>2
  <2>4. ((S * P) * q + e) \div (S * P) = q
    <3> HIDE DEF e
    <3> QED BY <1>1, <2>1, <2>2, QuotientOf
  <2> QED BY <2>3, <2>4 DEF q
<1>6. w \in 0 .. Sectors - 1
  BY AddressBytes
<1>7. w % Sectors = w /\ v % S = v /\ r % P = r
  <2> HIDE DEF w, v, r
  <2>1. \A n \in Nat \ {0} : \A x \in 0 .. n - 1 : x % n = x
    OBVIOUS
  <2>2. w % Sectors = w
    BY <1>1, <1>6, <2>1
  <2>3. v % S = v
    BY <1>1, <1>4, <2>1
  <2>4. r % P = r
    BY <1>1, <1>3, <2>1
  <2> QED BY <2>2, <2>3, <2>4
<1>8. w * S + v = u
  <2> HIDE DEF w, v, u
  <2> QED BY <1>1, <1>3, <1>4, <1>5
<1>9. u * P + r = a
  <2> HIDE DEF u, r
  <2> QED BY <1>1, <1>3
<1> QED BY <1>3, <1>4, <1>6, <1>7, <1>8, <1>9

\* The bytes behind the command code are the address.
LEMMA ReadAddress ==
  ASSUME NEW c, c.at \in Addresses
  PROVE  \A i \in 1 .. 3 : ReadBytes(c)[1 + i] = SendAddress(c.at)[i]
BY DEF ReadBytes, SendAddress

\* An address that the chip has is the one sent.
LEMMA TargetIs ==
  ASSUME NEW a \in Addresses, \A i \in 1 .. 3 : got[1 + i] = SendAddress(a)[i]
  PROVE  Target = a /\ Base = (a \div PageSize) * PageSize /\ got[4] = a % PageSize
<1>1. /\ got[2] = a \div (SectorPages * PageSize)
      /\ got[3] = (a \div PageSize) % SectorPages
      /\ got[4] = a % PageSize
  <2>1. got[1 + 1] = SendAddress(a)[1] /\ got[1 + 2] = SendAddress(a)[2]
        /\ got[1 + 3] = SendAddress(a)[3]
    OBVIOUS
  <2> QED BY <2>1, AddressBytes
<1> QED BY <1>1, AddressAgain DEF Target, Base

\* A page lies within the chip.
LEMMA PageFits ==
  ASSUME NEW a \in Addresses, a % PageSize = 0, NEW k \in 0 .. PageSize - 1
  PROVE  /\ a + k \in Addresses
         /\ (a + k) % (Sectors * SectorPages * PageSize) = a + k
<1> DEFINE P == PageSize  T == Sectors * SectorPages  u == a \div P
<1>1. P \in Nat \ {0} /\ T \in Nat \ {0} /\ T * P \in Nat \ {0}
  BY Sizes
<1>2. a \in 0 .. T * P - 1
  BY DEF Addresses
<1>3. u \in 0 .. T - 1 /\ a = P * u
  <2>1. u \in 0 .. T - 1
    <3> HIDE DEF T
    <3> QED BY <1>1, <1>2, QuotientBelow
  <2> HIDE DEF T
  <2> QED BY <1>1, <1>2, <2>1
<1>4. a + P <= T * P
  <2> HIDE DEF u, T
  <2>1. P * u <= P * (T - 1)
    BY <1>1, <1>3
  <2>2. P * (T - 1) = T * P - P
    BY <1>1
  <2>3. P * u \in Int /\ P * (T - 1) \in Int
    BY <1>1, <1>3
  <2> QED BY <1>1, <1>3, <2>1, <2>2, <2>3
<1>5. a + k \in 0 .. T * P - 1
  <2> HIDE DEF T
  <2> QED BY <1>1, <1>2, <1>4
<1>6. (a + k) % (T * P) = a + k
  <2> HIDE DEF T
  <2> QED BY <1>1, <1>5
<1> QED BY <1>5, <1>6 DEF Addresses

\* What the chip answers to a command it has heard is what was asked for.
LEMMA AnswerRight ==
  ASSUME TypeInv, Selected, Pos \in Outs + 1 .. Outs + Ins, Len(got) = Pos - 1, Heard, Stands
  PROVE  OutByte = Expected(Pos - Outs)
<1> DEFINE c == call   p == piece   k == Size(c)
<1>1. /\ Chip /\ Inside /\ c \in Calls \cup {Calling} /\ p \in Nat \ {0}
      /\ Outs \in Nat \ {0} /\ Ins \in Nat /\ Pos \in Nat
  BY Parts, SpotType DEF TypeInv, Selected
<1>2. \A i \in 1 .. Len(got) : i <= Outs => got[i] = Sending[i]
  BY DEF Heard
<1>3. c.op \in {"read", "write", "erase", "deselect", "close", "open"}
  BY <1>1, Numbers
<1>4. CASE c.op = "open"
  <2>1. Outs = 4 /\ Ins = 1 /\ Sending = IdBytes
    BY <1>1, <1>4, Numbers DEF Outs, Ins, Sending
  <2>2. Len(got) = 4
    BY <1>1, <2>1
  <2>3. got[1] = READ_IDROM
    <3>1. got[1] = Sending[1]
      BY <1>2, <2>1, <2>2
    <3>2. IdBytes[1] = READ_IDROM
      BY <1>1, CommandBytes
    <3> QED BY <2>1, <3>1, <3>2
  <2>4. got[1] # READ_STATUS
    BY <2>3, CodesType
  <2>6. got[1] # READ
    BY <2>3, CodesType
  <2>5. OutByte = FlashId
    <3>1. Len(got) >= 4
      BY <1>1, <2>1
    <3> QED BY <2>3, <2>4, <2>6, <3>1 DEF OutByte
  <2> QED BY <1>4, <2>5 DEF Expected
<1>5. CASE c.op = "read"
  <2>1. Outs = 4 /\ Ins = PageSize /\ Sending = ReadBytes(c) /\ PageSize \in Nat \ {0}
    BY <1>1, <1>5, Numbers DEF Outs, Ins, Sending
  <2>2. Len(got) \in Nat /\ Len(got) >= 4 /\ Pos - Outs \in 1 .. PageSize
        /\ Len(got) - 4 = Pos - Outs - 1
    BY <1>1, <2>1
  <2>3. c.at \in Addresses /\ c.at % PageSize = 0
    BY <1>1, <1>5, CallType
  <2>4. got[1] = READ /\ \A i \in 1 .. 3 : got[1 + i] = SendAddress(c.at)[i]
    <3>1. \A i \in 1 .. 4 : got[i] = ReadBytes(c)[i]
      BY <1>2, <2>1, <2>2
    <3>2. ReadBytes(c)[1] = READ
      BY <1>1, CommandBytes
    <3>3. \A i \in 1 .. 3 : ReadBytes(c)[1 + i] = SendAddress(c.at)[i]
      BY <2>3, ReadAddress
    <3> QED BY <3>1, <3>2, <3>3
  <2>5. Target = c.at
    BY <2>3, <2>4, TargetIs
  <2>6. OutByte = mem[(c.at + Len(got) - 4) % (Sectors * SectorPages * PageSize)]
    <3>1. got[1] # READ_STATUS /\ got[1] # READ_IDROM
      BY <2>4, CodesType
    <3> QED BY <2>2, <2>4, <2>5, <3>1 DEF OutByte
  <2>7. c.at \in Int /\ c.at + Len(got) - 4 = c.at + (Pos - Outs - 1)
    <3>1. c.at \in Int
      BY <2>3, Sizes DEF Addresses
    <3> QED BY <1>1, <2>1, <2>2, <3>1
  <2>8. Pos - Outs - 1 \in 0 .. PageSize - 1
    BY <1>1, <2>1, <2>2
  <2>9. (c.at + (Pos - Outs - 1)) % (Sectors * SectorPages * PageSize) = c.at + (Pos - Outs - 1)
    BY <2>3, <2>8, PageFits
  <2>10. c.at + (Pos - Outs - 1) = c.at + (Pos - Outs) - 1
    BY <1>1, <2>1, <2>7
  <2> QED BY <1>5, <2>6, <2>7, <2>9, <2>10 DEF Expected
<1>6. CASE Changes(c)
  <2>1. /\ Asks(c, p) = (IF p <= k + 5 THEN 0 ELSE 1)
        /\ Bytes(c, p) = (IF p <= 3 THEN <<WRITE_ENABLE>>
                          ELSE IF p <= k + 5 THEN ChangeBytes(c) ELSE <<READ_STATUS>>)
        /\ Len(Bytes(c, p)) = (IF p <= 3 THEN 1 ELSE IF p <= k + 5 THEN k ELSE 1)
        /\ k \in Nat \ {0}
    BY <1>1, <1>6, Numbers
  <2>2. Ins # 0
    BY <1>1
  <2>3. p > k + 5
    BY <1>1, <2>1, <2>2 DEF Ins
  <2>4. Outs = 1 /\ Ins = 1 /\ Sending = <<READ_STATUS>>
    BY <1>1, <2>1, <2>3 DEF Outs, Ins, Sending
  <2>5. Len(got) = 1
    BY <1>1, <2>4
  <2>6. got[1] = READ_STATUS
    BY <1>2, <2>4, <2>5
  <2>7. wip
    BY <1>6 DEF Stands
  <2>8. OutByte = 1
    <3>1. Len(got) >= 1
      BY <2>5
    <3>2. got[1] # READ_IDROM /\ got[1] # READ
      BY <2>6, CodesType
    <3> QED BY <2>5, <2>6, <2>7, <3>1, <3>2 DEF OutByte
  <2> QED BY <1>6, <2>8 DEF Expected, Changes
<1>7. CASE c.op \in {"deselect", "close"}
  BY <1>1, <1>7, Numbers DEF Inside
<1> QED BY <1>3, <1>4, <1>5, <1>6, <1>7 DEF Changes

\* A command that changes the contents is sent by a call to do so.
LEMMA ChangesWhere ==
  ASSUME TypeInv, Inside, Sending[1] \in {PAGE_WRITE, SECTOR_ERASE}
  PROVE  /\ Changes(call) /\ Sending = ChangeBytes(call) /\ piece <= Size(call) + 5
         /\ Outs = Size(call) /\ Ins = 0 /\ Pos = piece - 4
<1> DEFINE c == call   p == piece   k == Size(c)
<1>1. c \in Calls \cup {Calling} /\ p \in Nat \ {0}
  BY SpotType
<1>2. c.op \in {"read", "write", "erase", "deselect", "close", "open"}
  BY <1>1, Numbers
<1>3. CASE c.op = "open"
  <2>1. Sending = IdBytes
    BY <1>1, <1>3, Numbers DEF Sending
  <2>2. IdBytes[1] = READ_IDROM
    BY <1>1, CommandBytes
  <2> QED BY <2>1, <2>2, CodesType
<1>4. CASE c.op = "read"
  <2>1. Sending = ReadBytes(c)
    BY <1>1, <1>4, Numbers DEF Sending
  <2>2. ReadBytes(c)[1] = READ
    BY <1>1, CommandBytes
  <2> QED BY <2>1, <2>2, CodesType
<1>5. CASE Changes(c)
  <2>1. /\ Bytes(c, p) = (IF p <= 3 THEN <<WRITE_ENABLE>>
                          ELSE IF p <= k + 5 THEN ChangeBytes(c) ELSE <<READ_STATUS>>)
        /\ Len(Bytes(c, p)) = (IF p <= 3 THEN 1 ELSE IF p <= k + 5 THEN k ELSE 1)
        /\ Asks(c, p) = (IF p <= k + 5 THEN 0 ELSE 1)
        /\ Past(c, p) = p - (IF p <= 3 THEN 1 ELSE IF p <= k + 5 THEN 4 ELSE k + 6)
        /\ k \in Nat \ {0}
    BY <1>1, <1>5, Numbers
  <2>2. CASE p <= 3
    <3>1. Sending = <<WRITE_ENABLE>>
      BY <2>1, <2>2 DEF Sending
    <3> QED BY <3>1, CodesType
  <2>3. CASE p > k + 5 /\ ~ (p <= 3)
    <3>1. Sending = <<READ_STATUS>>
      BY <1>1, <2>1, <2>3 DEF Sending
    <3> QED BY <3>1, CodesType
  <2>4. CASE ~ (p <= 3) /\ p <= k + 5
    <3>1. Sending = ChangeBytes(c) /\ Outs = k /\ Ins = 0 /\ Pos = p - 4
      BY <2>1, <2>4 DEF Sending, Outs, Ins, Pos
    <3> QED BY <1>5, <2>4, <3>1
  <2> QED BY <1>1, <2>1, <2>2, <2>3, <2>4
<1>6. CASE c.op \in {"deselect", "close"}
  BY <1>1, <1>6, Numbers DEF Inside
<1> QED BY <1>2, <1>3, <1>4, <1>5, <1>6 DEF Changes

\* Where a whole command that changes the contents is handed over.
LEMMA WritesWhere ==
  ASSUME TypeInv, Selected, Pos = Outs + Ins + 1, Len(got) = Pos - 1, Heard, Writes \/ Erases
  PROVE  Changes(call) /\ piece = Size(call) + 5 /\ Sending = ChangeBytes(call)
<1>1. /\ Inside /\ call \in Calls \cup {Calling} /\ piece \in Nat \ {0}
      /\ Outs \in Nat \ {0} /\ Ins \in Nat /\ Pos \in Nat
  BY SpotType DEF Selected
<1>2. Sending[1] \in {PAGE_WRITE, SECTOR_ERASE}
  <2>1. got[1] = Sending[1]
    BY <1>1 DEF Heard
  <2> QED BY <2>1 DEF Writes, Erases
<1>3. /\ Changes(call) /\ Sending = ChangeBytes(call)
      /\ Outs = Size(call) /\ Ins = 0 /\ Pos = piece - 4
  BY <1>1, <1>2, ChangesWhere
<1> QED BY <1>1, <1>3

\* A write is under way until the status was read that says it is not.
LEMMA PollingNext ==
  ASSUME TypeInv, Running, Onward, UNCHANGED <<port, call, todo>>, Polling,
         Now[step].what # "poll"
  PROVE  Polling'
<1> DEFINE c == call   p == piece   k == Size(c)
<1>1. /\ Active /\ c \in Calls \cup {Calling} /\ p \in Nat \ {0} /\ Changes(c)
      /\ step \in 1 .. Len(Now) /\ Len(Now) \in Nat \ {0}
  BY SpotPiece DEF Polling
<1>2. k \in Nat \ {0} /\ (Within(c, p) <=> p <= k + 9)
  BY <1>1, Numbers
<1>3. p <= k + 9
  <2>1. SUFFICES ASSUME ~ Inside PROVE FALSE
    BY <1>1, <1>2 DEF Inside
  <2>2. c.op \notin {"deselect", "open", "close"}
    BY <1>1 DEF Changes
  <2> QED BY <2>1, <2>2, SpotPiece
<1>4. p < k + 6 => port = "gpio" /\ p = k + 5 /\ step = 2
  BY <1>1, <1>2 DEF Polling
<1>5. piece' >= k + 6
  <2>1. CASE p >= k + 6
    BY <1>1, <1>2, <2>1 DEF Onward
  <2>2. CASE p < k + 6
    <3>1. Pos = k + 1 /\ Outs = k /\ Ins = 0 /\ Inside
      <4>1. Past(c, p) = p - 4 /\ Len(Bytes(c, p)) = k /\ Asks(c, p) = 0
        <5>1. p = k + 5 /\ ~ (p <= 3) /\ p <= k + 5
          BY <1>1, <1>2, <1>4, <2>2
        <5> QED BY <1>1, <5>1, Numbers
      <4> QED BY <1>1, <1>2, <1>3, <1>4, <2>2, <4>1 DEF Pos, Outs, Ins, Sending, Inside
    <3>2. Now = Suffix
      BY <1>2, <3>1, SpotPiece
    <3>3. Len(Now) = 2
      <4>1. port = "gpio" /\ port \in Ports
        BY <1>4, <2>2, SpotPiece
      <4>2. Len(Suffix) = 2
        BY <4>1, Tables DEF GpioTable
      <4> QED BY <3>2, <4>2
    <3> QED BY <1>2, <1>4, <2>2, <3>3 DEF Onward
  <2> QED BY <1>1, <1>2, <2>1, <2>2
<1>6. piece' <= k + 10
  BY <1>1, <1>2, <1>3 DEF Onward
<1>7. Size(call)' = Size(call) /\ (Changes(call)' <=> Changes(call)) /\ (Active' <=> Active)
  BY DEF Size, ChangeBytes, SendAddress, Changes, Active
<1> QED BY <1>1, <1>5, <1>6, <1>7 DEF Polling

\* How far the answer has come.
LEMMA FilledAt ==
  ASSUME TypeInv, Inside
  PROVE  /\ Receiving(call, piece) <=> Pos \in Outs + 1 .. Outs + Ins
         /\ Pos \in Outs + 1 .. Outs + Ins =>
              /\ Filled(call, piece, step) = Pos - Outs - 1 + Begun(step)
              /\ Len(buff) = Pos - Outs - 1 + Begun(step)
<1> DEFINE c == call   p == piece
<1>1. /\ c \in Calls \cup {Calling} /\ p \in Nat \ {0} /\ Active
  BY SpotType DEF Inside
<1>2. Receiving(c, p) <=> Pos \in Outs + 1 .. Outs + Ins
  BY DEF Receiving, Inside, Pos, Outs, Ins, Sending
<1>3. Len(buff) = Filled(c, p, step)
  BY <1>1 DEF TypeInv, Answered
<1>4. ASSUME Pos \in Outs + 1 .. Outs + Ins
      PROVE  Filled(c, p, step) = Pos - Outs - 1 + Begun(step)
  <2>1. Receiving(c, p)
    BY <1>2, <1>4
  <2>2. Begun(step) \in 0 .. 1 /\ PageSize \in Nat \ {0} /\ IdAt \in 1 .. 2
    BY <1>1, Numbers DEF Begun
  <2>3. CASE c.op = "open"
    <3>1. p = IdAt + 5 /\ Pos = p - IdAt /\ Outs = 4
      BY <1>1, <2>1, <2>3, ReceivingAt, Numbers DEF Pos, Outs, Sending
    <3>2. Filled(c, p, step) = Begun(step)
      BY <2>2, <2>3, <3>1 DEF Filled
    <3> QED BY <2>2, <3>1, <3>2
  <2>4. CASE c.op = "read"
    <3>1. p > 5 /\ p <= PageSize + 5 /\ Pos = p - 1 /\ Outs = 4
      BY <1>1, <2>1, <2>4, ReceivingAt, Numbers DEF Pos, Outs, Sending
    <3>2. Filled(c, p, step) = p - 6 + Begun(step)
      BY <1>1, <2>2, <2>4, <3>1 DEF Filled
    <3> QED BY <1>1, <2>2, <3>1, <3>2
  <2>5. CASE Changes(c)
    <3>1. p = Size(c) + 8 /\ Size(c) \in Nat \ {0}
      BY <1>1, <2>1, <2>5, ReceivingAt, Numbers
    <3>2. Past(c, p) = p - (Size(c) + 6) /\ Len(Bytes(c, p)) = 1
      <4>1. ~ (p <= 3) /\ ~ (p <= Size(c) + 5)
        BY <3>1
      <4> QED BY <1>1, <2>5, <4>1, Numbers
    <3>3. Filled(c, p, step) = Begun(step)
      <4>1. c.op # "open" /\ c.op # "read"
        BY <2>5 DEF Changes
      <4> QED BY <2>2, <2>5, <3>1, <4>1 DEF Filled
    <3>4. Pos = 2 /\ Outs = 1
      BY <3>1, <3>2 DEF Pos, Outs, Sending
    <3> QED BY <2>2, <3>3, <3>4
  <2>6. CASE c.op \in {"deselect", "close"}
    BY <1>1, <2>1, <2>6, ReceivingAt
  <2> QED BY <1>1, <2>3, <2>4, <2>5, <2>6, Numbers DEF Changes
<1> QED BY <1>2, <1>3, <1>4

\* What is expected is a byte.
LEMMA ExpectedType ==
  ASSUME TypeInv, Active, NEW j \in 1 .. PageSize
  PROVE  Expected(j) \in Byte
<1>1. call \in Calls \cup {Calling} /\ Chip
  BY Parts DEF TypeInv, Control, Active
<1>2. FlashId \in Byte /\ 1 \in Byte
  BY ByteType, PortAssumption
<1>3. ASSUME call.op = "read" PROVE mem[call.at + j - 1] \in Byte
  <2>1. call.at \in Addresses /\ call.at % PageSize = 0
    BY <1>1, <1>3, CallType
  <2>2. PageSize \in Nat \ {0} /\ call.at \in Int
    BY <2>1, Sizes DEF Addresses
  <2>3. j - 1 \in 0 .. PageSize - 1
    BY <2>2
  <2>4. call.at + (j - 1) \in Addresses
    BY <2>1, <2>3, PageFits
  <2>5. call.at + (j - 1) = call.at + j - 1
    BY <2>2
  <2> QED BY <1>1, <2>4, <2>5 DEF Chip, Memory
<1> QED BY <1>2, <1>3 DEF Expected

\* What an access that reads nothing leaves is the answer so far.
LEMMA ToldKept ==
  ASSUME TypeInv, Running, Onward, UNCHANGED <<port, call, todo, buff>>, Told,
         Now[step].what \notin {"take", "bit", "poll"},
         call.op = "read" => mem' = mem,
         Stands' => Stands \/ (buff = <<>> /\ ~ Receiving(call, piece))
  PROVE  Told'
<1> DEFINE c == call   p == piece   s == step   last == buff[Len(buff)]
<1>1. /\ Active /\ c \in Calls \cup {Calling} /\ port \in Ports
      /\ p \in Nat \ {0} /\ s \in 1 .. Len(Now) /\ Len(Now) \in Nat \ {0}
      /\ ByteBits \in Nat \ {0} /\ buff \in Seq(Byte) /\ Len(buff) <= PageSize
  BY SpotPiece, Sizes, Parts DEF TypeInv, Received
<1>2. \A j : Expected(j)' = Expected(j)
  <2> SUFFICES ASSUME NEW CONSTANT j PROVE Expected(j)' = Expected(j)
    OBVIOUS
  <2> QED BY DEF Expected
<1>3. SUFFICES ASSUME Active', Stands' PROVE
        /\ \A j \in 1 .. Len(buff) : j < Len(buff) \/ ~ UnderWay' => buff[j] = Expected(j)
        /\ UnderWay' => \A t \in 0 .. ByteBits - 1 : step' \in {3 * t + 2, 3 * t + 3, 3 * t + 4} =>
                          last = (Expected(Len(buff)) \div Weight(t)) * Weight(t)
  BY <1>2 DEF Told
<1>4. ~ UnderWay \/ (UnderWay /\ Stands)
  BY <1>3 DEF UnderWay
<1>5. CASE ~ UnderWay
  <2>1. ~ UnderWay'
    <3>1. ~ (port = "gpio" /\ Receiving(c, p))
      <4>1. SUFFICES ASSUME port = "gpio", Receiving(c, p), s = 1 PROVE FALSE
        BY <1>1, <1>5 DEF UnderWay
      <4>2. Now = RecvByte
        BY <1>1, <4>1, Where DEF TypeInv
      <4>3. Is(RecvByte[3 * 0 + 1], "bit", 0)
        <5>1. 0 \in 0 .. ByteBits - 1
          BY <1>1
        <5> QED BY <1>1, <4>1, <5>1, Tables DEF GpioTable
      <4> QED BY <4>1, <4>2, <4>3 DEF Is
    <3>2. CASE piece' = piece
      BY <3>1, <3>2, SamePlaces DEF UnderWay
    <3>3. CASE step' = 1
      BY <3>3 DEF UnderWay
    <3> QED BY <3>2, <3>3 DEF Onward
  <2>2. \A j \in 1 .. Len(buff) : buff[j] = Expected(j)
    <3>1. CASE Stands
      BY <1>1, <1>5, <3>1 DEF Told
    <3>2. CASE buff = <<>>
      BY <3>2
    <3> QED BY <1>3, <3>1, <3>2
  <2> QED BY <2>1, <2>2
<1>6. CASE UnderWay /\ Stands
  <2>1. /\ port = "gpio" /\ Receiving(c, p) /\ s > 1
        /\ \A j \in 1 .. Len(buff) : j < Len(buff) => buff[j] = Expected(j)
        /\ \A t \in 0 .. ByteBits - 1 : s \in {3 * t + 2, 3 * t + 3, 3 * t + 4} =>
             last = (Expected(Len(buff)) \div Weight(t)) * Weight(t)
    BY <1>1, <1>6 DEF Told, UnderWay
  <2>2. Now = RecvByte
    BY <1>1, <2>1, Where DEF TypeInv
  <2>3. /\ Len(RecvByte) = 3 * ByteBits
        /\ \A t \in 0 .. ByteBits - 1 : Is(RecvByte[3 * t + 1], "bit", t)
    BY <1>1, <2>1, Tables DEF GpioTable
  <2>4. \A t \in 0 .. ByteBits - 1 : s # 3 * t + 1
    BY <2>2, <2>3 DEF Is
  <2>5. Len(buff) \in 1 .. PageSize
    <3>1. Inside /\ Pos \in Outs + 1 .. Outs + Ins
      <4>1. Inside
        BY <1>1, <2>1 DEF Inside, Receiving
      <4> QED BY <2>1, <4>1, FilledAt
    <3>2. Len(buff) = Pos - Outs - 1 + Begun(s)
      BY <3>1, FilledAt
    <3>3. Begun(s) = 1 /\ Pos \in Nat /\ Outs \in Nat /\ Ins \in Nat
      BY <2>1, <3>1, SpotType DEF Begun
    <3>4. Len(buff) \in Nat /\ PageSize \in Nat
      BY <1>1, Sizes
    <3>5. Len(buff) >= 1
      BY <3>1, <3>2, <3>3
    <3> QED BY <1>1, <3>4, <3>5
  <2>6. CASE step' = s + 1 /\ piece' = p
    <3>1. UnderWay'
      BY <1>1, <2>1, <2>6, SamePlaces DEF UnderWay
    <3>2. ASSUME NEW t \in 0 .. ByteBits - 1, step' \in {3 * t + 2, 3 * t + 3, 3 * t + 4}
          PROVE  s \in {3 * t + 2, 3 * t + 3, 3 * t + 4}
      <4>0. s # 3 * t + 1
        BY <2>4
      <4>1. s # 3 * t + 1 /\ s \in Int /\ t \in Int
        BY <1>1, <4>0
      <4>2. s + 1 \in {3 * t + 2, 3 * t + 3, 3 * t + 4}
        BY <2>6, <3>2
      <4> QED BY <4>1, <4>2
    <3> QED BY <2>1, <3>1, <3>2
  <2>7. CASE s = Len(Now) /\ step' = 1
    <3>1. ~ UnderWay'
      BY <2>7 DEF UnderWay
    <3>2. s = 3 * (ByteBits - 1) + 3 /\ ByteBits - 1 \in 0 .. ByteBits - 1
      BY <1>1, <2>2, <2>3, <2>7
    <3>3. last = (Expected(Len(buff)) \div Weight(ByteBits - 1)) * Weight(ByteBits - 1)
      BY <2>1, <3>2
    <3>4. Weight(ByteBits - 1) = 1
      BY <3>2, WeightType
    <3>5. Expected(Len(buff)) \in Int
      <4>1. Expected(Len(buff)) \in Byte
        BY <1>1, <2>5, ExpectedType
      <4> QED BY <4>1, Sizes
    <3>6. last = Expected(Len(buff))
      BY <3>3, <3>4, <3>5
    <3>7. \A j \in 1 .. Len(buff) : j < Len(buff) \/ j = Len(buff)
      BY <2>5
    <3> QED BY <2>1, <3>1, <3>6, <3>7
  <2> QED BY <2>6, <2>7 DEF Onward
<1> QED BY <1>4, <1>5, <1>6

\* Chip select goes up: unless the bytes are a write or an erase, the chip
\* forgets them.
LEMMA DeselectedEffect ==
  ASSUME Chip, Deselected
  PROVE  /\ got' = <<>> /\ bits' = 0 /\ part' = 0
         /\ ~ Writes /\ ~ Erases => mem' = mem /\ wip' = wip
BY DEF Deselected, Chip

\* The same command in the next place.
LEMMA SpotOn ==
  ASSUME TypeInv, Running, Onward, UNCHANGED <<port, call, todo>>, Inside,
         piece' = piece \/ Pos <= Outs + Ins
  PROVE  Sending' = Sending /\ Outs' = Outs /\ Ins' = Ins
<1>1. CASE piece' = piece
  BY <1>1, SameSpot
<1>2. CASE piece' = piece + 1
  BY <1>2, NextSpot
<1> QED BY <1>1, <1>2 DEF Onward

\* Chip select of a register port.
LEMMA TrackRegCs ==
  ASSUME TypeInv, RegWires, Tracked, WriteRegister("cs")
  PROVE  Tracked'
<1>1. /\ shift = Empty /\ port # "gpio" /\ Access("cs") /\ Value \in 0 .. 1
      /\ Lines([line EXCEPT !.cs = Value]) /\ line' = [line EXCEPT !.cs = Value]
      /\ shift' = Empty /\ UNCHANGED <<sel, data, buff>>
  <2>1. "cs" \in {"cs", "shift"}
    OBVIOUS
  <2> QED BY <2>1, RegWrite
<1>2. /\ Running /\ Now[step].what = "cs" /\ Active /\ Onward
      /\ UNCHANGED <<port, call, todo>>
  BY <1>1, AccessParts
<1>3. /\ Chip /\ line \in Registers /\ line.clk = 0
      /\ line.cs = 1 => got = <<>>
  BY <1>1, Parts DEF TypeInv, Wired, Basics
<1>4. step \in 1 .. Len(Now) /\ Len(Now) \in Nat \ {0}
  BY <1>2, SpotPiece
<1>5. /\ [line EXCEPT !.cs = Value].cs = Value
      /\ [line EXCEPT !.cs = Value].clk = 0
  BY <1>3 DEF Registers
<1>6. GpioTrack'
  BY <1>1, <1>2 DEF GpioTrack
<1>7. Now[step].what \notin {"take", "bit", "poll"}
  BY <1>2
<1>8. CASE AtLine("cs", 0)
  <2>1. /\ ~ Selected /\ Selected' /\ Pos' = 1 /\ Given' = 0
    BY <1>1, <1>2, <1>8, RegNext
  <2>2. got = <<>>
    BY <1>1, <2>1 DEF Tracked, Resting
  <2>3. Value = 0
    BY <1>8 DEF AtLine, Is, Value
  <2>4. UNCHANGED <<got, bits, part, mem, wel, wip>>
    BY <1>1, <1>5, <2>3 DEF Lines, chipVars
  <2>5. Len(got') = 0
    BY <2>2, <2>4
  <2>6. Heard'
    BY <2>5 DEF Heard
  <2>7. RegTrack'
    <3>1. Sent' = 0
      BY <1>1, <2>5 DEF Sent
    <3> QED BY <1>1, <2>1, <3>1 DEF RegTrack
  <2>8. wip' => Polling'
    BY <1>2, <2>4, PollingNext DEF Tracked
  <2>9. Told'
    <3>1. (Stands' <=> Stands)
      BY <1>2, <2>4 DEF Stands, Changes
    <3> QED BY <1>1, <1>2, <1>7, <2>4, <3>1, ToldKept DEF Tracked
  <2> QED BY <1>6, <2>1, <2>6, <2>7, <2>8, <2>9 DEF Tracked, Resting
<1>9. CASE AtLine("cs", 1)
  <2>1. /\ ~ Selected' /\ step' = 1
        /\ Selected => Pos = Outs + Ins + 1 /\ Given = Outs + Ins
    BY <1>1, <1>2, <1>9, RegNext
  <2>2. Value = 1
    BY <1>9 DEF AtLine, Is, Value
  <2>3. step = Len(Now) /\ piece' = piece + 1
    BY <1>2, <1>4, <2>1 DEF Onward
  <2>4. line.cs = 0 => Deselected
    BY <1>1, <1>5, <2>2 DEF Lines
  <2>5. line.cs = 1 => UNCHANGED <<got, bits, part, mem, wel, wip>>
    BY <1>1, <1>5, <2>2 DEF Lines, chipVars
  <2>6. line.cs \in {0, 1}
    BY <1>3 DEF Registers
  <2>7. got' = <<>>
    BY <1>3, <2>4, <2>5, <2>6, DeselectedEffect
  <2>8. CASE line.cs = 0 /\ (Writes \/ Erases)
    <3>1. got # <<>>
      BY <2>8 DEF Writes, Erases
    <3>2. Selected
      BY <1>1, <3>1 DEF Tracked, Resting
    <3>3. Pos = Outs + Ins + 1 /\ Sent = Given /\ Given = Outs + Ins /\ Heard
      BY <1>1, <2>1, <3>2 DEF Tracked, RegTrack
    <3>4. Len(got) = Pos - 1
      <4>1. Len(got) \in Nat
        BY <1>3, GotType
      <4>2. Outs \in Nat /\ Ins \in Nat
        BY <3>2, SpotType DEF Selected
      <4>3. Sent = Len(got) + 0
        BY <1>1 DEF Sent
      <4> QED BY <3>3, <4>1, <4>2, <4>3
    <3>5. Changes(call) /\ piece = Size(call) + 5
      BY <2>8, <3>2, <3>3, <3>4, WritesWhere
    <3>6. call \in Calls \cup {Calling} /\ piece \in Nat \ {0}
      BY <1>2, SpotPiece
    <3>7. Size(call) \in Nat \ {0}
      BY <3>5, <3>6, Numbers
    <3>8. Size(call)' = Size(call) /\ (Changes(call)' <=> Changes(call)) /\ (Active' <=> Active)
      BY <1>2 DEF Size, ChangeBytes, SendAddress, Changes, Active
    <3>9. Polling'
      BY <1>2, <2>3, <3>5, <3>7, <3>8 DEF Polling
    <3>10. Told'
      <4>1. ~ Receiving(call, piece)
        BY <3>5, <3>6, <3>7, ReceivingAt
      <4>2. Len(buff) = 0
        <5>1. Len(buff) = Filled(call, piece, step)
          BY <1>2 DEF TypeInv, Answered
        <5>2. call.op # "open" /\ call.op # "read"
          BY <3>5 DEF Changes
        <5>3. Filled(call, piece, step) = 0
          BY <3>5, <3>7, <5>2 DEF Filled
        <5> QED BY <5>1, <5>3
      <4>3. buff \in Seq(Byte)
        BY Parts DEF TypeInv, Received
      <4>4. buff = <<>>
        BY <4>2, <4>3
      <4>5. call.op # "read"
        BY <3>5 DEF Changes
      <4> QED BY <1>1, <1>2, <1>7, <4>1, <4>4, <4>5, ToldKept DEF Tracked
    <3> QED BY <1>1, <1>2, <1>6, <2>1, <2>7, <3>9, <3>10 DEF Tracked, Resting, RegTrack
  <2>9. CASE ~ (line.cs = 0 /\ (Writes \/ Erases))
    <3>1. mem' = mem /\ wip' = wip
      BY <1>3, <2>4, <2>5, <2>6, <2>9, DeselectedEffect
    <3>2. wip' => Polling'
      BY <1>2, <3>1, PollingNext DEF Tracked
    <3>3. Told'
      <4>1. (Stands' <=> Stands)
        BY <1>2, <3>1 DEF Stands, Changes
      <4> QED BY <1>1, <1>2, <1>7, <3>1, <4>1, ToldKept DEF Tracked
    <3> QED BY <1>1, <1>2, <1>6, <2>1, <2>7, <3>2, <3>3 DEF Tracked, Resting, RegTrack
  <2> QED BY <2>8, <2>9
<1> QED BY <1>1, <1>2, <1>8, <1>9, RegNext

\* A byte goes to the serializer.
LEMMA TrackRegShift ==
  ASSUME TypeInv, RegWires, Tracked, WriteRegister("shift")
  PROVE  Tracked'
<1>1. /\ shift = Empty /\ port # "gpio" /\ Access("shift")
      /\ shift' = Value /\ UNCHANGED <<line, sel, data, chipVars, buff>>
  <2>1. "shift" \in {"cs", "shift"}
    OBVIOUS
  <2> QED BY <2>1, RegWrite
<1>2. /\ Running /\ Now[step].what = "shift" /\ Active /\ Onward
      /\ UNCHANGED <<port, call, todo>> /\ Valued("shift", Value)
  BY <1>1, AccessParts
<1>3. UNCHANGED <<got, bits, part, mem, wel, wip>> /\ Chip
  BY <1>1, Parts DEF chipVars, TypeInv
<1>4. /\ Selected /\ Selected' /\ Given = Pos - 1 /\ Given' = Pos /\ Pos \in 1 .. Outs + Ins
      /\ Pos <= Outs => Value = Sending[Pos]
  BY <1>1, <1>2, RegNext DEF Value
<1>5. Outs \in Nat /\ Ins \in Nat /\ Pos \in Nat /\ Inside
  BY <1>4, SpotType DEF Selected
<1>6. Sending' = Sending /\ Outs' = Outs /\ Ins' = Ins
  BY <1>2, <1>4, <1>5, SpotOn
<1>7. shift' \in Byte /\ shift' # Empty
  <2>1. Value \in Byte
    BY <1>2 DEF Valued
  <2>2. Byte \subseteq Nat
    BY ByteType
  <2> QED BY <1>1, <2>1, <2>2 DEF Empty
<1>8. RegTrack'
  <2>1. Len(got) \in Nat
    BY <1>3, GotType
  <2>2. Sent = Len(got) + 0
    BY <1>1 DEF Sent
  <2>3. Sent = Given
    BY <1>1, <1>4 DEF Tracked, RegTrack
  <2>4. Len(got) + 1 = Pos
    BY <1>4, <1>5, <2>1, <2>2, <2>3
  <2>5. Sent' = Pos
    BY <1>3, <1>7, <2>4 DEF Sent
  <2> QED BY <1>1, <1>4, <1>6, <1>7, <2>5 DEF RegTrack
<1>9. Heard'
  BY <1>3, <1>4, <1>6 DEF Tracked, Heard
<1>10. wip' => Polling'
  BY <1>2, <1>3, PollingNext DEF Tracked
<1>11. Told'
  <2>1. (Stands' <=> Stands)
    BY <1>2, <1>3 DEF Stands, Changes
  <2>2. Now[step].what \notin {"take", "bit", "poll"}
    BY <1>2
  <2> QED BY <1>1, <1>2, <1>3, <2>1, <2>2, ToldKept DEF Tracked
<1> QED BY <1>1, <1>2, <1>4, <1>8, <1>9, <1>10, <1>11 DEF Tracked, Resting, GpioTrack

\* The accesses that leave the serializer and the chip alone.
LEMMA TrackRegAside ==
  ASSUME TypeInv, RegWires, Tracked, port # "gpio", SelectRegister \/ WaitForData \/ TakeByte
  PROVE  Tracked'
<1>1. PICK what \in {"select", "wait", "take"} :
        /\ Access(what) /\ UNCHANGED <<line, shift, data, chipVars>>
        /\ what # "take" => UNCHANGED buff
        /\ what = "take" => TakeByte
  BY DEF SelectRegister, WaitForData, TakeByte, portVars
<1>2. /\ Running /\ Now[step].what = what /\ Active /\ Onward
      /\ UNCHANGED <<port, call, todo>>
      /\ port \in {"io", "epp"} /\ what # "wait" => shift = Empty
  BY <1>1, AccessParts
<1>3. UNCHANGED <<got, bits, part, mem, wel, wip>> /\ Chip /\ buff \in Seq(Byte)
  BY <1>1, Parts DEF chipVars, TypeInv, Received
<1>4. /\ Given' = Given /\ (Selected' <=> Selected)
      /\ Pos' = Pos \/ (Selected /\ Given = Pos /\ Pos' = Pos + 1 /\ Pos \in Nat)
      /\ Selected => piece' = piece \/ Pos <= Outs + Ins
  <2>1. CASE what = "select"
    <3>1. /\ (Selected' <=> Selected) /\ Given' = Given /\ Pos' = Pos
          /\ port = "epp" /\ step \in {1, 3, 5} /\ step' = step + 1
      BY <1>2, <2>1, RegNext
    <3>2. piece' = piece
      BY <1>2, <3>1 DEF Onward
    <3> QED BY <3>1, <3>2
  <2>2. CASE what \in {"wait", "take"}
    <3>1. Selected /\ Selected' /\ Given = Pos /\ Given' = Pos /\ Pos \in 1 .. Outs + Ins
      BY <1>2, <2>2, RegNext
    <3>2. Outs \in Nat /\ Ins \in Nat /\ Pos \in Nat /\ Inside
      BY <3>1, SpotType DEF Selected
    <3>3. Pos' = Pos \/ Pos' = Pos + 1
      BY <1>2, <3>2, <3>1, SameSpot, NextSpot DEF Onward
    <3> QED BY <3>1, <3>2, <3>3
  <2> QED BY <2>1, <2>2
<1>5. Selected => Sending' = Sending /\ Outs' = Outs /\ Ins' = Ins
  BY <1>2, <1>4, SpotOn DEF Selected
<1>6. \A j : Expected(j)' = Expected(j)
  <2> SUFFICES ASSUME NEW CONSTANT j PROVE Expected(j)' = Expected(j)
    OBVIOUS
  <2> QED BY <1>2, <1>3 DEF Expected
<1>7. (Stands' <=> Stands) /\ Sent' = Sent
  BY <1>1, <1>2, <1>3 DEF Stands, Changes, Sent
<1>8. RegTrack'
  <2>1. SUFFICES ASSUME Selected' PROVE
          /\ Sent' = Given'
          /\ shift' # Empty /\ Given' <= Outs' => shift' = Sending'[Given']
          /\ Stands' /\ Given' = Pos' /\ Pos' > Outs' /\ shift' = Empty =>
               data' = Expected(Pos - Outs)'
    BY DEF RegTrack
  <2>2. /\ Selected /\ Outs' = Outs /\ Sending' = Sending
    BY <1>4, <1>5, <2>1
  <2>3. /\ Sent = Given
        /\ shift # Empty /\ Given <= Outs => shift = Sending[Given]
        /\ Stands /\ Given = Pos /\ Pos > Outs /\ shift = Empty => data = Expected(Pos - Outs)
    BY <2>2 DEF Tracked, RegTrack
  <2>4. Given' = Pos' => Pos' = Pos
    BY <1>4
  <2>5. Pos' = Pos => Expected(Pos - Outs)' = Expected(Pos - Outs)
    BY <1>2, <1>3, <2>2 DEF Expected
  <2> QED BY <1>1, <1>4, <1>7, <2>2, <2>3, <2>4, <2>5
<1>9. Selected' => Heard'
  BY <1>3, <1>4, <1>5 DEF Tracked, Heard
<1>10. wip' => Polling'
  <2>1. Now[step].what # "poll"
    BY <1>2
  <2> QED BY <1>2, <1>3, <2>1, PollingNext DEF Tracked
<1>11. Told'
  <2>1. CASE what # "take"
    <3>1. Now[step].what \notin {"take", "bit", "poll"}
      BY <1>2, <2>1
    <3> QED BY <1>1, <1>2, <1>3, <1>7, <2>1, <3>1, ToldKept DEF Tracked
  <2>2. CASE what = "take"
    <3>1. SUFFICES ASSUME Stands, NEW j \in 1 .. Len(buff') PROVE buff'[j] = Expected(j)
      BY <1>2, <1>6, <1>7 DEF Told, UnderWay
    <3>2. /\ Selected /\ Given = Pos /\ Pos \in 1 .. Outs + Ins /\ Pos > Outs
          /\ EppAt(6, SREG_REG) /\ (port = "hm2" => step = 3)
      BY <1>2, <2>2, RegNext
    <3>3. buff' = Append(buff, data)
      <4>1. buff' = Append(buff, IF port = "epp" /\ sel = CS_REG THEN line.cs ELSE data)
        BY <1>1, <2>2 DEF TakeByte
      <4>2. port = "epp" => sel = SREG_REG
        BY <1>2, <3>2 DEF RegWires, EppAt
      <4> QED BY <4>1, <4>2 DEF CS_REG, SREG_REG
    <3>4. shift = Empty
      <4>1. port = "hm2" \/ port \in {"io", "epp"}
        BY <1>2, SpotPiece, Tables
      <4>2. CASE port = "hm2"
        BY <1>2, <3>2, <4>2 DEF RegWires, Active
      <4> QED BY <1>2, <2>2, <4>1, <4>2
    <3>5. data = Expected(Pos - Outs)
      BY <3>1, <3>2, <3>4 DEF Tracked, RegTrack
    <3>6. Outs \in Nat /\ Ins \in Nat /\ Pos \in Nat /\ Inside
      BY <3>2, SpotType DEF Selected
    <3>7. Len(buff) = Pos - Outs - 1
      <4>1. Pos \in Outs + 1 .. Outs + Ins
        BY <3>2, <3>6
      <4>2. Len(buff) = Pos - Outs - 1 + Begun(step)
        BY <3>6, <4>1, FilledAt
      <4>3. Begun(step) = 0
        BY DEF Begun
      <4> QED BY <3>6, <4>2, <4>3
    <3>8. \A i \in 1 .. Len(buff) : buff[i] = Expected(i)
      BY <1>2, <3>1 DEF Tracked, Told, UnderWay
    <3>9. CASE j \in 1 .. Len(buff)
      <4>1. buff'[j] = buff[j]
        BY <1>3, <3>3, <3>9
      <4> QED BY <3>8, <3>9, <4>1
    <3>10. CASE j = Len(buff) + 1
      <4>1. buff'[j] = data
        BY <1>3, <3>3, <3>10
      <4>2. j = Pos - Outs
        BY <3>6, <3>7, <3>10
      <4> QED BY <3>5, <4>1, <4>2
    <3> QED BY <1>3, <3>3, <3>9, <3>10
  <2> QED BY <2>1, <2>2
<1>12. ~ Selected' => got' = <<>> /\ shift' = Empty
  BY <1>1, <1>3, <1>4 DEF Tracked, Resting
<1> QED BY <1>2, <1>8, <1>9, <1>10, <1>11, <1>12 DEF Tracked, Resting, GpioTrack

\* The serializer brings a byte to the chip, and one from it.
LEMMA TrackShifted ==
  ASSUME TypeInv, RegWires, Tracked, Shifted
  PROVE  Tracked'
<1>1. /\ shift # Empty /\ shift' = Empty
      /\ IF line.cs = 0 THEN data' = OutByte /\ got' = Took(shift)
                        ELSE data' = Ones /\ UNCHANGED got
      /\ UNCHANGED <<port, call, todo, piece, step, buff, bits, part, mem, wel, wip>>
  BY DEF Shifted, progVars
<1>2. port # "gpio" /\ Chip /\ shift \in Byte
  BY <1>1, Parts DEF TypeInv, Basics, Wired
<1>3. Selected /\ line.cs = 0
  BY <1>1, <1>2 DEF Tracked, Resting, RegWires
<1>4. Outs \in Nat /\ Ins \in Nat /\ Pos \in Nat /\ Inside /\ Pos <= Outs + Ins + 1
  BY <1>3, SpotType DEF Selected
<1>5. /\ (Inside' <=> Inside) /\ (Selected' <=> Selected)
      /\ Pos' = Pos /\ Sending' = Sending /\ Outs' = Outs /\ Ins' = Ins
  BY <1>1, SameSpot
<1>6. Given' = Given
  BY <1>1, <1>5 DEF Given, Lead
<1>7. Len(got) \in Nat /\ Given = Len(got) + 1
  <2>1. Len(got) \in Nat
    BY <1>2, GotType
  <2>2. Sent = Len(got) + 1
    BY <1>1 DEF Sent
  <2>3. Sent = Given
    BY <1>2, <1>3 DEF Tracked, RegTrack
  <2> QED BY <2>1, <2>2, <2>3
<1>8. Given <= Outs => shift = Sending[Given]
  BY <1>1, <1>2, <1>3 DEF Tracked, RegTrack
<1>9. Len(got) < Outs => shift = Sending[Len(got) + 1]
  BY <1>4, <1>7, <1>8
<1>10. /\ Took(shift) = Append(got, shift)
       /\ \A i \in 1 .. Len(got) + 1 : i <= Outs => Took(shift)[i] = Sending[i]
  BY <1>2, <1>3, <1>9, ByteHeard DEF Tracked
<1>11. got' = Took(shift) /\ Len(got') = Len(got) + 1 /\ data' = OutByte
  <2>1. got' = Took(shift) /\ data' = OutByte
    BY <1>1, <1>3
  <2>2. Len(Took(shift)) = Len(got) + 1
    BY <1>2, TookType
  <2> QED BY <2>1, <2>2
<1>12. Heard'
  BY <1>5, <1>10, <1>11 DEF Heard
<1>13. Stands' <=> Stands
  BY <1>1 DEF Stands, Changes
<1>14. \A j : Expected(j)' = Expected(j)
  <2> SUFFICES ASSUME NEW CONSTANT j PROVE Expected(j)' = Expected(j)
    OBVIOUS
  <2> QED BY <1>1 DEF Expected
<1>15. RegTrack'
  <2>1. Sent' = Given'
    BY <1>1, <1>6, <1>7, <1>11 DEF Sent
  <2>2. ASSUME Stands, Given = Pos, Pos > Outs PROVE data' = Expected(Pos - Outs)
    <3>1. Pos <= Outs + Ins
      <4>1. SUFFICES ASSUME ~ (Pos <= Outs + Ins) PROVE FALSE
        OBVIOUS
      <4>2. Given = Pos - 1 + 0
        BY <4>1 DEF Given
      <4> QED BY <1>4, <2>2, <4>2
    <3>2. Pos \in Outs + 1 .. Outs + Ins /\ Len(got) = Pos - 1
      BY <1>4, <1>7, <2>2, <3>1
    <3>3. OutByte = Expected(Pos - Outs)
      BY <1>3, <2>2, <3>2, AnswerRight DEF Tracked
    <3> QED BY <1>11, <3>3
  <2>3. Expected(Pos - Outs)' = Expected(Pos - Outs)
    BY <1>1, <1>5 DEF Expected
  <2> QED BY <1>1, <1>5, <1>6, <1>13, <2>1, <2>2, <2>3 DEF RegTrack
<1>16. wip' => Polling'
  <2>1. Size(call)' = Size(call)
    BY <1>1 DEF Size, ChangeBytes, SendAddress
  <2> QED BY <1>1, <2>1 DEF Tracked, Polling, Active, Changes
<1>17. Told'
  <2>1. ~ UnderWay /\ ~ UnderWay'
    BY <1>1, <1>2 DEF UnderWay
  <2> QED BY <1>1, <1>13, <1>14, <2>1 DEF Tracked, Told, Active
<1> QED BY <1>1, <1>2, <1>3, <1>5, <1>12, <1>15, <1>16, <1>17 DEF Tracked, Resting, GpioTrack

\* The chip is done with a write, or nothing moves.
LEMMA TrackReady ==
  ASSUME TypeInv, Tracked, ChipReady \/ UNCHANGED vars
  PROVE  Tracked'
<1>1. /\ UNCHANGED <<port, call, todo, piece, step, buff, line, shift, data>>
      /\ UNCHANGED <<got, bits, part, mem, wel>>
      /\ wip' => wip
  BY DEF ChipReady, vars, progVars, portVars, chipVars
<1>2. /\ (Inside' <=> Inside) /\ (Selected' <=> Selected)
      /\ Pos' = Pos /\ Sending' = Sending /\ Outs' = Outs /\ Ins' = Ins
  BY <1>1, SameSpot
<1>3. Given' = Given /\ Sent' = Sent
  BY <1>1, <1>2 DEF Given, Lead, Sent
<1>4. Stands' => Stands
  BY <1>1 DEF Stands, Changes
<1>5. \A j : Expected(j)' = Expected(j)
  <2> SUFFICES ASSUME NEW CONSTANT j PROVE Expected(j)' = Expected(j)
    OBVIOUS
  <2> QED BY <1>1 DEF Expected
<1>6. Heard' <=> Heard
  BY <1>1, <1>2 DEF Heard
<1>7. RegTrack'
  <2>1. Expected(Pos - Outs)' = Expected(Pos - Outs)
    BY <1>1, <1>2 DEF Expected
  <2> QED BY <1>1, <1>2, <1>3, <1>4, <2>1 DEF Tracked, RegTrack
<1>8. GpioTrack'
  BY <1>1, <1>2 DEF Tracked, GpioTrack, Taken
<1>9. wip' => Polling'
  <2>1. Size(call)' = Size(call)
    BY <1>1 DEF Size, ChangeBytes, SendAddress
  <2> QED BY <1>1, <2>1 DEF Tracked, Polling, Active, Changes
<1>10. Resting'
  BY <1>1, <1>2 DEF Tracked, Resting, Entering, Writes, Erases, Whole
<1>11. Told'
  <2>1. UnderWay' <=> UnderWay
    BY <1>1, SamePlaces DEF UnderWay
  <2>2. SUFFICES ASSUME Active, Stands PROVE
          /\ \A j \in 1 .. Len(buff) : j < Len(buff) \/ ~ UnderWay => buff[j] = Expected(j)
          /\ UnderWay => \A t \in 0 .. ByteBits - 1 :
               step \in {3 * t + 2, 3 * t + 3, 3 * t + 4} =>
                 buff[Len(buff)] = (Expected(Len(buff)) \div Weight(t)) * Weight(t)
    BY <1>1, <1>4, <1>5, <2>1 DEF Told, Active
  <2> QED BY <2>2 DEF Tracked, Told
<1> QED BY <1>2, <1>6, <1>7, <1>8, <1>9, <1>10, <1>11 DEF Tracked

\* A gpio chip that is not selected has nothing it would act on.
LEMMA Quiet ==
  ASSUME TypeInv, GpioWires, Resting, ~ Selected
  PROVE  ~ Writes /\ ~ Erases
<1>1. CASE port # "gpio"
  BY <1>1 DEF Resting, Writes, Erases
<1>2. CASE port = "gpio" /\ Entering
  BY <1>2 DEF Resting
<1>3. CASE port = "gpio" /\ ~ Entering
  <2>1. line.cs = 1
    BY <1>3 DEF GpioWires, CsLow
  <2> QED BY <2>1 DEF TypeInv, Basics, Writes, Erases
<1> QED BY <1>1, <1>2, <1>3

\* The status that was read says whether the write is still under way.
LEMMA TrackPoll ==
  ASSUME TypeInv, GpioWires, Tracked, PollStatus
  PROVE  Tracked'
<1>1. /\ buff' = <<>> /\ UNCHANGED <<port, call, todo, line, sel, shift, data>>
      /\ UNCHANGED <<got, bits, part, mem, wel, wip>> /\ Running
  BY DEF PollStatus, Due, portVars, chipVars
<1>2. /\ ~ Selected /\ ~ Selected' /\ Active /\ ~ Entering' /\ step' = 1
      /\ Changes(call) /\ piece = Size(call) + 10 /\ ~ Inside
      /\ IF buff[1] % 2 = 1 THEN piece' = piece - 4 ELSE piece' = piece + 1
  BY PollNext
<1>3. call \in Calls \cup {Calling} /\ piece \in Nat \ {0} /\ step \in Nat \ {0}
  BY <1>1, SpotPiece
<1>4. Size(call) \in Nat \ {0}
  BY <1>2, <1>3, Numbers
<1>5. ASSUME wip PROVE piece' = piece - 4
  <2>1. Len(buff) = 1
    <3>1. Len(buff) = Filled(call, piece, step)
      BY <1>2 DEF TypeInv, Answered
    <3>2. Filled(call, piece, step) = 1
      BY <1>2, <1>3, FilledNext
    <3> QED BY <3>1, <3>2
  <2>2. ~ UnderWay
    <3>1. ~ Receiving(call, piece)
      BY <1>2 DEF Inside, Receiving
    <3> QED BY <3>1 DEF UnderWay
  <2>3. buff[1] = Expected(1)
    BY <1>2, <1>5, <2>1, <2>2 DEF Tracked, Told, Stands
  <2>4. Expected(1) = 1
    BY <1>2 DEF Expected, Changes
  <2> QED BY <1>2, <2>3, <2>4
<1>6. wip' => Polling'
  <2>1. /\ Size(call)' = Size(call) /\ (Changes(call)' <=> Changes(call))
        /\ (Active' <=> Active)
    BY <1>1 DEF Size, ChangeBytes, SendAddress, Changes, Active
  <2> QED BY <1>1, <1>2, <1>4, <1>5, <2>1 DEF Polling
<1>7. Told'
  <2>1. ~ UnderWay'
    BY <1>2 DEF UnderWay
  <2> QED BY <1>1, <2>1 DEF Told
<1>8. Resting'
  BY <1>1, <1>2 DEF Tracked, Resting
<1> QED BY <1>2, <1>6, <1>7, <1>8 DEF Tracked, RegTrack, GpioTrack

\* Calls begin and end, and processes are cut off: with the last of them so
\* that the chip listens to the next.
LEMMA TrackTurning ==
  ASSUME TypeInv, GpioWires, RegWires, Open \/ Call \/ Return \/ Crash,
         ~ Crash => Tracked, Crash => LeftClean'
  PROVE  Tracked'
<1>1. /\ ~ Selected' /\ step' = 1 /\ UNCHANGED <<port, line, shift>>
      /\ UNCHANGED <<got, bits, part, mem, wel, wip>>
      /\ ~ Crash => ~ Selected
  BY Turning DEF chipVars
<1>2. (Writes' <=> Writes) /\ (Erases' <=> Erases)
  BY <1>1 DEF Writes, Erases, Whole
<1>3. ASSUME Crash
      PROVE  /\ ~ wip /\ ~ Active'
             /\ IF port = "gpio" THEN ~ Writes /\ ~ Erases ELSE got = <<>> /\ shift = Empty
  <2>1. /\ crashes' = crashes + 1 /\ call' = Off
        /\ cut' = [busy |-> wip, selected |-> line.cs = 0 /\ Sent > 0,
                   writing |-> Writes \/ Erases]
    BY <1>3 DEF Crash
  <2>2. /\ ~ cut'.busy /\ IF port = "gpio" THEN ~ cut'.writing ELSE ~ cut'.selected
    BY <1>1, <1>3, <2>1 DEF LeftClean, TypeInv, TypeOK
  <2>3. ~ wip /\ IF port = "gpio" THEN ~ Writes /\ ~ Erases ELSE ~ (line.cs = 0 /\ Sent > 0)
    BY <2>1, <2>2
  <2>4. ASSUME port # "gpio" PROVE got = <<>> /\ shift = Empty
    <3>1. Chip /\ line.cs \in {0, 1} /\ (line.cs = 1 => got = <<>>)
      BY Parts DEF TypeInv, Wired, Registers, Basics
    <3>2. CASE line.cs = 1
      BY <2>4, <3>1, <3>2 DEF RegWires
    <3>3. CASE line.cs = 0
      <4>1. ~ (Sent > 0) /\ Len(got) \in Nat
        BY <2>3, <2>4, <3>1, <3>3, GotType
      <4>2. shift = Empty /\ Len(got) = 0
        BY <4>1 DEF Sent
      <4> QED BY <3>1, <4>2 DEF Chip
    <3> QED BY <3>1, <3>2, <3>3
  <2> QED BY <2>1, <2>3, <2>4 DEF Active
<1>4. ASSUME ~ Crash PROVE ~ wip
  <2>1. SUFFICES ASSUME Polling PROVE FALSE
    BY <1>4 DEF Tracked
  <2>2. Active /\ Changes(call) /\ piece <= Size(call) + 10
    BY <2>1 DEF Polling
  <2>3. Return
    BY <1>4, <2>2 DEF Open, Call, Active
  <2>4. piece = Len(todo) + 1
    BY <2>3 DEF Return
  <2>5. call \in Calls \cup {Calling} /\ todo = Accesses(call) /\ port \in Ports
    BY <2>2, Parts DEF TypeInv, Control, Active
  <2>6. Len(todo) = Size(call) + 10
    BY <2>2, <2>5, CallLayout DEF Layout, Changes, Size
  <2>7. Size(call) \in Nat
    <3>1. 1 \in Nat \ {0}
      OBVIOUS
    <3> QED BY <2>2, <2>5, <3>1, Numbers
  <2> QED BY <2>2, <2>4, <2>6, <2>7
<1>5. ~ wip'
  BY <1>1, <1>3, <1>4
<1>6. Resting'
  <2>1. CASE Crash
    BY <1>1, <1>2, <1>3, <2>1 DEF Resting
  <2>2. CASE ~ Crash
    <3>1. ~ Writes /\ ~ Erases
      BY <1>1, <2>2, Quiet DEF Tracked
    <3> QED BY <1>1, <1>2, <2>2, <3>1 DEF Tracked, Resting
  <2> QED BY <2>1, <2>2
<1>7. Told'
  <2>1. ~ UnderWay'
    BY <1>1 DEF UnderWay
  <2>2. CASE Open \/ Call
    <3>1. buff' = <<>>
      BY <2>2 DEF Open, Call, Begin
    <3> QED BY <2>1, <3>1 DEF Told
  <2>3. CASE Return \/ Crash
    BY <2>3 DEF Told, Return, Crash, Active
  <2> QED BY <2>2, <2>3
<1> QED BY <1>1, <1>5, <1>6, <1>7 DEF Tracked, RegTrack, GpioTrack

\* The parts of a gpio step that are alike for all of them.
LEMMA GpioParts ==
  ASSUME TypeInv, GpioWires, NEW what \in {"init", "cs", "din", "clk"}, DriveGpio(what)
  PROVE  /\ port = "gpio" /\ Running /\ Now[step].what = what /\ Active /\ Onward
         /\ UNCHANGED <<port, call, todo, buff>> /\ ~ Entering'
         /\ Lines(line') /\ Chip /\ line \in Registers
         /\ what = "init" => line' = GpioReset /\ ~ Selected /\ ~ Selected'
         /\ what # "init" =>
              /\ Value \in 0 .. 1 /\ line' = [line EXCEPT ![what] = Value]
              /\ line.cs = (IF CsLow THEN 0 ELSE 1) /\ line.clk = (IF ClkHigh THEN 1 ELSE 0)
         /\ line.cs = 1 => got = <<>> /\ bits = 0 /\ part = 0
<1>1. /\ port = "gpio" /\ Access(what) /\ Lines(GPIO_reg_val')
      /\ GPIO_reg_val' = IF what = "init" THEN GpioReset
                         ELSE [GPIO_reg_val EXCEPT ![what] = Value]
      /\ UNCHANGED buff
  BY DEF DriveGpio
<1>2. /\ Running /\ Now[step].what = what /\ Active /\ Onward
      /\ UNCHANGED <<port, call, todo>> /\ Valued(what, Value)
  BY <1>1, AccessParts
<1>3. line' = GPIO_reg_val'
  BY <1>1 DEF Lines
<1>4. /\ Chip /\ line \in Registers /\ (line.cs = 1 => got = <<>> /\ bits = 0 /\ part = 0)
  BY Parts DEF TypeInv, Wired, Basics
<1>5. /\ step \in 1 .. Len(Now) /\ Len(Now) \in Nat \ {0} /\ piece \in Nat \ {0}
  BY <1>2, SpotPiece
<1>6. ~ Entering'
  <2>1. CASE Entering
    <3>1. piece = 1 /\ Len(Now) = 1
      BY <1>2, <2>1, EnteringAt
    <3>2. piece' = 2
      BY <1>2, <1>5, <3>1 DEF Onward
    <3> QED BY <1>2, <3>2 DEF Entering, Active
  <2>2. CASE ~ Entering
    <3>1. piece' = 1 => piece = 1
      BY <1>2, <1>5 DEF Onward
    <3> QED BY <1>1, <1>2, <2>2, <3>1 DEF Entering
  <2> QED BY <2>1, <2>2
<1>7. ASSUME what = "init" PROVE line' = GpioReset /\ ~ Selected /\ ~ Selected'
  <2>1. ~ Inside /\ Len(Now) = 1
    BY <1>2, <1>7, SpotPiece
  <2>2. piece' = piece + 1
    BY <1>2, <1>5, <2>1 DEF Onward
  <2>3. ~ Selected'
    BY <1>2, <2>1, <2>2, NextSpot
  <2> QED BY <1>1, <1>3, <1>7, <2>1, <2>3 DEF Selected
<1>8. ASSUME what # "init"
      PROVE  /\ Value \in 0 .. 1 /\ line' = [line EXCEPT ![what] = Value]
             /\ line.cs = (IF CsLow THEN 0 ELSE 1) /\ line.clk = (IF ClkHigh THEN 1 ELSE 0)
  <2>1. ~ Entering
    BY <1>2, <1>8, EnteringAt
  <2>2. /\ GPIO_reg_val = line
        /\ line.cs = (IF CsLow THEN 0 ELSE 1) /\ line.clk = (IF ClkHigh THEN 1 ELSE 0)
    BY <1>1, <2>1 DEF GpioWires
  <2>3. Value \in 0 .. 1
    BY <1>2, <1>8 DEF Valued
  <2> QED BY <1>1, <1>3, <1>8, <2>2, <2>3
<1> QED BY <1>1, <1>2, <1>3, <1>4, <1>6, <1>7, <1>8

\* A gpio step that keeps the chip's bytes leaves the call where it should be.
LEMMA GpioKept ==
  ASSUME TypeInv, Tracked, port = "gpio", Running, Onward, UNCHANGED <<port, call, todo, buff>>,
         ~ Entering', Now[step].what \notin {"take", "bit", "poll"},
         mem' = mem, wip' = wip, Selected' => Heard', GpioTrack'
  PROVE  Tracked'
<1>1. wip' => Polling'
  BY PollingNext DEF Tracked
<1>2. Told'
  <2>1. Stands' <=> Stands
    BY DEF Stands, Changes
  <2> QED BY <2>1, ToldKept DEF Tracked
<1> QED BY <1>1, <1>2 DEF Tracked, Resting, RegTrack

\* Where no command is under way, before and after the step.
LEMMA TrackGpioOutside ==
  ASSUME TypeInv, GpioWires, Tracked, NEW what \in {"init", "cs", "din", "clk"}, DriveGpio(what),
         ~ Selected, ~ Selected'
  PROVE  Tracked'
<1>1. /\ port = "gpio" /\ Running /\ Now[step].what = what /\ Active /\ Onward
      /\ UNCHANGED <<port, call, todo, buff>> /\ ~ Entering'
      /\ Lines(line') /\ Chip /\ line \in Registers
      /\ what = "init" => line' = GpioReset
      /\ what # "init" => /\ line' = [line EXCEPT ![what] = Value]
                          /\ line.cs = (IF CsLow THEN 0 ELSE 1)
  BY GpioParts
<1>2. ~ Writes /\ ~ Erases
  BY Quiet DEF Tracked
<1>3. mem' = mem /\ wip' = wip
  <2>1. CASE what = "init"
    <3>1. line'.cs = 1
      BY <1>1, <2>1 DEF GpioReset
    <3>2. CASE line.cs = 0
      <4>1. Deselected
        BY <1>1, <3>1, <3>2 DEF Lines
      <4> QED BY <1>1, <1>2, <4>1, DeselectedEffect
    <3>3. CASE line.cs # 0
      BY <1>1, <3>3 DEF Lines, chipVars
    <3> QED BY <3>2, <3>3
  <2>2. CASE what # "init"
    <3>1. line.cs = 1
      BY <1>1, <2>2 DEF CsLow
    <3> QED BY <1>1, <3>1 DEF Lines, chipVars
  <2> QED BY <2>1, <2>2
<1>4. Now[step].what \notin {"take", "bit", "poll"}
  BY <1>1
<1>5. GpioTrack'
  BY DEF GpioTrack
<1> QED BY <1>1, <1>3, <1>4, <1>5, GpioKept

\* The steps of the lines: outside of a command, at its two ends, and within.
LEMMA GpioCases ==
  ASSUME TypeInv, GpioWires, NEW what \in {"init", "cs", "din", "clk"}, DriveGpio(what)
  PROVE  \/ ~ Selected /\ ~ Selected'
         \/ what = "cs" /\ ~ Selected /\ Selected'
         \/ what = "cs" /\ Selected /\ AtLine("cs", 1)
         \/ what \in {"din", "clk"} /\ Selected
<1>1. SUFFICES ASSUME Selected \/ Selected'
      PROVE  \/ what = "cs" /\ ~ Selected /\ Selected'
             \/ what = "cs" /\ Selected /\ AtLine("cs", 1)
             \/ what \in {"din", "clk"} /\ Selected
  OBVIOUS
<1>2. /\ port = "gpio" /\ Running /\ Now[step].what = what /\ Onward
      /\ UNCHANGED <<port, call, todo>>
      /\ what = "init" => ~ Selected /\ ~ Selected'
      /\ what # "init" => Value \in 0 .. 1
  BY GpioParts
<1>3. CASE what = "cs"
  <2>1. AtLine("cs", 0) \/ AtLine("cs", 1)
    BY <1>2, <1>3 DEF AtLine, Is, Value
  <2>2. CASE AtLine("cs", 0)
    <3>1. Inside /\ Pos = 0
      <4>1. ~ AtLine("cs", 1) /\ ~ (Now[step].what \in {"init", "poll"})
            /\ ~ AtLine("din", 0) /\ \A t : ~ GpioBit(t)
        BY <2>2 DEF AtLine, Is, GpioBit
      <4> QED BY <1>2, <4>1, GpioAccess DEF GpioPlace
    <3>2. ~ Selected
      BY <3>1 DEF Selected
    <3> QED BY <1>1, <1>3, <3>2
  <2> QED BY <1>1, <1>3, <2>1, <2>2
<1>4. CASE what \in {"din", "clk"}
  <2>1. SUFFICES ASSUME ~ Selected, Selected' PROVE FALSE
    BY <1>1, <1>4
  <2>2. CsLow' <=> CsLow
    <3>1. CASE what = "din"
      BY <1>2, <3>1, LineNext
    <3>2. CASE what = "clk"
      <4>1. AtLine("clk", 0) \/ AtLine("clk", 1)
        BY <1>2, <3>2 DEF AtLine, Is, Value
      <4> QED BY <1>2, <4>1, LineNext
    <3> QED BY <1>4, <3>1, <3>2
  <2>3. ~ CsLow
    BY <2>1 DEF CsLow
  <2>4. piece' = piece + 1 /\ step' = 1
    BY <1>2, <2>1, SameSpot DEF Onward
  <2>5. ~ (Pos' = Outs' + Ins' + 1 /\ step' = 2)
    BY <2>4
  <2> QED BY <2>1, <2>2, <2>3, <2>5 DEF CsLow
<1> QED BY <1>1, <1>2, <1>3, <1>4

\* The prefix selects the chip, which has nothing yet.
LEMMA GpioPrefix ==
  ASSUME TypeInv, GpioWires, DriveGpio("cs"), ~ Selected, Selected'
  PROVE  /\ UNCHANGED <<got, bits, part, mem, wip>> /\ got = <<>>
         /\ GpioTrack'
<1>1. /\ port = "gpio" /\ Running /\ Now[step].what = "cs" /\ Onward
      /\ UNCHANGED <<port, call, todo, buff>> /\ ~ Entering'
      /\ Lines(line') /\ Chip
      /\ line.cs = (IF CsLow THEN 0 ELSE 1)
      /\ line.cs = 1 => got = <<>> /\ bits = 0 /\ part = 0
  <2>1. "cs" \in {"init", "cs", "din", "clk"} /\ "cs" # "init"
    OBVIOUS
  <2> QED BY <2>1, GpioParts
<1>2. line.cs = 1
  BY <1>1 DEF CsLow
<1>3. UNCHANGED <<got, bits, part, mem, wip>> /\ got = <<>> /\ bits = 0 /\ part = 0
  BY <1>1, <1>2 DEF Lines, chipVars
<1>4. piece' = piece + 1 /\ step' = 1
  BY <1>1, SameSpot DEF Onward
<1>5. Inside /\ Pos = 0
  <2>1. Inside /\ Pos <= Outs + Ins
    <3>1. Inside /\ Pos # Outs + Ins + 1
      BY <1>1, <1>4, NextSpot
    <3> QED BY <3>1, SpotType
  <2> QED BY <2>1, SpotType DEF Selected
<1>6. Pos' = 1 /\ Sending' = Sending /\ Outs' = Outs /\ Ins' = Ins /\ Outs \in Nat \ {0} /\ Ins \in Nat
  BY <1>1, <1>4, <1>5, SpotType, NextSpot
<1>7. Len(got') = 0
  BY <1>3
<1>8. GpioTrack'
  <2>1. ByteBits \in Nat \ {0} /\ Taken' = 0
    BY <1>4, Sizes DEF Taken
  <2>2. Sending[1] \in Byte
    <3>1. Sending \in Seq(Byte)
      BY <1>5, SpotType
    <3>2. 1 \in 1 .. Len(Sending)
      BY <1>6 DEF Outs
    <3> QED BY <3>1, <3>2
  <2>3. Sending[1] \div TwoTo[ByteBits] = 0
    <3>1. TwoTo[ByteBits] \in Nat \ {0}
      BY ByteType
    <3> QED BY <2>2, <3>1 DEF Byte
  <2>4. ByteBits - bits' = ByteBits
    BY <1>3, <2>1
  <2> QED BY <1>3, <1>4, <1>6, <1>7, <2>1, <2>3, <2>4 DEF GpioTrack
<1> QED BY <1>3, <1>8

LEMMA TrackGpioPrefix ==
  ASSUME TypeInv, GpioWires, Tracked, DriveGpio("cs"), ~ Selected, Selected'
  PROVE  Tracked'
<1>1. /\ port = "gpio" /\ Running /\ Now[step].what = "cs" /\ Onward
      /\ UNCHANGED <<port, call, todo, buff>> /\ ~ Entering'
  <2>1. "cs" \in {"init", "cs", "din", "clk"}
    OBVIOUS
  <2> QED BY <2>1, GpioParts
<1>2. UNCHANGED <<got, mem, wip>> /\ got = <<>> /\ GpioTrack'
  BY GpioPrefix
<1>3. Heard'
  <2>1. Len(got') = 0
    BY <1>2
  <2> QED BY <2>1 DEF Heard
<1> QED BY <1>1, <1>2, <1>3, GpioKept

\* Chip select goes up at the end of a command.
LEMMA GpioSuffix ==
  ASSUME TypeInv, GpioWires, GpioTrack, DriveGpio("cs"), Selected, AtLine("cs", 1)
  PROVE  /\ Pos = Outs + Ins + 1 /\ Len(got) = Pos - 1
         /\ piece' = piece /\ step' = 2 /\ Selected'
         /\ Deselected /\ got' = <<>> /\ (~ Writes /\ ~ Erases => mem' = mem /\ wip' = wip)
         /\ GpioTrack'
<1>1. /\ port = "gpio" /\ Running /\ Now[step].what = "cs" /\ Onward /\ Active
      /\ UNCHANGED <<port, call, todo, buff>> /\ ~ Entering'
      /\ Lines(line') /\ Chip /\ line \in Registers
      /\ line' = [line EXCEPT !.cs = Value]
      /\ line.cs = (IF CsLow THEN 0 ELSE 1)
  <2>1. "cs" \in {"init", "cs", "din", "clk"} /\ "cs" # "init"
    OBVIOUS
  <2> QED BY <2>1, GpioParts
<1>2. Pos = Outs + Ins + 1 /\ step = 1 /\ Len(Now) = 2
  <2>1. Inside /\ Pos >= 1
    BY DEF Selected
  <2>2. ~ AtLine("din", 0) /\ \A t : ~ GpioBit(t)
    BY <1>1 DEF AtLine, Is, GpioBit
  <2> QED BY <1>1, <2>1, <2>2, GpioAccess DEF GpioPlace
<1>3. Outs \in Nat /\ Ins \in Nat /\ Inside
  BY SpotType DEF Selected
<1>4. piece' = piece /\ step' = 2
  BY <1>1, <1>2 DEF Onward
<1>5. Selected' /\ Pos' = Pos /\ Outs' = Outs /\ Ins' = Ins
  BY <1>1, <1>4, SameSpot
<1>6. line.cs = 0 /\ line'.cs = 1
  <2>1. Value = 1
    BY DEF AtLine, Is, Value
  <2> QED BY <1>1, <1>2, <2>1 DEF CsLow, Registers
<1>7. Deselected
  BY <1>1, <1>6 DEF Lines
<1>8. got' = <<>> /\ (~ Writes /\ ~ Erases => mem' = mem /\ wip' = wip)
  BY <1>1, <1>7, DeselectedEffect
<1>9. GpioTrack'
  BY <1>2, <1>3, <1>4, <1>5 DEF GpioTrack
<1>10. Len(got) = Pos - 1
  BY <1>1, <1>2 DEF GpioTrack
<1> QED BY <1>2, <1>4, <1>5, <1>7, <1>8, <1>9, <1>10

LEMMA TrackGpioSuffix ==
  ASSUME TypeInv, GpioWires, Tracked, DriveGpio("cs"), Selected, AtLine("cs", 1)
  PROVE  Tracked'
<1>1. /\ port = "gpio" /\ Running /\ Now[step].what = "cs" /\ Onward /\ Active
      /\ UNCHANGED <<port, call, todo, buff>> /\ ~ Entering'
  <2>1. "cs" \in {"init", "cs", "din", "clk"}
    OBVIOUS
  <2> QED BY <2>1, GpioParts
<1>2. /\ Pos = Outs + Ins + 1 /\ Len(got) = Pos - 1
      /\ piece' = piece /\ step' = 2 /\ Selected'
      /\ got' = <<>> /\ (~ Writes /\ ~ Erases => mem' = mem /\ wip' = wip)
      /\ GpioTrack'
  <2>1. GpioTrack
    BY DEF Tracked
  <2> QED BY <2>1, GpioSuffix
<1>3. Now[step].what \notin {"take", "bit", "poll"}
  BY <1>1
<1>4. Heard'
  <2>1. Len(got') = 0
    BY <1>2
  <2> QED BY <2>1 DEF Heard
<1>5. CASE ~ Writes /\ ~ Erases
  BY <1>1, <1>2, <1>3, <1>4, <1>5, GpioKept
<1>6. CASE Writes \/ Erases
  <2>1. Heard
    BY DEF Tracked
  <2>2. Changes(call) /\ piece = Size(call) + 5
    BY <1>2, <1>6, <2>1, WritesWhere
  <2>3. call \in Calls \cup {Calling} /\ piece \in Nat \ {0}
    BY <1>1, SpotPiece
  <2>4. Size(call) \in Nat \ {0}
    BY <2>2, <2>3, Numbers
  <2>5. Size(call)' = Size(call) /\ (Changes(call)' <=> Changes(call)) /\ (Active' <=> Active)
    BY <1>1 DEF Size, ChangeBytes, SendAddress, Changes, Active
  <2>6. Polling'
    BY <1>1, <1>2, <2>2, <2>4, <2>5 DEF Polling
  <2>7. Told'
    <3>1. ~ Receiving(call, piece)
      BY <2>2, <2>3, <2>4, ReceivingAt
    <3>2. Len(buff) = 0
      <4>1. Len(buff) = Filled(call, piece, step)
        BY <1>1 DEF TypeInv, Answered
      <4>2. call.op # "open" /\ call.op # "read"
        BY <2>2 DEF Changes
      <4>3. Filled(call, piece, step) = 0
        BY <2>2, <2>4, <4>2 DEF Filled
      <4> QED BY <4>1, <4>3
    <3>3. buff \in Seq(Byte)
      BY Parts DEF TypeInv, Received
    <3>4. buff = <<>>
      BY <3>2, <3>3
    <3>5. call.op # "read"
      BY <2>2 DEF Changes
    <3> QED BY <1>1, <1>3, <3>1, <3>4, <3>5, ToldKept DEF Tracked
  <2> QED BY <1>1, <1>2, <1>4, <2>6, <2>7 DEF Tracked, Resting, RegTrack
<1> QED BY <1>5, <1>6

\* A byte is its first bit and the rest, or the rest and its last bit.
LEMMA BitStep ==
  ASSUME NEW x \in Byte, NEW t \in 0 .. ByteBits - 1
  PROVE  /\ x \div TwoTo[ByteBits - (t + 1)] = 2 * (x \div TwoTo[ByteBits - t]) + Bit(x, t)
         /\ t = ByteBits - 1 => x \div TwoTo[ByteBits - (t + 1)] = x
         /\ t = 0 => (x \div Weight(0)) * Weight(0) = Bit(x, 0) * Weight(0)
         /\ t > 0 => (x \div Weight(t)) * Weight(t)
                       = (x \div Weight(t - 1)) * Weight(t - 1) + Bit(x, t) * Weight(t)
<1> DEFINE m == Weight(t)
<1>1. /\ ByteBits \in Nat \ {0} /\ x \in Nat /\ m \in Nat \ {0}
  BY Sizes, ByteType, WeightType
<1>2. ByteBits - (t + 1) = ByteBits - 1 - t /\ ByteBits - t = (ByteBits - 1 - t) + 1
      /\ ByteBits - 1 - t \in Nat
  BY <1>1
<1>3. TwoTo[ByteBits - (t + 1)] = m /\ TwoTo[ByteBits - t] = 2 * m
  BY <1>2, PowersOfTwo DEF Weight
<1> HIDE DEF m
<1>4. x \div m = 2 * (x \div (2 * m)) + ((x \div m) % 2)
  BY <1>1, BitBetween
<1>5. Bit(x, t) = (x \div m) % 2
  BY DEF Bit, m
<1>6. t = ByteBits - 1 => m = 1
  BY WeightType DEF m
<1>7. t = ByteBits - 1 => x \div m = x
  BY <1>1, <1>6
<1>8. ASSUME t = 0 PROVE (x \div Weight(0)) * Weight(0) = Bit(x, 0) * Weight(0)
  <2>1. TwoTo[ByteBits] = 2 * m /\ m = Weight(0)
    BY <1>8, WeightType DEF m
  <2>2. x < 2 * m
    BY <1>1, <2>1 DEF Byte
  <2>3. x \div (2 * m) = 0
    BY <1>1, <2>2
  <2>4. x \div m = (x \div m) % 2
    BY <1>1, <1>4, <2>3
  <2> QED BY <1>5, <1>8, <2>1, <2>4
<1>9. ASSUME t > 0
      PROVE  (x \div m) * m = (x \div Weight(t - 1)) * Weight(t - 1) + Bit(x, t) * m
  <2>1. t - 1 \in 0 .. ByteBits - 1 /\ (t - 1) + 1 = t
    BY <1>1, <1>9
  <2>2. Weight(t - 1) = 2 * m
    BY <2>1, WeightType DEF m
  <2> DEFINE u == x \div (2 * m)   b == (x \div m) % 2
  <2>3. x \div m = 2 * u + b
    BY <1>4
  <2>4. u \in Int /\ b \in Int
    BY <1>1
  <2> HIDE DEF u, b
  <2>5. (2 * u + b) * m = u * (2 * m) + b * m
    BY <1>1, <2>4
  <2>6. Bit(x, t) = b /\ x \div Weight(t - 1) = u
    BY <1>5, <2>2 DEF u, b
  <2> QED BY <2>2, <2>3, <2>5, <2>6
<1> QED BY <1>3, <1>4, <1>5, <1>7, <1>8, <1>9 DEF m

\* In the middle of a byte on gpio lines.
LEMMA BytePlace ==
  ASSUME TypeInv, GpioTrack, port = "gpio", Running, Onward, Selected, Pos <= Outs + Ins,
         UNCHANGED <<port, call, todo>>
  PROVE  /\ Pos \in Nat \ {0} /\ Outs \in Nat \ {0} /\ Ins \in Nat
         /\ Sending \in Seq(Byte) /\ Selected'
         /\ Sending' = Sending /\ Outs' = Outs /\ Ins' = Ins /\ ByteBits \in Nat \ {0}
         /\ \E t \in 0 .. ByteBits - 1 :
              /\ GpioBit(t)
              /\ step \in {3 * t + 1, 3 * t + 2} =>
                   /\ step' = step + 1 /\ Pos' = Pos /\ Taken = t
                   /\ bits = t /\ Len(got) = Pos - 1
                   /\ Taken' = (IF step = 3 * t + 1 THEN t ELSE t + 1)
              /\ step = 3 * t + 3 =>
                   /\ Taken = t + 1 /\ step' % 3 = 1
                   /\ IF t = ByteBits - 1
                        THEN step' = 1 /\ Pos' = Pos + 1 /\ Taken' = 0
                        ELSE Pos' = Pos /\ Taken' = t + 1
<1>1. /\ Inside /\ Pos \in Nat \ {0} /\ Outs \in Nat \ {0} /\ Ins \in Nat
      /\ Sending \in Seq(Byte)
  BY SpotType DEF Selected
<1>2. step \in 1 .. Len(Now) /\ Len(Now) \in Nat \ {0} /\ ByteBits \in Nat \ {0}
  BY SpotPiece, Sizes
<1>3. Len(Now) = 3 * ByteBits /\ \E t \in 0 .. ByteBits - 1 : GpioBit(t)
  BY <1>1, GpioAccess DEF GpioPlace
<1>4. PICK t \in 0 .. ByteBits - 1 : GpioBit(t)
  BY <1>3
<1>5. Sending' = Sending /\ Outs' = Outs /\ Ins' = Ins
  BY <1>1, SpotOn
<1>6. step < Len(Now) => step' = step + 1 /\ Pos' = Pos /\ Selected'
  BY SameSpot, <1>2 DEF Onward
<1>7. step = Len(Now) => step' = 1 /\ Pos' = Pos + 1 /\ Selected'
  BY <1>1, <1>2, NextSpot DEF Onward
<1>8. Selected'
  BY <1>2, <1>6, <1>7
<1>9. IF Taken = ByteBits THEN bits = 0 /\ Len(got) = Pos
      ELSE bits = Taken /\ Len(got) = Pos - 1
  BY DEF GpioTrack
<1>10. step \in {3 * t + 1, 3 * t + 2, 3 * t + 3} /\ t \in Int /\ t < ByteBits
  BY <1>2, <1>4 DEF GpioBit
<1>11. /\ (3 * t + 1) \div 3 = t /\ (3 * t + 2) \div 3 = t /\ (3 * t + 3) \div 3 = t + 1
       /\ (3 * t + 4) \div 3 = t + 1 /\ (3 * t + 4) % 3 = 1 /\ 1 \div 3 = 0 /\ 1 % 3 = 1
  BY <1>10
<1>12. ASSUME step \in {3 * t + 1, 3 * t + 2}
       PROVE  /\ step' = step + 1 /\ Pos' = Pos /\ Taken = t
              /\ bits = t /\ Len(got) = Pos - 1
              /\ Taken' = (IF step = 3 * t + 1 THEN t ELSE t + 1)
  <2>1. step < Len(Now) /\ t # ByteBits
    BY <1>2, <1>3, <1>10, <1>12
  <2>2. Taken = t
    BY <1>11, <1>12 DEF Taken
  <2>3. bits = t /\ Len(got) = Pos - 1
    BY <1>9, <2>1, <2>2
  <2>4. step' = step + 1 /\ Pos' = Pos
    BY <1>6, <2>1
  <2>5. CASE step = 3 * t + 1
    <3>1. step' = 3 * t + 2
      BY <1>10, <2>4, <2>5
    <3> QED BY <1>11, <2>2, <2>3, <2>4, <2>5, <3>1 DEF Taken
  <2>6. CASE step = 3 * t + 2
    <3>1. step' = 3 * t + 3 /\ step # 3 * t + 1
      BY <1>10, <2>4, <2>6
    <3> QED BY <1>11, <2>2, <2>3, <2>4, <3>1 DEF Taken
  <2> QED BY <1>12, <2>5, <2>6
<1>13. ASSUME step = 3 * t + 3
       PROVE  /\ Taken = t + 1 /\ step' % 3 = 1
              /\ IF t = ByteBits - 1
                   THEN step' = 1 /\ Pos' = Pos + 1 /\ Taken' = 0
                   ELSE Pos' = Pos /\ Taken' = t + 1
  <2>1. CASE t = ByteBits - 1
    <3>1. step = Len(Now)
      BY <1>2, <1>3, <1>13, <2>1
    <3>2. step' = 1 /\ Pos' = Pos + 1
      BY <1>7, <3>1
    <3> QED BY <1>11, <1>13, <2>1, <3>2 DEF Taken
  <2>2. CASE t # ByteBits - 1
    <3>1. step < Len(Now)
      BY <1>2, <1>3, <1>10, <1>13, <2>2
    <3>2. step' = 3 * t + 4 /\ Pos' = Pos
      BY <1>6, <1>10, <1>13, <3>1
    <3> QED BY <1>11, <1>13, <2>2, <3>2 DEF Taken
  <2> QED BY <2>1, <2>2
<1> QED BY <1>1, <1>2, <1>4, <1>5, <1>8, <1>12, <1>13

\* The data line is set to the bit to come, or put back after the command.
LEMMA GpioDin ==
  ASSUME TypeInv, GpioWires, GpioTrack, DriveGpio("din"), Selected
  PROVE  /\ UNCHANGED <<got, mem, wip>> /\ GpioTrack'
         /\ Selected' => Sending' = Sending /\ Outs' = Outs
<1>1. /\ port = "gpio" /\ Running /\ Now[step].what = "din" /\ Onward
      /\ UNCHANGED <<port, call, todo, buff>> /\ ~ Entering'
      /\ Lines(line') /\ Chip /\ line \in Registers
      /\ Value \in 0 .. 1 /\ line' = [line EXCEPT !.din = Value]
  <2>1. "din" \in {"init", "cs", "din", "clk"} /\ "din" # "init"
    OBVIOUS
  <2> QED BY <2>1, GpioParts
<1>2. line'.cs = line.cs /\ line'.clk = line.clk /\ line'.din = Value
  BY <1>1 DEF Registers
<1>3. UNCHANGED <<got, bits, part, mem, wip>>
  <2>1. ~ (line.cs = 0 /\ line'.cs = 1) /\ ~ (line.clk = 0 /\ line'.clk = 1)
    BY <1>2
  <2> QED BY <1>1, <2>1 DEF Lines, chipVars
<1>5. Pos <= Outs + Ins + 1 /\ Pos \in Nat \ {0} /\ Outs \in Nat /\ Ins \in Nat /\ Inside
  BY SpotType DEF Selected
<1>6. CASE Pos = Outs + Ins + 1
  <2>1. step = 2 /\ Len(Now) = 2
    <3>1. ~ AtLine("cs", 1) /\ Pos # 0 /\ Pos \notin 1 .. Outs + Ins
      BY <1>1, <1>5, <1>6 DEF AtLine, Is
    <3> QED BY <1>1, <1>5, <3>1, GpioAccess DEF GpioPlace
  <2>2. piece' = piece + 1
    BY <1>1, <2>1 DEF Onward
  <2>3. ~ Selected'
    BY <1>1, <1>6, <2>2, NextSpot
  <2> QED BY <1>3, <2>3 DEF GpioTrack
<1>7. CASE Pos <= Outs + Ins
  <2>1. /\ Sending \in Seq(Byte) /\ Sending' = Sending /\ Outs' = Outs /\ Ins' = Ins
        /\ ByteBits \in Nat \ {0}
    BY <1>1, <1>7, BytePlace
  <2>2. PICK t \in 0 .. ByteBits - 1 :
          /\ GpioBit(t)
          /\ step \in {3 * t + 1, 3 * t + 2} =>
               /\ step' = step + 1 /\ Pos' = Pos /\ Taken = t
               /\ bits = t /\ Len(got) = Pos - 1
               /\ Taken' = (IF step = 3 * t + 1 THEN t ELSE t + 1)
    BY <1>1, <1>7, BytePlace
  <2>3. step = 3 * t + 1 /\ Pos <= Outs /\ Value = Bit(Sending[Pos], t)
    BY <1>1, <2>2 DEF GpioBit, AtLine, Is, Value
  <2>4. Pos' = Pos /\ Taken' = t /\ bits = t /\ Len(got) = Pos - 1
    BY <2>2, <2>3
  <2>5. t # ByteBits
    BY <2>1
  <2>6. part = Sending[Pos] \div TwoTo[ByteBits - bits]
    BY <1>1, <2>3 DEF GpioTrack
  <2>7. GpioTrack'
    <3>1. Pos' # Outs' + Ins' + 1
      BY <1>5, <1>7, <2>1, <2>4
    <3> QED BY <1>2, <1>3, <2>1, <2>3, <2>4, <2>5, <2>6, <3>1 DEF GpioTrack
  <2> QED BY <1>3, <2>1, <2>7
<1> QED BY <1>5, <1>6, <1>7

LEMMA TrackGpioDin ==
  ASSUME TypeInv, GpioWires, Tracked, DriveGpio("din"), Selected
  PROVE  Tracked'
<1>1. /\ port = "gpio" /\ Running /\ Now[step].what = "din" /\ Onward
      /\ UNCHANGED <<port, call, todo, buff>> /\ ~ Entering'
  <2>1. "din" \in {"init", "cs", "din", "clk"}
    OBVIOUS
  <2> QED BY <2>1, GpioParts
<1>2. /\ UNCHANGED <<got, mem, wip>> /\ GpioTrack'
      /\ Selected' => Sending' = Sending /\ Outs' = Outs
  <2>1. GpioTrack
    BY DEF Tracked
  <2> QED BY <2>1, GpioDin
<1>3. Selected' => Heard'
  BY <1>2 DEF Tracked, Heard
<1> QED BY <1>1, <1>2, <1>3, GpioKept

\* The clock takes a bit to the chip, and goes back.
LEMMA GpioClk ==
  ASSUME TypeInv, GpioWires, GpioTrack, DriveGpio("clk"), Selected
  PROVE  /\ UNCHANGED <<mem, wip>> /\ GpioTrack'
         /\ Sending' = Sending /\ Outs' = Outs /\ Pos <= Outs + Ins
         /\ \/ got' = got
            \/ \E b \in Byte : /\ got' = Took(b)
                               /\ Len(got) < Outs => b = Sending[Len(got) + 1]
<1>1. /\ port = "gpio" /\ Running /\ Now[step].what = "clk" /\ Onward
      /\ UNCHANGED <<port, call, todo, buff>> /\ ~ Entering'
      /\ Lines(line') /\ Chip /\ line \in Registers
      /\ Value \in 0 .. 1 /\ line' = [line EXCEPT !.clk = Value]
      /\ line.cs = (IF CsLow THEN 0 ELSE 1) /\ line.clk = (IF ClkHigh THEN 1 ELSE 0)
  <2>1. "clk" \in {"init", "cs", "din", "clk"} /\ "clk" # "init"
    OBVIOUS
  <2> QED BY <2>1, GpioParts
<1>2. /\ line'.cs = line.cs /\ line'.clk = Value /\ line'.din = line.din /\ line.din \in 0 .. 1
  BY <1>1 DEF Registers
<1>4. Pos <= Outs + Ins + 1 /\ Pos \in Nat \ {0} /\ Outs \in Nat /\ Ins \in Nat /\ Inside
  BY SpotType DEF Selected
<1>5. Pos <= Outs + Ins
  <2>1. SUFFICES ASSUME Pos = Outs + Ins + 1 PROVE FALSE
    BY <1>4
  <2>2. ~ AtLine("cs", 1) /\ ~ AtLine("din", 0) /\ Pos # 0 /\ Pos \notin 1 .. Outs + Ins
    BY <1>1, <1>4, <2>1 DEF AtLine, Is
  <2> QED BY <1>1, <1>4, <2>2, GpioAccess DEF GpioPlace
<1>6. /\ Sending \in Seq(Byte) /\ Sending' = Sending /\ Outs' = Outs /\ Ins' = Ins
      /\ ByteBits \in Nat \ {0} /\ Outs \in Nat \ {0}
  BY <1>1, <1>5, BytePlace
<1>7. PICK t \in 0 .. ByteBits - 1 :
        /\ GpioBit(t)
        /\ step \in {3 * t + 1, 3 * t + 2} =>
             /\ step' = step + 1 /\ Pos' = Pos /\ Taken = t
             /\ bits = t /\ Len(got) = Pos - 1
             /\ Taken' = (IF step = 3 * t + 1 THEN t ELSE t + 1)
        /\ step = 3 * t + 3 =>
             /\ Taken = t + 1 /\ step' % 3 = 1
             /\ IF t = ByteBits - 1
                  THEN step' = 1 /\ Pos' = Pos + 1 /\ Taken' = 0
                  ELSE Pos' = Pos /\ Taken' = t + 1
  BY <1>1, <1>5, BytePlace
<1>8. t \in Int /\ t < ByteBits /\ t >= 0
  BY <1>6
<1>9. \/ step = 3 * t + 2 /\ Value = 1
      \/ step = 3 * t + 3 /\ Value = 0
  BY <1>1, <1>7 DEF GpioBit, AtLine, Is, Value
<1>10. Pos <= Outs => Sending[Pos] \in Byte
  BY <1>4, <1>6 DEF Outs
<1>12. CASE step = 3 * t + 2 /\ Value = 1
  <2>1. Pos' = Pos /\ Taken' = t + 1 /\ bits = t /\ Len(got) = Pos - 1 /\ step' = 3 * t + 3
    <3>1. step # 3 * t + 1 /\ step + 1 = 3 * t + 3
      BY <1>8, <1>12
    <3> QED BY <1>7, <1>12, <3>1
  <2>2. step % 3 = 2 /\ step' % 3 = 0
    BY <1>8, <1>12, <2>1
  <2>3. line.cs = 0 /\ line.clk = 0
    <3>1. CsLow /\ ~ ClkHigh
      BY <1>4, <1>5, <2>2 DEF CsLow, ClkHigh
    <3> QED BY <1>1, <3>1
  <2> DEFINE taken == 2 * part + line.din
  <2>4. /\ IF bits + 1 < ByteBits
             THEN bits' = bits + 1 /\ part' = taken /\ UNCHANGED got
             ELSE bits' = 0 /\ part' = 0 /\ got' = Took(taken)
        /\ UNCHANGED <<mem, wip>>
    BY <1>1, <1>2, <1>12, <2>3 DEF Lines
  <2>5. Pos <= Outs => taken = Sending[Pos] \div TwoTo[ByteBits - (t + 1)]
    <3>1. SUFFICES ASSUME Pos <= Outs PROVE taken = Sending[Pos] \div TwoTo[ByteBits - (t + 1)]
      OBVIOUS
    <3>2. part = Sending[Pos] \div TwoTo[ByteBits - t] /\ line.din = Bit(Sending[Pos], t)
      BY <1>1, <1>5, <2>1, <2>2, <3>1 DEF GpioTrack
    <3>3. Sending[Pos] \div TwoTo[ByteBits - (t + 1)]
            = 2 * (Sending[Pos] \div TwoTo[ByteBits - t]) + Bit(Sending[Pos], t)
      BY <1>10, <3>1, BitStep
    <3> QED BY <3>2, <3>3
  <2> HIDE DEF taken
  <2>6. CASE t + 1 < ByteBits
    <3>1. bits' = t + 1 /\ part' = taken /\ got' = got
      BY <2>1, <2>4, <2>6
    <3>3. GpioTrack'
      <4>1. t + 1 # ByteBits /\ Pos' # Outs' + Ins' + 1
        BY <1>4, <1>5, <1>6, <2>1, <2>6
      <4> QED BY <1>6, <2>1, <2>2, <2>5, <3>1, <4>1 DEF GpioTrack
    <3> QED BY <1>5, <1>6, <2>4, <3>1, <3>3
  <2>7. CASE ~ (t + 1 < ByteBits)
    <3>1. bits' = 0 /\ part' = 0 /\ got' = Took(taken) /\ t = ByteBits - 1 /\ t + 1 = ByteBits
      BY <1>8, <1>6, <2>1, <2>4, <2>7
    <3>2. taken \in Byte
      <4>1. ~ (bits + 1 < ByteBits)
        BY <2>1, <2>7
      <4> QED BY <1>1, <1>2, <4>1, BitTaken DEF taken
    <3>3. Pos <= Outs => taken = Sending[Pos]
      BY <1>10, <2>5, <3>1, BitStep
    <3>4. Len(got) < Outs => taken = Sending[Len(got) + 1]
      <4>1. Len(got) + 1 = Pos
        BY <1>4, <2>1
      <4> QED BY <1>4, <2>1, <3>3, <4>1
    <3>6. Len(got') = Len(got) + 1
      BY <1>1, <3>1, <3>2, TookType
    <3>8. Len(got') = Pos
      BY <1>4, <2>1, <3>6
    <3>9. GpioTrack'
      <4>1. Pos' # Outs' + Ins' + 1
        BY <1>4, <1>5, <1>6, <2>1
      <4>2. Pos <= Outs => Sending[Pos] \div TwoTo[ByteBits] = 0
        <5>1. TwoTo[ByteBits] \in Nat \ {0}
          BY ByteType
        <5> QED BY <1>10, <5>1 DEF Byte
      <4>3. ByteBits - 0 = ByteBits
        BY <1>6
      <4> QED BY <1>6, <2>1, <2>2, <3>1, <3>8, <4>1, <4>2, <4>3 DEF GpioTrack
    <3> QED BY <1>5, <1>6, <2>4, <3>1, <3>2, <3>4, <3>9
  <2> QED BY <2>6, <2>7
<1>13. CASE step = 3 * t + 3 /\ Value = 0
  <2>1. UNCHANGED <<got, bits, part, mem, wip>>
    <3>1. ~ (line.cs = 0 /\ line'.cs = 1) /\ ~ (line.clk = 0 /\ line'.clk = 1)
      BY <1>2, <1>13
    <3> QED BY <1>1, <3>1 DEF Lines, chipVars
  <2>2. /\ Taken = t + 1 /\ step' % 3 = 1
        /\ IF t = ByteBits - 1
             THEN step' = 1 /\ Pos' = Pos + 1 /\ Taken' = 0
             ELSE Pos' = Pos /\ Taken' = t + 1
    BY <1>7, <1>13
  <2>4. IF Taken = ByteBits THEN bits = 0 /\ Len(got) = Pos
        ELSE bits = Taken /\ Len(got) = Pos - 1
    BY <1>1, <1>5 DEF GpioTrack
  <2>5. CASE t = ByteBits - 1
    <3>1. bits = 0 /\ Len(got) = Pos /\ Pos' = Pos + 1 /\ Taken' = 0 /\ step' = 1
      BY <1>6, <2>2, <2>4, <2>5
    <3>2. part = 0
      <4>1. TwoTo[0] = 1
        BY PowersOfTwo
      <4> QED BY <1>1, <3>1, <4>1 DEF Chip
    <3>3. Pos' <= Outs => Sending[Pos'] \div TwoTo[ByteBits - 0] = 0
      <4>1. TwoTo[ByteBits] \in Nat \ {0} /\ ByteBits - 0 = ByteBits
        BY <1>6, ByteType
      <4>2. Pos' <= Outs => Sending[Pos'] \in Byte
        BY <1>4, <1>6, <3>1 DEF Outs
      <4> QED BY <4>1, <4>2 DEF Byte
    <3>4. Pos' - 1 = Pos /\ 0 # ByteBits
      BY <1>4, <1>6, <3>1
    <3>5. step' % 3 # 2
      BY <2>2
    <3>6. GpioTrack'
      BY <1>6, <2>1, <3>1, <3>2, <3>3, <3>4, <3>5 DEF GpioTrack
    <3> QED BY <1>5, <1>6, <2>1, <3>6
  <2>6. CASE t # ByteBits - 1
    <3>1. Pos' = Pos /\ Taken' = Taken /\ t + 1 # ByteBits
      BY <1>8, <1>6, <2>2, <2>6
    <3>2. step' % 3 # 2
      BY <2>2
    <3>3. Pos <= Outs => part = Sending[Pos] \div TwoTo[ByteBits - bits]
      BY <1>1 DEF GpioTrack
    <3>4. Pos' # Outs' + Ins' + 1
      BY <1>4, <1>5, <1>6, <3>1
    <3>5. GpioTrack'
      BY <1>6, <2>1, <2>4, <3>1, <3>2, <3>3, <3>4 DEF GpioTrack
    <3> QED BY <1>5, <1>6, <2>1, <3>5
  <2> QED BY <2>5, <2>6
<1> QED BY <1>9, <1>12, <1>13

LEMMA TrackGpioClk ==
  ASSUME TypeInv, GpioWires, Tracked, DriveGpio("clk"), Selected
  PROVE  Tracked'
<1>1. /\ port = "gpio" /\ Running /\ Now[step].what = "clk" /\ Onward
      /\ UNCHANGED <<port, call, todo, buff>> /\ ~ Entering'
  <2>1. "clk" \in {"init", "cs", "din", "clk"}
    OBVIOUS
  <2> QED BY <2>1, GpioParts
<1>2. GpioTrack /\ Heard
  BY DEF Tracked
<1>3. /\ UNCHANGED <<mem, wip>> /\ GpioTrack'
      /\ Sending' = Sending /\ Outs' = Outs /\ Pos <= Outs + Ins
      /\ \/ got' = got
         \/ \E b \in Byte : /\ got' = Took(b)
                            /\ Len(got) < Outs => b = Sending[Len(got) + 1]
  BY <1>2, GpioClk
<1>4. CASE got' = got
  <2>1. Heard'
    BY <1>2, <1>3, <1>4 DEF Heard
  <2> QED BY <1>1, <1>3, <2>1, GpioKept
<1>5. ASSUME NEW b \in Byte, got' = Took(b), Len(got) < Outs => b = Sending[Len(got) + 1]
      PROVE  Tracked'
  <2>1. \A i \in 1 .. Len(got) + 1 : i <= Outs => Took(b)[i] = Sending[i]
    BY <1>2, <1>3, <1>5, ByteHeard DEF Tracked
  <2>2. Len(got') = Len(got) + 1
    BY <1>5, Parts, TookType DEF TypeInv
  <2>3. Heard'
    BY <1>3, <1>5, <2>1, <2>2 DEF Heard
  <2> QED BY <1>1, <1>3, <2>3, GpioKept
<1> QED BY <1>3, <1>4, <1>5

\* A bit of the answer is read, in the middle of a byte.
LEMMA GpioBitPlace ==
  ASSUME TypeInv, GpioTrack, ReadGpioBit
  PROVE  /\ UNCHANGED <<port, call, exposed, line, shift, got, bits, part, mem, wip, faults>>
         /\ Selected /\ Selected' /\ Sending' = Sending /\ Outs' = Outs /\ GpioTrack'
<1>1. /\ Access("bit") /\ UNCHANGED <<line, shift, got, bits, part, mem, wip, faults>>
  BY DEF ReadGpioBit, portVars, chipVars
<1>2. /\ Running /\ Now[step].what = "bit" /\ Onward /\ port = "gpio"
      /\ UNCHANGED <<port, call, todo, exposed>>
  BY <1>1, AccessParts, PortAccess
<1>3. Inside /\ Pos \in 1 .. Outs + Ins
  BY <1>2, GpioAccess DEF GpioPlace, AtLine, Is
<1>4. Selected /\ Pos \in Nat \ {0} /\ Outs \in Nat \ {0} /\ Ins \in Nat /\ Pos <= Outs + Ins
  BY <1>3, SpotType DEF Selected
<1>5. Selected' /\ Sending' = Sending /\ Outs' = Outs /\ Ins' = Ins /\ ByteBits \in Nat \ {0}
  BY <1>2, <1>4, BytePlace
<1>6. PICK t \in 0 .. ByteBits - 1 :
        /\ GpioBit(t)
        /\ step \in {3 * t + 1, 3 * t + 2} =>
             /\ step' = step + 1 /\ Pos' = Pos /\ Taken = t
             /\ bits = t /\ Len(got) = Pos - 1
             /\ Taken' = (IF step = 3 * t + 1 THEN t ELSE t + 1)
  BY <1>2, <1>4, BytePlace
<1>7. step = 3 * t + 1 /\ Pos > Outs
  BY <1>2, <1>6 DEF GpioBit, AtLine, Is
<1>8. Pos' = Pos /\ Taken' = t /\ bits = t /\ Len(got) = Pos - 1
  BY <1>4, <1>6, <1>7
<1>9. GpioTrack'
  <2>1. t # ByteBits /\ Pos' # Outs' + Ins' + 1 /\ ~ (Pos' <= Outs')
    BY <1>4, <1>5, <1>7, <1>8
  <2> QED BY <1>1, <1>5, <1>8, <2>1 DEF GpioTrack
<1> QED BY <1>1, <1>2, <1>4, <1>5, <1>9

\* A bit of the answer is read.
LEMMA TrackGpioBit ==
  ASSUME TypeInv, GpioWires, Tracked, ReadGpioBit
  PROVE  Tracked'
<1> DEFINE last == buff[Len(buff)]
<1>1. /\ Access("bit") /\ UNCHANGED <<line, shift, data>>
      /\ UNCHANGED <<got, bits, part, mem, wip>>
  BY DEF ReadGpioBit, portVars, chipVars
<1>2. /\ Running /\ Now[step].what = "bit" /\ Active /\ Onward /\ port = "gpio"
      /\ UNCHANGED <<port, call, todo>>
  BY <1>1, AccessParts, PortAccess
<1>3. Chip /\ buff \in Seq(Byte) /\ Len(buff) <= PageSize
  BY Parts DEF TypeInv, Received
<1>4. Inside /\ Pos \in 1 .. Outs + Ins
  BY <1>2, GpioAccess DEF GpioPlace, AtLine, Is
<1>5. Selected
  BY <1>4, SpotType DEF Selected
<1>6. /\ Pos \in Nat \ {0} /\ Outs \in Nat \ {0} /\ Ins \in Nat /\ Pos <= Outs + Ins
      /\ Sending \in Seq(Byte) /\ ByteBits \in Nat \ {0}
  BY <1>4, SpotType, Sizes
<1>7. Selected' /\ Sending' = Sending /\ Outs' = Outs /\ Ins' = Ins
  BY <1>2, <1>5, <1>6, BytePlace DEF Tracked
<1>8. PICK t \in 0 .. ByteBits - 1 :
        /\ GpioBit(t)
        /\ step \in {3 * t + 1, 3 * t + 2} =>
             /\ step' = step + 1 /\ Pos' = Pos /\ Taken = t
             /\ bits = t /\ Len(got) = Pos - 1
             /\ Taken' = (IF step = 3 * t + 1 THEN t ELSE t + 1)
  BY <1>2, <1>5, <1>6, BytePlace DEF Tracked
<1>9. step = 3 * t + 1 /\ Pos > Outs /\ Value = t
  BY <1>2, <1>8 DEF GpioBit, AtLine, Is, Value
<1>10. Pos' = Pos /\ Taken' = t /\ bits = t /\ Len(got) = Pos - 1 /\ step' = 3 * t + 2
  BY <1>6, <1>8, <1>9
<1>11. GpioTrack'
  <2>1. t # ByteBits /\ Pos' # Outs' + Ins' + 1 /\ ~ (Pos' <= Outs')
    BY <1>6, <1>7, <1>9, <1>10
  <2> QED BY <1>1, <1>7, <1>10, <2>1 DEF GpioTrack
<1>12. Heard'
  BY <1>1, <1>5, <1>7 DEF Tracked, Heard
<1>13. wip' => Polling'
  BY <1>1, <1>2, PollingNext DEF Tracked
<1>14. Stands' <=> Stands
  BY <1>1, <1>2 DEF Stands, Changes
<1>15. \A j : Expected(j)' = Expected(j)
  <2> SUFFICES ASSUME NEW CONSTANT j PROVE Expected(j)' = Expected(j)
    OBVIOUS
  <2> QED BY <1>1, <1>2 DEF Expected
<1>16. Pos \in Outs + 1 .. Outs + Ins
  BY <1>6, <1>9
<1>17. Len(buff) = Pos - Outs - 1 + Begun(step)
  BY <1>4, <1>16, FilledAt
<1>18. Receiving(call, piece)
  BY <1>4, <1>16, FilledAt
<1> DEFINE e == Expected(Pos - Outs)
<1>19. ASSUME Stands
       PROVE  /\ e \in Byte
              /\ buff' = IF t = 0 THEN Append(buff, Bit(e, t) * Weight(t))
                         ELSE [buff EXCEPT ![Len(buff)] = @ + Bit(e, t) * Weight(t)]
  <2>1. OutByte = e
    BY <1>5, <1>10, <1>16, <1>19, AnswerRight DEF Tracked
  <2>2. e \in Byte
    BY <1>3, <2>1, OutByteType
  <2>3. buff' = IF t = 0 THEN Append(buff, Bit(OutByte, bits) * Weight(t))
                ELSE [buff EXCEPT ![Len(buff)] = @ + Bit(OutByte, bits) * Weight(t)]
    BY <1>9 DEF ReadGpioBit
  <2> QED BY <1>10, <2>1, <2>2, <2>3
<1> HIDE DEF e
<1>20. Told'
  <2>1. SUFFICES ASSUME Stands PROVE
          /\ Len(buff') = Pos - Outs
          /\ \A j \in 1 .. Len(buff') : j < Len(buff') => buff'[j] = Expected(j)
          /\ buff'[Len(buff')] = (e \div Weight(t)) * Weight(t)
    <3>1. \A i \in 0 .. ByteBits - 1 : step' \in {3 * i + 2, 3 * i + 3, 3 * i + 4} => i = t
      BY <1>6, <1>10
    <3>2. UnderWay'
      <4>1. piece' = piece
        BY <1>2, <1>9, <1>10 DEF Onward
      <4> QED BY <1>2, <1>10, <1>18, <4>1, SamePlaces DEF UnderWay
    <3>3. Expected(Pos - Outs)' = Expected(Pos - Outs)
      BY <1>1, <1>2, <1>7, <1>10 DEF Expected
    <3>4. Stands /\ Len(buff') = Pos - Outs => Expected(Len(buff))' = e
      BY <1>1, <1>2, <1>7, <1>10 DEF Expected, e
    <3> QED BY <2>1, <1>14, <1>15, <3>1, <3>2, <3>4 DEF Told
  <2>2. CASE t = 0
    <3>1. Len(buff) = Pos - Outs - 1
      <4>1. Begun(step) = 0
        BY <1>9, <2>2 DEF Begun
      <4> QED BY <1>6, <1>17, <4>1
    <3>2. buff' = Append(buff, Bit(e, 0) * Weight(0))
      BY <1>19, <2>1, <2>2
    <3>3. \A j \in 1 .. Len(buff) : buff[j] = Expected(j)
      <4>1. ~ UnderWay
        BY <1>9, <2>2 DEF UnderWay
      <4> QED BY <1>2, <2>1, <4>1 DEF Tracked, Told
    <3>4. (e \div Weight(0)) * Weight(0) = Bit(e, 0) * Weight(0)
      BY <1>19, <2>1, <2>2, BitStep
    <3>5. Len(buff') = Len(buff) + 1 /\ buff'[Len(buff) + 1] = Bit(e, 0) * Weight(0)
          /\ \A j \in 1 .. Len(buff) : buff'[j] = buff[j]
      BY <1>3, <3>2
    <3>6. Len(buff') = Pos - Outs /\ Len(buff) \in Nat
      BY <1>3, <1>6, <3>1, <3>5
    <3>7. ASSUME NEW j \in 1 .. Len(buff'), j < Len(buff') PROVE buff'[j] = Expected(j)
      <4>1. j \in 1 .. Len(buff)
        BY <3>5, <3>6, <3>7
      <4> QED BY <3>3, <3>5, <4>1
    <3> QED BY <2>2, <3>4, <3>5, <3>6, <3>7
  <2>3. CASE t > 0
    <3>1. Len(buff) = Pos - Outs
      <4>1. step > 1
        BY <1>6, <1>9, <2>3
      <4>2. Begun(step) = 1
        BY <1>2, <4>1 DEF Begun
      <4> QED BY <1>6, <1>17, <4>2
    <3>2. buff' = [buff EXCEPT ![Len(buff)] = @ + Bit(e, t) * Weight(t)]
      BY <1>6, <1>19, <2>1, <2>3
    <3>3. UnderWay
      BY <1>2, <1>6, <1>9, <1>18, <2>3 DEF UnderWay
    <3>4. /\ \A j \in 1 .. Len(buff) : j < Len(buff) => buff[j] = Expected(j)
          /\ last = (Expected(Len(buff)) \div Weight(t - 1)) * Weight(t - 1)
      <4>1. t - 1 \in 0 .. ByteBits - 1 /\ step = 3 * (t - 1) + 4
        BY <1>6, <1>9, <2>3
      <4>2. /\ \A j \in 1 .. Len(buff) : j < Len(buff) => buff[j] = Expected(j)
            /\ \A i \in 0 .. ByteBits - 1 : step \in {3 * i + 2, 3 * i + 3, 3 * i + 4} =>
                 last = (Expected(Len(buff)) \div Weight(i)) * Weight(i)
        BY <1>2, <2>1, <3>3 DEF Tracked, Told
      <4> QED BY <4>1, <4>2
    <3>5. Expected(Len(buff)) = e
      BY <3>1 DEF e
    <3>6. (e \div Weight(t)) * Weight(t)
            = (e \div Weight(t - 1)) * Weight(t - 1) + Bit(e, t) * Weight(t)
      BY <1>19, <2>1, <2>3, BitStep
    <3>7. Len(buff) \in 1 .. Len(buff)
      BY <1>6, <1>9, <3>1
    <3>8. Len(buff') = Len(buff) /\ buff'[Len(buff)] = last + Bit(e, t) * Weight(t)
          /\ \A j \in 1 .. Len(buff) : j < Len(buff) => buff'[j] = buff[j]
      BY <1>3, <3>2, <3>7
    <3> QED BY <3>1, <3>4, <3>5, <3>6, <3>8
  <2> QED BY <1>6, <2>2, <2>3
<1> QED BY <1>2, <1>7, <1>11, <1>12, <1>13, <1>20 DEF Tracked, Resting, RegTrack

LEMMA TrackInit ==
  ASSUME Init
  PROVE  Track
<1>1. /\ call = Off /\ got = <<>> /\ shift = Empty /\ ~ wip
  BY DEF Init
<1>2. ~ Selected /\ ~ Active
  BY <1>1 DEF Selected, Inside, Active
<1>3. ~ Writes /\ ~ Erases
  BY <1>1 DEF Writes, Erases
<1> QED BY <1>1, <1>2, <1>3 DEF Track, Tracked, Resting, RegTrack, GpioTrack, Told

\* Without faults so far there was none before.
LEMMA Faultless ==
  ASSUME TypeInv, [Next]_vars, faults' = 0
  PROVE  /\ faults = 0 /\ ~ WaitGivesUp /\ ~ CycleLost
         /\ ~ Crash => UNCHANGED <<crashes, cut>>
<1>1. ~ WaitGivesUp /\ ~ CycleLost
  BY DEF WaitGivesUp, CycleLost, TypeInv, TypeOK
<1>2. faults' = faults /\ (~ Crash => UNCHANGED <<crashes, cut>>)
  <2>1. CASE Open \/ Call \/ Return \/ Crash
    BY <2>1, Turning
  <2>2. CASE Process /\ ~ Return
    <3>1. faults' = faults
      BY <2>2 DEF Process, DriveGpio, ReadGpioBit, WriteRegister, SelectRegister, WaitForData,
                  TakeByte, PollStatus
    <3>2. UNCHANGED <<crashes, histVars>>
      BY <2>2 DEF Process, DriveGpio, ReadGpioBit, WriteRegister, SelectRegister, WaitForData,
                  TakeByte, PollStatus, Access, Due
    <3> QED BY <3>1, <3>2 DEF histVars
  <2>3. CASE Shifted \/ ChipReady \/ UNCHANGED vars
    BY <2>3 DEF Shifted, ChipReady, vars, histVars
  <2> QED BY <1>1, <2>1, <2>2, <2>3 DEF Next
<1> QED BY <1>1, <1>2

LEMMA TrackStep ==
  ASSUME TypeInv, Wires, Track, [Next]_vars
  PROVE  Track'
<1>1. SUFFICES ASSUME Clean' PROVE Tracked'
  BY DEF Track
<1>2. /\ faults = 0 /\ ~ WaitGivesUp /\ ~ CycleLost
      /\ ~ Crash => UNCHANGED <<crashes, cut>>
  BY <1>1, Faultless DEF Clean
<1>3. GpioWires /\ RegWires
  BY <1>2 DEF Wires
<1>4. ~ Crash => Tracked
  <2>1. SUFFICES ASSUME ~ Crash PROVE Tracked
    OBVIOUS
  <2>2. port' = port
    <3>1. CASE Open \/ Call \/ Return
      BY <3>1, Turning
    <3>2. CASE Process /\ ~ Return
      BY <3>2 DEF Process, DriveGpio, ReadGpioBit, WriteRegister, SelectRegister, WaitForData,
                  TakeByte, PollStatus, Access, Due
    <3>3. CASE Shifted \/ ChipReady \/ UNCHANGED vars
      BY <3>3 DEF Shifted, ChipReady, vars
    <3> QED BY <1>2, <2>1, <3>1, <3>2, <3>3 DEF Next
  <2>3. LeftClean' <=> LeftClean
    BY <1>2, <2>1, <2>2 DEF LeftClean
  <2> QED BY <1>1, <1>2, <2>3 DEF Clean, Track
<1>5. CASE Open \/ Call \/ Return \/ Crash
  BY <1>1, <1>3, <1>4, <1>5, TrackTurning DEF Clean
<1>6. CASE ~ Crash /\ \E what \in {"init", "cs", "din", "clk"} : DriveGpio(what)
  <2>1. PICK what \in {"init", "cs", "din", "clk"} : DriveGpio(what)
    BY <1>6
  <2>2. Tracked
    BY <1>4, <1>6
  <2>3. \/ ~ Selected /\ ~ Selected'
        \/ what = "cs" /\ ~ Selected /\ Selected'
        \/ what = "cs" /\ Selected /\ AtLine("cs", 1)
        \/ what \in {"din", "clk"} /\ Selected
    BY <1>3, <2>1, GpioCases
  <2>4. CASE ~ Selected /\ ~ Selected'
    BY <1>3, <2>1, <2>2, <2>4, TrackGpioOutside
  <2>5. CASE what = "cs" /\ ~ Selected /\ Selected'
    BY <1>3, <2>1, <2>2, <2>5, TrackGpioPrefix
  <2>6. CASE what = "cs" /\ Selected /\ AtLine("cs", 1)
    BY <1>3, <2>1, <2>2, <2>6, TrackGpioSuffix
  <2>7. CASE what = "din" /\ Selected
    BY <1>3, <2>1, <2>2, <2>7, TrackGpioDin
  <2>8. CASE what = "clk" /\ Selected
    BY <1>3, <2>1, <2>2, <2>8, TrackGpioClk
  <2> QED BY <2>3, <2>4, <2>5, <2>6, <2>7, <2>8
<1>7. CASE ~ Crash /\ \E what \in {"cs", "shift"} : WriteRegister(what)
  BY <1>3, <1>4, <1>7, TrackRegCs, TrackRegShift
<1>8. CASE ~ Crash /\ (SelectRegister \/ WaitForData \/ TakeByte)
  <2>1. port # "gpio"
    BY <1>8, PortAccess DEF SelectRegister, WaitForData, TakeByte
  <2> QED BY <1>3, <1>4, <1>8, <2>1, TrackRegAside
<1>9. CASE ~ Crash /\ ReadGpioBit
  BY <1>3, <1>4, <1>9, TrackGpioBit
<1>10. CASE ~ Crash /\ PollStatus
  BY <1>3, <1>4, <1>10, TrackPoll
<1>11. CASE ~ Crash /\ Shifted
  BY <1>3, <1>4, <1>11, TrackShifted
<1>12. CASE ~ Crash /\ (ChipReady \/ UNCHANGED vars)
  BY <1>4, <1>12, TrackReady
<1> QED BY <1>2, <1>5, <1>6, <1>7, <1>8, <1>9, <1>10, <1>11, <1>12 DEF Next, Process

-----------------------------------------------------------------------------
(* The id, and commands to a busy chip *)

\* All that is kept from step to step.
PortInv == TypeInv /\ Wires /\ Track

LEMMA PortInvHolds == Spec => []PortInv
<1>1. Init => PortInv
  BY TypeInit, WiresInit, TrackInit DEF PortInv
<1>2. PortInv /\ [Next]_vars => PortInv'
  BY TypeStep, WiresStep, TrackStep DEF PortInv
<1> QED BY <1>1, <1>2, PTL DEF Spec

\* A call that opens the board returns the id that the chip gives.
LEMMA IdReturned ==
  ASSUME TypeInv, Tracked, Return, call.op = "open"
  PROVE  id' = FlashId
<1>1. /\ Active /\ piece = Len(todo) + 1 /\ id' = buff[1]
  BY DEF Return, Active
<1>2. call \in Calls \cup {Calling} /\ todo = Accesses(call) /\ port \in Ports /\ step \in Nat \ {0}
  BY <1>1, Parts DEF TypeInv, Control, Active
<1>3. Len(todo) = IdAt + 6 /\ IdAt \in 1 .. 2
  <2>1. IdAt \in 1 .. 2
    BY DEF IdAt
  <2> QED BY <1>2, <2>1, CallLayout DEF Layout
<1>4. piece = IdAt + 7 /\ piece \in Nat \ {0}
  BY <1>1, <1>3
<1>5. Len(buff) = 1
  <2>1. Len(buff) = Filled(call, piece, step)
    BY <1>1 DEF TypeInv, Answered
  <2>2. Filled(call, piece, step) = 1
    BY <1>2, <1>4, FilledNext
  <2> QED BY <2>1, <2>2
<1>6. ~ UnderWay
  <2>1. ~ Receiving(call, piece)
    BY <1>2, <1>3, <1>4, ReceivingAt
  <2> QED BY <2>1 DEF UnderWay
<1>7. buff[1] = Expected(1)
  BY <1>1, <1>5, <1>6 DEF Tracked, Told, Stands, Changes
<1> QED BY <1>1, <1>7 DEF Expected

LEMMA IdStep ==
  ASSUME PortInv, IdRight, [Next]_vars
  PROVE  IdRight'
<1>1. SUFFICES ASSUME id' # Unread, faults' = 0, LeftClean' PROVE id' = FlashId
  BY DEF IdRight
<1>2. /\ faults = 0 /\ ~ WaitGivesUp /\ ~ CycleLost
      /\ ~ Crash => UNCHANGED <<crashes, cut>>
  BY <1>1, Faultless DEF PortInv
<1>3. ~ Crash
  BY <1>1 DEF Crash
<1>4. port' = port => (LeftClean' <=> LeftClean)
  BY <1>2, <1>3 DEF LeftClean
<1>5. CASE Open
  BY <1>1, <1>5 DEF Open
<1>6. CASE Return
  <2>1. LeftClean
    BY <1>1, <1>4, <1>6 DEF Return
  <2>2. Tracked /\ TypeInv
    BY <1>2, <2>1 DEF PortInv, Track, Clean
  <2>3. CASE call.op = "open"
    BY <1>6, <2>2, <2>3, IdReturned
  <2>4. CASE call.op # "open"
    <3>1. id' = id
      BY <1>6, <2>4 DEF Return
    <3> QED BY <1>1, <1>2, <2>1, <3>1 DEF IdRight
  <2> QED BY <2>3, <2>4
<1>7. CASE Call \/ (Process /\ ~ Return) \/ Shifted \/ ChipReady \/ UNCHANGED vars
  <2>1. UNCHANGED <<port, id>>
    <3>1. CASE Call
      BY <3>1 DEF Call, Begin
    <3>2. CASE Process /\ ~ Return
      BY <3>2 DEF Process, DriveGpio, ReadGpioBit, WriteRegister, SelectRegister, WaitForData,
                  TakeByte, PollStatus, Access, Due
    <3>3. CASE Shifted \/ ChipReady \/ UNCHANGED vars
      BY <3>3 DEF Shifted, ChipReady, vars, progVars
    <3> QED BY <1>7, <3>1, <3>2, <3>3
  <2> QED BY <1>1, <1>2, <1>4, <2>1 DEF IdRight
<1> QED BY <1>2, <1>3, <1>5, <1>6, <1>7 DEF Next

\* The id that decides on the user area is the chip's, whatever the port, as
\* long as nothing is lost and the process before was not cut off in the middle
\* of a command or of an operation (read_flash_id, eeprom_local.c:342-351).
THEOREM IdIsTheChips == Spec => []IdRight
<1>1. Init => IdRight
  BY DEF Init, IdRight
<1>2. PortInv /\ IdRight /\ [Next]_vars => IdRight'
  BY IdStep
<1> QED BY <1>1, <1>2, PortInvHolds, PTL DEF Spec

\* The step that the chip would take for the beginning of a command it ignores.
LEMMA CommandStep ==
  ASSUME PortInv, [Next]_vars, PortInv', got = <<>>, got' # <<>>, got'[1] = NoCommand
  PROVE  faults > 0 \/ ~ LeftClean
<1>1. SUFFICES ASSUME Clean PROVE FALSE
  BY DEF PortInv, TypeInv, TypeOK, Clean
<1>2. TypeInv /\ Wires /\ Track /\ TypeInv' /\ Wires' /\ Track'
  BY DEF PortInv
<1>3. \/ \E what \in {"init", "cs", "din", "clk"} : DriveGpio(what)
      \/ \E what \in {"cs", "shift"} : WriteRegister(what)
      \/ Shifted
  <2>1. ~ Open /\ ~ Call /\ ~ Return /\ ~ Crash
    BY <1>2, Turning DEF chipVars
  <2>2. /\ ~ ReadGpioBit /\ ~ SelectRegister /\ ~ WaitForData /\ ~ TakeByte /\ ~ PollStatus
        /\ ~ WaitGivesUp /\ ~ CycleLost /\ ~ ChipReady /\ ~ UNCHANGED vars
    BY DEF ReadGpioBit, SelectRegister, WaitForData, TakeByte, PollStatus, WaitGivesUp,
           CycleLost, ChipReady, vars, chipVars
  <2> QED BY <2>1, <2>2 DEF Next, Process
<1>4. UNCHANGED <<port, faults, crashes, cut>>
  <2>1. UNCHANGED <<port, crashes, histVars>>
    BY <1>3 DEF DriveGpio, WriteRegister, Shifted, Access, Due
  <2>2. faults' = faults
    BY <1>3 DEF DriveGpio, WriteRegister, Shifted
  <2> QED BY <2>1, <2>2 DEF histVars
<1>5. Clean'
  BY <1>1, <1>4 DEF Clean, LeftClean
<1>6. Tracked /\ Tracked' /\ GpioWires /\ GpioWires'
  BY <1>1, <1>2, <1>5 DEF Track, Wires, Clean
<1>7. Selected'
  <2>1. SUFFICES ASSUME ~ Selected' PROVE FALSE
    OBVIOUS
  <2>2. CASE port # "gpio"
    BY <1>4, <1>6, <2>1, <2>2 DEF Tracked, Resting
  <2>3. CASE port = "gpio"
    <3>1. \E what \in {"init", "cs", "din", "clk"} : DriveGpio(what)
      <4>1. ~ Shifted
        BY <1>2, <2>3 DEF Shifted, TypeInv, Basics
      <4> QED BY <1>3, <2>3, <4>1 DEF WriteRegister
    <3>2. ~ Entering'
      BY <1>2, <1>6, <3>1, GpioParts
    <3>3. line'.cs = 1
      BY <1>4, <1>6, <2>1, <2>3, <3>2 DEF GpioWires, CsLow
    <3> QED BY <1>2, <3>3 DEF TypeInv, Basics
  <2> QED BY <2>2, <2>3
<1>8. (Len(got) >= 1)' /\ (got[1] = Sending[1])' /\ (Sending[1] \in Byte)'
  <2>1. (Chip /\ Inside)'
    BY <1>2, <1>7, Parts DEF TypeInv, Selected
  <2>2. (Outs \in Nat \ {0} /\ Sending \in Seq(Byte))'
    BY <1>2, <2>1, SpotType, PTL
  <2>3. (Heard)'
    BY <1>6, <1>7 DEF Tracked
  <2>4. (Len(got) \in Nat /\ Len(got) # 0)'
    BY <2>1 DEF Chip
  <2> QED BY <2>2, <2>3, <2>4 DEF Heard, Outs
<1>9. NoCommand \notin Byte
  BY ByteType DEF NoCommand
<1> QED BY <1>8, <1>9

\* No command but a read of the status goes to a busy chip, as long as nothing
\* is lost and the process before left the chip done with its operation
\* (wait_for_write, eeprom_local.c:353-359).
THEOREM NoCommandIgnored == Spec => IdleBeforeCommand
<1>1. PortInv /\ [Next]_vars /\ PortInv' =>
        [got = <<>> /\ got' # <<>> /\ got'[1] = NoCommand => faults > 0 \/ ~LeftClean]_vars
  BY CommandStep
<1> QED BY <1>1, PortInvHolds, PTL DEF Spec, IdleBeforeCommand

-----------------------------------------------------------------------------
(* A call does to the contents what it is for *)

LEMMA Divided ==
  ASSUME NEW x \in Nat, NEW p \in Nat \ {0}
  PROVE  x = p * (x \div p) + (x % p) /\ x % p \in 0 .. p - 1 /\ x \div p \in Int
OBVIOUS

\* A page that the chip got whole is the page that was to be written.
LEMMA PageWritten ==
  ASSUME NEW c \in Calls \cup {Calling}, c.op = "write", Chip,
         Len(got) = Len(ChangeBytes(c)), \A i \in 1 .. Len(got) : got[i] = ChangeBytes(c)[i]
  PROVE  Programmed = Effect(c, mem)
<1> DEFINE a == c.at   P == PageSize
<1>1. c \in Calls \cup {Off, Idle, Calling}
  OBVIOUS
<1>2. /\ P \in Nat \ {0} /\ Len(ChangeBytes(c)) = 4 + P
      /\ \A i \in 1 .. 3 : ChangeBytes(c)[1 + i] = SendAddress(a)[i]
      /\ \A k \in 1 .. P : ChangeBytes(c)[4 + k] = c.page[k - 1]
  BY <1>1, CommandBytes
<1>3. a \in Addresses /\ a % P = 0 /\ a \in Nat
  <2>1. a \in Addresses /\ a % P = 0
    BY <1>1, CallType
  <2> QED BY <2>1, Sizes DEF Addresses
<1>4. Len(got) = 4 + P
  BY <1>2
<1>5. \A i \in 1 .. 3 : got[1 + i] = SendAddress(a)[i]
  <2> SUFFICES ASSUME NEW i \in 1 .. 3 PROVE got[1 + i] = SendAddress(a)[i]
    OBVIOUS
  <2>1. 1 + i \in 1 .. Len(got)
    BY <1>2, <1>4
  <2> QED BY <1>2, <2>1
<1>6. \A k \in 1 .. P : got[4 + k] = c.page[k - 1]
  <2> SUFFICES ASSUME NEW k \in 1 .. P PROVE got[4 + k] = c.page[k - 1]
    OBVIOUS
  <2>1. 4 + k \in 1 .. Len(got)
    BY <1>2, <1>4
  <2> QED BY <1>2, <2>1
<1>7. Base = a /\ got[4] = 0
  <2>1. Base = (a \div P) * P /\ got[4] = a % P
    BY <1>3, <1>5, TargetIs
  <2>2. a = P * (a \div P) + (a % P) /\ a \div P \in Int
    BY <1>2, <1>3, Divided
  <2>3. (a \div P) * P = P * (a \div P)
    BY <1>2, <2>2
  <2> QED BY <1>3, <2>1, <2>2, <2>3
<1> DEFINE f(x) == {k \in 5 .. Len(got) : Base + ((got[4] + k - 5) % P) = x}
           w(x) == IF f(x) = {} THEN mem[x]
                   ELSE And(mem[x], got[CHOOSE k \in f(x) : \A j \in f(x) : j <= k])
<1>8. Programmed = [x \in Addresses |-> w(x)]
  BY DEF Programmed
<1>9. \A x : f(x) = {k \in 5 .. 4 + P : a + (k - 5) = x}
  <2> SUFFICES ASSUME NEW k \in 5 .. 4 + P PROVE Base + ((got[4] + k - 5) % P) = a + (k - 5)
    BY <1>4
  <2>1. k - 5 \in 0 .. P - 1 /\ got[4] + k - 5 = k - 5
    BY <1>2, <1>7
  <2>2. (k - 5) % P = k - 5
    BY <1>2, <2>1
  <2> QED BY <1>7, <2>1, <2>2
<1>10. ASSUME NEW x \in Addresses
       PROVE  w(x) = IF x \in PageOf(a) THEN And(mem[x], c.page[x - a]) ELSE mem[x]
  <2>0. x \in Nat
    BY Sizes DEF Addresses
  <2>1. CASE x \in PageOf(a)
    <3>1. x \div P = a \div P
      BY <2>1 DEF PageOf
    <3>2. x - a \in 0 .. P - 1
      <4>1. /\ x = P * (x \div P) + (x % P) /\ x % P \in 0 .. P - 1 /\ x \div P \in Int
            /\ a = P * (a \div P) + (a % P)
        BY <1>2, <1>3, <2>0, Divided
      <4>2. P * (x \div P) = P * (a \div P) /\ P * (x \div P) \in Int
        BY <1>2, <3>1, <4>1
      <4>3. P * (a \div P) = a
        BY <1>3, <4>1, <4>2
      <4>4. x = a + (x % P)
        BY <4>1, <4>2, <4>3
      <4> DEFINE r == x % P
      <4> HIDE DEF r
      <4>5. x = a + r /\ r \in 0 .. P - 1
        BY <4>1, <4>4 DEF r
      <4> QED BY <1>2, <1>3, <2>0, <4>5
    <3> DEFINE n == x - a + 5
    <3>3. f(x) = {n}
      <4> HIDE DEF f
      <4>1. n \in 5 .. 4 + P /\ a + (n - 5) = x
        <5> DEFINE d == x - a
        <5> HIDE DEF d
        <5>1. d \in 0 .. P - 1 /\ P \in Nat \ {0}
          BY <1>2, <3>2 DEF d
        <5>2. d + 5 \in 5 .. 4 + P
          BY <5>1
        <5>3. n = d + 5
          BY DEF d
        <5>4. a + ((d + 5) - 5) = x
          BY <1>3, <2>0 DEF d
        <5> HIDE DEF n
        <5> QED BY <5>2, <5>3, <5>4
      <4>2. \A k \in 5 .. 4 + P : a + (k - 5) = x => k = n
        BY <1>2, <1>3, <2>0
      <4> HIDE DEF n
      <4> QED BY <1>9, <4>1, <4>2
    <3>4. (CHOOSE k \in f(x) : \A j \in f(x) : j <= k) = n
      <4>1. n <= n
        BY <1>3, <2>0
      <4> HIDE DEF f, n
      <4> QED BY <3>3, <4>1
    <3>5. got[n] = c.page[x - a]
      <4>1. x - a + 1 \in 1 .. P /\ 4 + (x - a + 1) = n /\ (x - a + 1) - 1 = x - a
        <5> DEFINE d == x - a
        <5> HIDE DEF d
        <5>1. d \in 0 .. P - 1 /\ P \in Nat \ {0}
          BY <1>2, <3>2 DEF d
        <5>2. d + 1 \in 1 .. P /\ 4 + (d + 1) = d + 5 /\ (d + 1) - 1 = d
          BY <5>1
        <5> QED BY <5>2 DEF d
      <4> HIDE DEF n
      <4>2. got[4 + (x - a + 1)] = c.page[(x - a + 1) - 1]
        BY <1>6, <4>1
      <4> QED BY <4>1, <4>2
    <3>6. w(x) = And(mem[x], got[n])
      <4> HIDE DEF f, n
      <4> QED BY <3>3, <3>4
    <3> HIDE DEF w, n
    <3> QED BY <2>1, <3>5, <3>6
  <2>2. CASE x \notin PageOf(a)
    <3>1. x \div P # a \div P
      BY <2>2 DEF PageOf
    <3>2. f(x) = {}
      <4> SUFFICES ASSUME NEW k \in 5 .. 4 + P, a + (k - 5) = x PROVE FALSE
        BY <1>9
      <4> DEFINE q == a \div P
      <4>1. k - 5 \in 0 .. P - 1 /\ q \in Int /\ a = P * q
        <5>1. a = P * (a \div P) + (a % P) /\ a \div P \in Int
          BY <1>2, <1>3, Divided
        <5>2. a = P * q /\ q \in Int
          <6>1. P * q \in Int /\ a = P * q + 0
            <7> HIDE DEF q
            <7> QED BY <1>2, <1>3, <5>1 DEF q
          <6> QED BY <5>1, <6>1
        <5>3. k - 5 \in 0 .. P - 1
          BY <1>2
        <5> QED BY <5>2, <5>3
      <4> HIDE DEF q
      <4>2. (P * q + (k - 5)) \div P = q
        BY <1>2, <4>1, QuotientOf
      <4>3. x = P * q + (k - 5)
        BY <4>1
      <4> QED BY <3>1, <4>2, <4>3 DEF q
    <3> HIDE DEF f
    <3> QED BY <2>2, <3>2
  <2> QED BY <2>1, <2>2
<1> HIDE DEF w
<1>11. Effect(c, mem) = [x \in Addresses |-> IF x \in PageOf(a) THEN And(mem[x], c.page[x - a])
                                             ELSE mem[x]]
  BY DEF Effect
<1> QED BY <1>8, <1>10, <1>11

\* A sector that the chip was told to erase is the one that was to be erased.
LEMMA SectorGone ==
  ASSUME NEW c \in Calls \cup {Calling}, c.op = "erase",
         Len(got) = Len(ChangeBytes(c)), \A i \in 1 .. Len(got) : got[i] = ChangeBytes(c)[i]
  PROVE  SectorErased = Effect(c, mem)
<1>1. c \in Calls \cup {Off, Idle, Calling}
  OBVIOUS
<1>2. /\ Len(ChangeBytes(c)) = 4
      /\ \A i \in 1 .. 3 : ChangeBytes(c)[1 + i] = SendAddress(c.at)[i]
  BY <1>1, CommandBytes
<1>3. c.at \in Addresses
  BY <1>1, CallType
<1>4. \A i \in 1 .. 3 : got[1 + i] = SendAddress(c.at)[i]
  BY <1>2
<1>5. Target = c.at
  BY <1>3, <1>4, TargetIs
<1> QED BY <1>5 DEF SectorErased, Effect

\* The other calls change nothing.
LEMMA NoEffect ==
  ASSUME NEW c, ~ Changes(c), mem \in Memory
  PROVE  Effect(c, mem) = mem
<1>1. c.op # "write" /\ c.op # "erase"
  BY DEF Changes
<1>2. Effect(c, mem) = [x \in Addresses |-> mem[x]]
  BY <1>1 DEF Effect
<1> QED BY <1>2 DEF Memory
\* The access at which chip select goes up behind a command.
Raising == Selected /\ Pos = Outs + Ins + 1 /\ AtLine("cs", 1)

LEMMA RaisingAt ==
  ASSUME TypeInv, Running, Inside, Pos = Outs + Ins + 1
  PROVE  /\ Selected
         /\ port = "gpio" => Len(Now) = 2 /\ (Raising <=> step = 1)
         /\ port # "gpio" => (Raising <=> step = Len(Now))
<1>1. /\ Pos \in 0 .. Outs + Ins + 1 /\ Outs \in Nat \ {0} /\ Ins \in Nat
      /\ step \in 1 .. Len(Now) /\ Len(Now) \in Nat \ {0}
  BY SpotType, SpotPiece
<1>2. Selected
  BY <1>1 DEF Selected
<1>3. CASE port = "gpio"
  <2>1. Len(Now) = 2 /\ ((step = 1 /\ AtLine("cs", 1)) \/ (step = 2 /\ AtLine("din", 0)))
    BY <1>1, <1>3, GpioAccess DEF GpioPlace
  <2>2. AtLine("din", 0) => ~ AtLine("cs", 1)
    BY DEF AtLine, Is
  <2> QED BY <1>2, <1>3, <2>1, <2>2 DEF Raising
<1>4. CASE port # "gpio"
  <2>1. \/ step < Len(Now) /\ Now[step].what = "select"
        \/ step = Len(Now) /\ AtLine("cs", 1)
    <3>1. RegPlace
      BY <1>4, RegAccess
    <3>2. ~ (Pos \in 1 .. Outs + Ins) /\ ~ (Pos \in 1 .. Outs) /\ Pos # 0
          /\ ~ (Pos \in Outs + 1 .. Outs + Ins)
      BY <1>1
    <3>3. Now[step].what # "poll"
      BY SpotPiece
    <3>4. \/ step < Len(Now) /\ AtLine("select", Chosen(step + 1))
          \/ Len(Now) = step /\ AtLine("cs", 1)
      BY <3>1, <3>2, <3>3 DEF RegPlace
    <3> QED BY <3>4 DEF AtLine, Is
  <2>2. Now[step].what = "select" => ~ AtLine("cs", 1)
    BY DEF AtLine, Is
  <2> QED BY <1>1, <1>2, <1>4, <2>1, <2>2 DEF Raising
<1> QED BY <1>2, <1>3, <1>4

\* Raising chip select hands the command over; the other accesses of the lines
\* leave the contents, and do not take the write enable back.
Kept == mem' = mem /\ (wel => wel')
HandedOver ==
  /\ Raising /\ Deselected /\ Whole /\ Heard /\ Len(got) = Pos - 1
  /\ UNCHANGED <<port, call, todo>>

LEMMA NothingWritten ==
  ASSUME Chip, Deselected, ~ Writes, ~ Erases
  PROVE  Kept
BY DEF Deselected, Kept, Chip

LEMMA LineEffect ==
  ASSUME TypeInv, GpioWires, Tracked, NEW what \in {"init", "cs", "din", "clk"}, DriveGpio(what)
  PROVE  (Kept /\ ~ Raising) \/ HandedOver
<1>1. /\ port = "gpio" /\ Running /\ Now[step].what = what /\ Active /\ Onward
      /\ UNCHANGED <<port, call, todo>>
      /\ Lines(line') /\ Chip /\ line \in Registers
      /\ what = "init" => line' = GpioReset /\ ~ Selected
      /\ what # "init" => /\ Value \in 0 .. 1 /\ line' = [line EXCEPT ![what] = Value]
                          /\ line.cs = (IF CsLow THEN 0 ELSE 1)
      /\ line.cs = 1 => got = <<>>
  BY GpioParts
<1>0. ASSUME Raising PROVE line.cs = 0 /\ what = "cs"
  <2>1. Selected /\ Pos = Outs + Ins + 1 /\ AtLine("cs", 1) /\ Inside
    BY <1>0 DEF Raising, Selected
  <2>2. step = 1
    BY <1>0, <1>1, <2>1, RaisingAt
  <2>3. CsLow /\ what = "cs"
    BY <1>1, <2>1, <2>2 DEF CsLow, AtLine, Is
  <2> QED BY <1>1, <2>3
<1>2. CASE line.cs # 0
  <2>1. UNCHANGED <<mem, wel>>
    BY <1>1, <1>2 DEF Lines, chipVars
  <2> QED BY <1>0, <1>2, <2>1 DEF Kept
<1>3. CASE line.cs = 0 /\ what = "init"
  <2>1. line'.cs = 1
    BY <1>1, <1>3 DEF GpioReset
  <2>2. Deselected
    BY <1>1, <1>3, <2>1 DEF Lines
  <2>3. ~ Writes /\ ~ Erases
    BY <1>1, <1>3, Quiet DEF Tracked
  <2> QED BY <1>0, <1>1, <1>3, <2>2, <2>3, NothingWritten
<1>4. CASE line.cs = 0 /\ what # "init"
  <2>1. Selected /\ ~ (Pos = Outs + Ins + 1 /\ step = 2)
    BY <1>1, <1>4 DEF CsLow
  <2>2. CASE AtLine("cs", 1)
    <3>1. Inside /\ Pos \in 0 .. Outs + Ins + 1 /\ Pos >= 1 /\ Outs \in Nat /\ Ins \in Nat
      BY <2>1, SpotType DEF Selected
    <3>2. ~ AtLine("din", 0) /\ \A t : ~ GpioBit(t)
      BY <2>2 DEF AtLine, Is, GpioBit
    <3>3. Pos = Outs + Ins + 1 /\ step = 1
      BY <1>1, <3>1, <3>2, GpioAccess DEF GpioPlace
    <3>4. Raising
      BY <2>1, <2>2, <3>3 DEF Raising
    <3>5. Value = 1 /\ what = "cs"
      BY <1>1, <2>2 DEF AtLine, Is, Value
    <3>6. line'.cs = 1
      BY <1>1, <1>4, <3>5 DEF Registers
    <3>7. Deselected
      BY <1>1, <1>4, <3>6 DEF Lines
    <3>8. bits = 0 /\ Len(got) = Pos - 1 /\ Heard
      BY <1>1, <2>1, <3>3 DEF Tracked, GpioTrack
    <3>9. Whole
      BY <1>1, <3>8 DEF Whole, TypeInv, Basics
    <3> QED BY <1>1, <3>4, <3>7, <3>8, <3>9 DEF HandedOver
  <2>3. CASE ~ AtLine("cs", 1)
    <3>1. what = "cs" => Value = 0
      BY <1>1, <2>3 DEF AtLine, Is, Value
    <3>2. line'.cs = 0
      BY <1>1, <1>4, <3>1 DEF Registers
    <3>3. UNCHANGED <<mem, wel>>
      BY <1>1, <1>4, <3>2 DEF Lines, chipVars
    <3> QED BY <2>3, <3>3 DEF Kept, Raising
  <2> QED BY <2>2, <2>3
<1> QED BY <1>2, <1>3, <1>4

LEMMA RegisterEffect ==
  ASSUME TypeInv, RegWires, Tracked, NEW what \in {"cs", "shift"}, WriteRegister(what)
  PROVE  (Kept /\ ~ Raising) \/ HandedOver
<1>1. /\ shift = Empty /\ port # "gpio" /\ Access(what)
      /\ what = "cs" => Lines([line EXCEPT !.cs = Value]) /\ line' = [line EXCEPT !.cs = Value]
      /\ what = "shift" => UNCHANGED chipVars
  BY RegWrite
<1>2. /\ Running /\ Now[step].what = what /\ Active /\ Onward
      /\ UNCHANGED <<port, call, todo>>
  BY <1>1, AccessParts
<1>3. /\ Chip /\ line \in Registers /\ line.clk = 0 /\ bits = 0
  BY <1>1, Parts DEF TypeInv, Wired, Basics
<1>4. line.cs \in {0, 1} /\ [line EXCEPT !.cs = Value].cs = Value
      /\ [line EXCEPT !.cs = Value].clk = 0
  BY <1>3 DEF Registers
<1>5. CASE what = "shift"
  <2>1. ~ AtLine("cs", 1)
    BY <1>2, <1>5 DEF AtLine, Is
  <2> QED BY <1>1, <1>5, <2>1 DEF chipVars, Kept, Raising
<1>6. CASE what = "cs" /\ AtLine("cs", 0)
  <2>1. Value = 0
    BY <1>6 DEF AtLine, Is, Value
  <2>2. UNCHANGED <<mem, wel>>
    BY <1>1, <1>4, <1>6, <2>1 DEF Lines, chipVars
  <2>3. ~ AtLine("cs", 1)
    BY <1>6 DEF AtLine, Is
  <2> QED BY <2>2, <2>3 DEF Kept, Raising
<1>7. CASE what = "cs" /\ AtLine("cs", 1)
  <2>1. Value = 1
    BY <1>7 DEF AtLine, Is, Value
  <2>2. /\ line.cs = 0 => Deselected
        /\ line.cs = 1 => UNCHANGED <<mem, wel>>
    BY <1>1, <1>4, <1>7, <2>1 DEF Lines, chipVars
  <2>3. Selected => Pos = Outs + Ins + 1 /\ Given = Outs + Ins
    BY <1>1, <1>2, <1>7, RegNext
  <2>4. CASE ~ Selected
    <3>1. got = <<>>
      BY <1>1, <2>4 DEF Tracked, Resting
    <3>2. ~ Writes /\ ~ Erases
      BY <3>1 DEF Writes, Erases
    <3>3. CASE line.cs = 0
      <4>1. Kept
        BY <1>3, <2>2, <3>2, <3>3, NothingWritten
      <4> QED BY <2>4, <4>1 DEF Raising
    <3>4. CASE line.cs = 1
      BY <2>2, <2>4, <3>4 DEF Kept, Raising
    <3> QED BY <1>4, <3>3, <3>4
  <2>5. CASE Selected
    <3>1. line.cs = 0
      BY <1>1, <2>5 DEF RegWires
    <3>2. Sent = Given /\ Heard
      BY <1>1, <2>5 DEF Tracked, RegTrack
    <3>3. Len(got) = Pos - 1
      <4>1. Len(got) \in Nat
        BY <1>3, GotType
      <4>2. Outs \in Nat /\ Ins \in Nat
        BY <2>5, SpotType DEF Selected
      <4>3. Sent = Len(got) + 0
        BY <1>1 DEF Sent
      <4> QED BY <2>3, <2>5, <3>2, <4>1, <4>2, <4>3
    <3>4. Raising /\ Whole
      BY <1>1, <1>3, <1>7, <2>3, <2>5 DEF Raising, Whole
    <3> QED BY <1>2, <2>2, <3>1, <3>2, <3>3, <3>4 DEF HandedOver
  <2> QED BY <2>4, <2>5
<1>8. CASE what = "cs" /\ ~ AtLine("cs", 0) /\ ~ AtLine("cs", 1)
  BY <1>1, <1>2, <1>8, RegNext
<1> QED BY <1>5, <1>6, <1>7, <1>8

\* What the command does that is handed over.
LEMMA CommandEffect ==
  ASSUME TypeInv, HandedOver
  PROVE  /\ Changes(call) /\ piece = Size(call) + 5 /\ wel => mem' = Effect(call, mem)
         /\ ~ (Changes(call) /\ piece = Size(call) + 5) => Kept
         /\ Changes(call) /\ piece = 3 => wel'
<1>1. /\ Chip /\ Inside /\ call \in Calls \cup {Calling} /\ piece \in Nat \ {0}
      /\ Outs \in Nat \ {0} /\ Ins \in Nat /\ Sending \in Seq(Byte)
      /\ Pos = Outs + Ins + 1 /\ Len(got) = Outs + Ins /\ Selected
  BY Parts, SpotType DEF TypeInv, HandedOver, Raising, Selected
<1>2. \A i \in 1 .. Len(got) : i <= Outs => got[i] = Sending[i]
  BY DEF HandedOver, Heard
<1>3. Deselected /\ Whole
  BY DEF HandedOver
<1>4. ASSUME Changes(call), piece = Size(call) + 5, wel PROVE mem' = Effect(call, mem)
  <2> DEFINE k == Size(call)
  <2>1. /\ k \in Nat \ {0}
        /\ Bytes(call, piece) = (IF piece <= 3 THEN <<WRITE_ENABLE>>
                                 ELSE IF piece <= k + 5 THEN ChangeBytes(call) ELSE <<READ_STATUS>>)
        /\ Asks(call, piece) = (IF piece <= k + 5 THEN 0 ELSE 1)
    BY <1>1, <1>4, Numbers
  <2>2. Sending = ChangeBytes(call) /\ Outs = Len(ChangeBytes(call)) /\ Ins = 0
    BY <1>1, <1>4, <2>1 DEF Sending, Outs, Ins
  <2>3. Len(got) = Len(ChangeBytes(call)) /\ \A i \in 1 .. Len(got) : got[i] = ChangeBytes(call)[i]
    BY <1>1, <1>2, <2>2
  <2>4. call \in Calls \cup {Off, Idle, Calling} /\ call.op \in {"write", "erase"}
    BY <1>1, <1>4 DEF Changes
  <2>5. /\ ChangeBytes(call)[1] = IF call.op = "write" THEN PAGE_WRITE ELSE SECTOR_ERASE
        /\ Len(ChangeBytes(call)) = IF call.op = "write" THEN 4 + PageSize ELSE 4
        /\ PageSize \in Nat \ {0}
    BY <2>4, CommandBytes
  <2>6. got[1] = ChangeBytes(call)[1] /\ got # <<>>
    <3>1. Len(got) \in Nat \ {0}
      BY <1>1
    <3>2. 1 \in 1 .. Len(got)
      BY <3>1
    <3> QED BY <2>3, <3>1, <3>2
  <2>7. CASE call.op = "write"
    <3>1. Writes /\ ~ Erases
      <4>1. Len(got) >= 5
        BY <2>3, <2>5, <2>7
      <4>2. PAGE_WRITE # SECTOR_ERASE /\ got[1] = PAGE_WRITE
        BY <2>5, <2>6, <2>7, CodesType
      <4> QED BY <1>3, <1>4, <2>6, <4>1, <4>2 DEF Writes, Erases
    <3>2. mem' = Programmed
      BY <1>3, <3>1 DEF Deselected
    <3> QED BY <1>1, <2>3, <2>7, <3>2, PageWritten
  <2>8. CASE call.op = "erase"
    <3>1. Erases /\ ~ Writes
      <4>1. Len(got) = 4 /\ got[1] = SECTOR_ERASE
        BY <2>3, <2>5, <2>6, <2>8
      <4>2. PAGE_WRITE # SECTOR_ERASE
        BY CodesType
      <4> QED BY <1>3, <1>4, <2>6, <4>1, <4>2 DEF Writes, Erases
    <3>2. mem' = SectorErased
      BY <1>3, <3>1 DEF Deselected
    <3> QED BY <1>1, <2>3, <2>8, <3>2, SectorGone
  <2> QED BY <2>4, <2>7, <2>8
<1>5. ASSUME ~ (Changes(call) /\ piece = Size(call) + 5) PROVE ~ Writes /\ ~ Erases
  <2>1. Len(got) = Pos - 1 /\ Heard
    BY DEF HandedOver
  <2> QED BY <1>1, <1>5, <2>1, WritesWhere
<1>6. ASSUME Changes(call), piece = 3 PROVE wel'
  <2> DEFINE k == Size(call)
  <2>1. /\ k \in Nat \ {0}
        /\ Bytes(call, piece) = (IF piece <= 3 THEN <<WRITE_ENABLE>>
                                 ELSE IF piece <= k + 5 THEN ChangeBytes(call) ELSE <<READ_STATUS>>)
        /\ Asks(call, piece) = (IF piece <= k + 5 THEN 0 ELSE 1)
    BY <1>1, <1>6, Numbers
  <2>2. Sending = <<WRITE_ENABLE>> /\ Ins = 0 /\ Outs = 1
    BY <1>6, <2>1 DEF Sending, Ins, Outs
  <2>3. Len(got) = 1 /\ got[1] = WRITE_ENABLE
    BY <1>1, <1>2, <2>2
  <2>4. got = <<WRITE_ENABLE>>
    <3>1. got \in Seq(Byte \cup {NoCommand})
      BY <1>1 DEF Chip
    <3> QED BY <2>3, <3>1
  <2>5. ~ Writes /\ ~ Erases
    <3>1. piece # Size(call) + 5
      BY <1>6, <2>1
    <3> QED BY <1>5, <3>1
  <2> QED BY <1>3, <2>4, <2>5 DEF Deselected
<1>7. ASSUME ~ (Changes(call) /\ piece = Size(call) + 5) PROVE Kept
  BY <1>1, <1>3, <1>5, <1>7, NothingWritten
<1> QED BY <1>4, <1>6, <1>7
-----------------------------------------------------------------------------
(* The call under way is on its way to what it is for: before the command    *)
(* that changes the contents has been handed over they are what the goal is  *)
(* computed from, and from then on they are the goal.                        *)

\* The write enable, and the command that changes the contents, are given.
Enabled == piece >= 4 \/ (port = "gpio" /\ piece = 3 /\ step = 2)
Changed ==
  /\ Changes(call)
  /\ piece >= Size(call) + 6 \/ (port = "gpio" /\ piece = Size(call) + 5 /\ step = 2)

Pristine == faults = 0 /\ crashes = 0
Aimed ==
  Active =>
    /\ IF Changes(call) /\ ~ Changed THEN goal = Effect(call, mem) ELSE mem = goal
    /\ Changes(call) /\ Enabled /\ ~ Changed => wel
Aim == Pristine => Aimed

\* Both are given where chip select is raised behind them, and nowhere else.
LEMMA GivenNext ==
  ASSUME TypeInv, Running, Onward, UNCHANGED <<port, call, todo>>, Changes(call)
  PROVE  /\ Raising => /\ Changed' <=> Changed \/ piece = Size(call) + 5
                       /\ Enabled' <=> Enabled \/ piece = 3
         /\ ~ Raising => (Changed' <=> Changed) /\ (Enabled' <=> Enabled)
         /\ Changed => piece > 3 /\ Enabled
<1> DEFINE k == Size(call)   len == Len(Now)
<1>1. /\ Active /\ call \in Calls \cup {Calling} /\ piece \in Nat \ {0}
      /\ step \in 1 .. len /\ len \in Nat \ {0}
  BY SpotPiece
<1>2. k \in Nat \ {0}
  BY <1>1, Numbers
<1>3. Size(call)' = k /\ Changes(call)'
  BY DEF Size, ChangeBytes, SendAddress, Changes
<1>4. ASSUME piece = 3 \/ piece = k + 5
      PROVE  /\ port = "gpio" => len = 2 /\ (Raising <=> step = 1)
             /\ port # "gpio" => (Raising <=> step = len)
  <2>1. /\ Bytes(call, piece) = (IF piece <= 3 THEN <<WRITE_ENABLE>>
                                 ELSE IF piece <= k + 5 THEN ChangeBytes(call) ELSE <<READ_STATUS>>)
        /\ Asks(call, piece) = (IF piece <= k + 5 THEN 0 ELSE 1)
        /\ Len(Bytes(call, piece)) = (IF piece <= 3 THEN 1 ELSE IF piece <= k + 5 THEN k ELSE 1)
        /\ Past(call, piece) = piece - (IF piece <= 3 THEN 1 ELSE IF piece <= k + 5 THEN 4 ELSE k + 6)
        /\ Within(call, piece) <=> piece <= k + 9
    BY <1>1, Numbers
  <2>2. Pos = Past(call, piece) /\ Outs = Len(Bytes(call, piece)) /\ Ins = Asks(call, piece)
    BY DEF Pos, Outs, Sending, Ins
  <2>3. Inside
    BY <1>1, <1>2, <1>4, <2>1 DEF Inside
  <2>4. CASE piece = 3
    <3>1. piece <= 3 /\ piece <= k + 5
      BY <1>2, <2>4
    <3>2. Pos = 2 /\ Outs = 1 /\ Ins = 0
      BY <2>1, <2>2, <2>4, <3>1
    <3> QED BY <2>3, <3>2, RaisingAt
  <2>5. CASE piece = k + 5
    <3>1. ~ (piece <= 3) /\ piece <= k + 5
      BY <1>2, <2>5
    <3>2. Pos = k + 1 /\ Outs = k /\ Ins = 0
      BY <1>2, <2>1, <2>2, <2>5, <3>1
    <3> QED BY <1>2, <2>3, <3>2, RaisingAt
  <2> QED BY <1>4, <2>4, <2>5
<1>5. /\ Changed <=> piece >= k + 6 \/ (port = "gpio" /\ piece = k + 5 /\ step = 2)
      /\ Changed' <=> piece' >= k + 6 \/ (port = "gpio" /\ piece' = k + 5 /\ step' = 2)
      /\ Enabled <=> piece >= 4 \/ (port = "gpio" /\ piece = 3 /\ step = 2)
      /\ Enabled' <=> piece' >= 4 \/ (port = "gpio" /\ piece' = 3 /\ step' = 2)
  BY <1>3 DEF Changed, Enabled
<1>6. \/ step < len /\ step' = step + 1 /\ piece' = piece
      \/ step = len /\ step' = 1 /\ piece' = piece + 1
  BY DEF Onward
<1> HIDE DEF k, len
<1>7. Changed => piece > 3 /\ Enabled
  BY <1>1, <1>2, <1>5
<1>8. CASE piece = 3
  <2>1. ~ Changed /\ ~ Changed' /\ piece # k + 5
    BY <1>2, <1>5, <1>6, <1>8
  <2>2. Raising => Enabled'
    BY <1>1, <1>4, <1>5, <1>6, <1>8
  <2>3. ~ Raising => (Enabled' <=> Enabled)
    BY <1>1, <1>4, <1>5, <1>6, <1>8
  <2> QED BY <1>8, <2>1, <2>2, <2>3 DEF k
<1>9. CASE piece = k + 5
  <2>1. Enabled /\ Enabled' /\ piece # 3
    BY <1>1, <1>2, <1>5, <1>6, <1>9
  <2>2. Raising => Changed'
    BY <1>1, <1>2, <1>4, <1>5, <1>6, <1>9
  <2>3. ~ Raising => (Changed' <=> Changed)
    BY <1>1, <1>2, <1>4, <1>5, <1>6, <1>9
  <2> QED BY <1>7, <1>9, <2>1, <2>2, <2>3 DEF k
<1>10. CASE piece # 3 /\ piece # k + 5
  <2>1. Enabled' <=> Enabled
    BY <1>1, <1>5, <1>6, <1>10
  <2>2. Changed' <=> Changed
    BY <1>1, <1>2, <1>5, <1>6, <1>10
  <2> QED BY <1>7, <1>10, <2>1, <2>2 DEF k
<1> QED BY <1>8, <1>9, <1>10

\* An access that leaves the contents alone, ...
LEMMA AimedKept ==
  ASSUME TypeInv, Aimed, Running, Active, Onward, Kept, ~ Raising,
         UNCHANGED <<port, call, todo, goal>>
  PROVE  Aimed'
<1>1. /\ (Active' <=> Active) /\ (Changes(call)' <=> Changes(call))
      /\ Effect(call, mem)' = Effect(call, mem) /\ mem' = mem /\ (wel => wel')
  BY DEF Kept, Active, Changes, Effect, PageOf, Sector, And, Bit, Weight
<1>2. Changes(call) => (Changed' <=> Changed) /\ (Enabled' <=> Enabled)
  BY GivenNext
<1> QED BY <1>1, <1>2 DEF Aimed

\* ... and one that hands a command over.
LEMMA AimedHanded ==
  ASSUME TypeInv, Aimed, Running, Active, Onward, HandedOver, goal' = goal
  PROVE  Aimed' /\ mem' \in {mem, goal}
<1>1. Raising /\ UNCHANGED <<port, call, todo>>
  BY DEF HandedOver
<1>2. /\ Changes(call) /\ piece = Size(call) + 5 /\ wel => mem' = Effect(call, mem)
      /\ ~ (Changes(call) /\ piece = Size(call) + 5) => Kept
      /\ Changes(call) /\ piece = 3 => wel'
  BY CommandEffect
<1>3. (Active' <=> Active) /\ (Changes(call)' <=> Changes(call))
  BY <1>1 DEF Active, Changes
<1>4. /\ Changes(call) => /\ Changed' <=> Changed \/ piece = Size(call) + 5
                          /\ Enabled' <=> Enabled \/ piece = 3
                          /\ Changed => piece > 3 /\ Enabled
  BY <1>1, GivenNext
<1>5. mem' = mem => Effect(call, mem)' = Effect(call, mem)
  BY <1>1 DEF Effect, PageOf, Sector, And, Bit, Weight
<1>6. CASE ~ Changes(call)
  BY <1>2, <1>3, <1>6 DEF Aimed, Kept
<1>7. CASE Changes(call) /\ piece = Size(call) + 5
  <2>1. Changed'
    BY <1>4, <1>7
  <2>2. ~ Changed
    <3>1. Selected /\ Pos = Outs + Ins + 1 /\ AtLine("cs", 1) /\ Inside
      BY <1>1 DEF Raising, Selected
    <3>2. port = "gpio" => step = 1
      BY <1>1, <3>1, RaisingAt
    <3>3. Size(call) \in Nat
      BY <1>7, <3>1, SpotType, Numbers
    <3> QED BY <1>7, <3>2, <3>3 DEF Changed
  <2>3. Enabled
    <3>1. Inside
      BY <1>1 DEF Raising, Selected
    <3>2. Size(call) \in Nat
      BY <1>7, <3>1, SpotType, Numbers
    <3> QED BY <1>7, <3>2 DEF Enabled
  <2>4. goal = Effect(call, mem) /\ wel
    BY <1>7, <2>2, <2>3 DEF Aimed
  <2>5. mem' = goal
    BY <1>2, <1>7, <2>4
  <2> QED BY <2>1, <2>5 DEF Aimed
<1>8. CASE Changes(call) /\ piece # Size(call) + 5
  <2>1. (Changed' <=> Changed) /\ mem' = mem /\ (wel => wel')
    BY <1>2, <1>4, <1>8 DEF Kept
  <2>2. Enabled' => Enabled \/ wel'
    BY <1>2, <1>4, <1>8
  <2> QED BY <1>3, <1>5, <1>8, <2>1, <2>2 DEF Aimed
<1> QED BY <1>6, <1>7, <1>8
LEMMA AimedBegin ==
  ASSUME TypeInv, NEW c \in Calls \cup {Calling}, Begin(c)
  PROVE  Aimed'
<1>1. /\ call' = c /\ piece' = 1 /\ step' = 1 /\ goal' = Effect(c, mem) /\ mem' = mem
      /\ port' = port
  BY DEF Begin, chipVars
<1>2. Changes(call)' <=> Changes(c)
  BY <1>1 DEF Changes
<1>3. Effect(call, mem)' = Effect(c, mem)
  BY <1>1 DEF Effect, PageOf, Sector, And, Bit, Weight
<1>4. ASSUME Changes(c) PROVE ~ Changed' /\ ~ Enabled'
  <2>1. Size(call)' = Size(c)
    BY <1>1 DEF Size, ChangeBytes, SendAddress
  <2>2. Size(c) \in Nat \ {0}
    <3>1. 1 \in Nat \ {0}
      OBVIOUS
    <3> QED BY <1>4, <3>1, Numbers
  <2> QED BY <1>1, <2>1, <2>2 DEF Changed, Enabled
<1>5. ASSUME ~ Changes(c) PROVE mem' = goal'
  <2>1. mem \in Memory
    BY Parts DEF TypeInv, Chip
  <2> QED BY <1>1, <1>5, <2>1, NoEffect
<1>6. CASE Changes(c)
  <2>1. Changes(call)' /\ ~ Changed' /\ ~ Enabled' /\ goal' = Effect(call, mem)'
    BY <1>1, <1>2, <1>3, <1>4, <1>6
  <2> QED BY <2>1 DEF Aimed
<1>7. CASE ~ Changes(c)
  <2>1. ~ Changes(call)' /\ mem' = goal'
    BY <1>2, <1>5, <1>7
  <2> QED BY <2>1 DEF Aimed
<1> QED BY <1>6, <1>7

\* The status read behind the change, once and once more.
LEMMA AimedPoll ==
  ASSUME TypeInv, Aimed, PollStatus
  PROVE  Aimed'
<1>1. /\ UNCHANGED <<port, call, todo, mem, wel, goal>> /\ Running
  BY DEF PollStatus, Due, chipVars, histVars
<1>2. /\ Active /\ Changes(call) /\ piece = Size(call) + 10
      /\ IF buff[1] % 2 = 1 THEN piece' = piece - 4 ELSE piece' = piece + 1
  BY PollNext
<1>3. Size(call) \in Nat \ {0}
  BY <1>1, <1>2, SpotPiece, Numbers
<1>4. Size(call)' = Size(call) /\ Changes(call)'
  BY <1>1, <1>2 DEF Size, ChangeBytes, SendAddress, Changes
<1>5. Changed /\ Changed'
  BY <1>2, <1>3, <1>4 DEF Changed
<1> QED BY <1>1, <1>2, <1>4, <1>5 DEF Aimed

\* Steps of the chip and of the serializer change neither the contents nor the
\* latch.
LEMMA AimedStill ==
  ASSUME Aimed, Shifted \/ ChipReady \/ UNCHANGED vars
  PROVE  Aimed' /\ UNCHANGED <<port, call, buff, mem, goal>>
<1>1. UNCHANGED <<port, call, piece, step, buff, mem, wel, goal>>
  BY DEF Shifted, ChipReady, vars, progVars, chipVars, histVars
<1>2. /\ (Active' <=> Active) /\ (Changes(call)' <=> Changes(call))
      /\ Effect(call, mem)' = Effect(call, mem) /\ Size(call)' = Size(call)
  BY <1>1 DEF Active, Changes, Effect, PageOf, Sector, And, Bit, Weight, Size, ChangeBytes,
              SendAddress
<1>3. (Changed' <=> Changed) /\ (Enabled' <=> Enabled)
  BY <1>1, <1>2 DEF Changed, Enabled
<1> QED BY <1>1, <1>2, <1>3 DEF Aimed

\* The accesses between chip select and chip select leave the contents alone.
LEMMA AsideKeeps ==
  ASSUME TypeInv, ReadGpioBit \/ SelectRegister \/ WaitForData \/ TakeByte
  PROVE  /\ Running /\ Active /\ Onward /\ UNCHANGED <<port, call, todo, goal>>
         /\ Kept /\ ~ Raising
<1>1. PICK what \in {"bit", "select", "wait", "take"} : Access(what) /\ UNCHANGED chipVars
  BY DEF ReadGpioBit, SelectRegister, WaitForData, TakeByte
<1>2. /\ Running /\ Now[step].what = what /\ Active /\ Onward
      /\ UNCHANGED <<port, call, todo, goal>>
  BY <1>1, AccessParts
<1>3. ~ AtLine("cs", 1)
  BY <1>2 DEF AtLine, Is
<1> QED BY <1>1, <1>2, <1>3 DEF Kept, chipVars, Raising

\* A step that does not lose trust keeps the call on its way, and what it does
\* to the contents and to the call is a step of the atomic call.
LEMMA AccessAimed ==
  ASSUME TypeInv, GpioWires, RegWires, Tracked, Aimed, Process, ~ Return
  PROVE  Aimed' /\ Active /\ UNCHANGED <<call, goal>> /\ mem' \in {mem, goal}
<1>1. CASE \E what \in {"init", "cs", "din", "clk"} : DriveGpio(what)
  <2>1. PICK what \in {"init", "cs", "din", "clk"} : DriveGpio(what)
    BY <1>1
  <2>2. Access(what)
    BY <2>1 DEF DriveGpio
  <2>3. Running /\ Active /\ Onward /\ UNCHANGED <<port, call, todo, goal>>
    BY <2>2, AccessParts
  <2>4. (Kept /\ ~ Raising) \/ HandedOver
    BY <2>1, LineEffect
  <2>5. CASE HandedOver
    BY <2>3, <2>5, AimedHanded
  <2>6. CASE Kept /\ ~ Raising
    BY <2>3, <2>6, AimedKept DEF Kept
  <2> QED BY <2>3, <2>4, <2>5, <2>6
<1>2. CASE \E what \in {"cs", "shift"} : WriteRegister(what)
  <2>1. PICK what \in {"cs", "shift"} : WriteRegister(what)
    BY <1>2
  <2>2. Access(what)
    BY <2>1 DEF WriteRegister
  <2>3. Running /\ Active /\ Onward /\ UNCHANGED <<port, call, todo, goal>>
    BY <2>2, AccessParts
  <2>4. (Kept /\ ~ Raising) \/ HandedOver
    BY <2>1, RegisterEffect
  <2>5. CASE HandedOver
    BY <2>3, <2>5, AimedHanded
  <2>6. CASE Kept /\ ~ Raising
    BY <2>3, <2>6, AimedKept DEF Kept
  <2> QED BY <2>3, <2>4, <2>5, <2>6
<1>3. CASE ReadGpioBit \/ SelectRegister \/ WaitForData \/ TakeByte
  <2>1. /\ Running /\ Active /\ Onward /\ UNCHANGED <<port, call, todo, goal>>
        /\ Kept /\ ~ Raising
    BY <1>3, AsideKeeps
  <2> QED BY <2>1, AimedKept DEF Kept
<1>4. CASE PollStatus
  <2>1. Active /\ UNCHANGED <<call, goal, mem>>
    BY <1>4, PollNext DEF PollStatus, Due, histVars, chipVars
  <2> QED BY <1>4, <2>1, AimedPoll
<1> QED BY <1>1, <1>2, <1>3, <1>4 DEF Process
\* The answer that a call returns is the one that the contents give.
LEMMA AnswerGiven ==
  ASSUME TypeInv, Tracked, Return
  PROVE  buff = Answer(call, mem)
<1>1. Active /\ piece = Len(todo) + 1 /\ id' = IF call.op = "open" THEN buff[1] ELSE id
  BY DEF Return, Active
<1>2. /\ call \in Calls \cup {Calling} /\ todo = Accesses(call) /\ port \in Ports
      /\ step \in Nat \ {0} /\ piece \in Nat \ {0}
  BY <1>1, Parts DEF TypeInv, Control, Active
<1>3. Layout(call, todo)
  BY <1>2, CallLayout
<1>4. /\ Len(buff) = Filled(call, piece, step)
  BY <1>1 DEF TypeInv, Answered
<1>5. buff \in Seq(Byte)
  BY Parts DEF TypeInv, Received
<1>6. call.op \in {"read", "write", "erase", "deselect", "close", "open"}
      /\ PageSize \in Nat \ {0} /\ IdAt \in 1 .. 2
  BY <1>2, Numbers
<1>7. CASE call.op = "open"
  <2>1. Len(todo) = IdAt + 6
    BY <1>3, <1>7 DEF Layout
  <2>2. piece = IdAt + 7
    BY <1>1, <1>6, <2>1
  <2>3. Filled(call, piece, step) = 1
    BY <1>2, <1>7, <2>2, FilledNext
  <2>4. buff[1] = FlashId
    BY <1>1, <1>7, IdReturned
  <2>5. buff = <<FlashId>>
    BY <1>4, <1>5, <2>3, <2>4
  <2> QED BY <1>7, <2>5 DEF Answer
<1>8. CASE call.op = "read"
  <2>1. Len(todo) = PageSize + 6
    BY <1>3, <1>8 DEF Layout
  <2>2. piece = PageSize + 7
    BY <1>1, <1>6, <2>1
  <2>3. Filled(call, piece, step) = PageSize
    BY <1>6, <1>8, <2>2 DEF Filled
  <2>4. ~ UnderWay
    <3>1. ~ Receiving(call, piece)
      <4>1. Receiving(call, piece) <=> piece > 5 /\ piece <= PageSize + 5
        BY <1>2, <1>8, ReceivingAt
      <4> QED BY <1>6, <2>2, <4>1
    <3> QED BY <3>1 DEF UnderWay
  <2>5. Stands
    BY <1>8 DEF Stands, Changes
  <2>6. \A j \in 1 .. Len(buff) : buff[j] = Expected(j)
    BY <1>1, <2>4, <2>5 DEF Tracked, Told
  <2>7. Len(buff) = PageSize
    BY <1>4, <2>3
  <2>8. \A j : Expected(j) = mem[call.at + j - 1]
    BY <1>8 DEF Expected
  <2>9. buff = [j \in 1 .. Len(buff) |-> buff[j]]
    BY <1>5
  <2>10. buff = [j \in 1 .. PageSize |-> mem[call.at + j - 1]]
    BY <2>6, <2>7, <2>8, <2>9
  <2> QED BY <1>8, <2>10 DEF Answer
<1>9. CASE call.op \in {"write", "erase", "deselect", "close"}
  <2>1. Filled(call, piece, step) = 0
    <3>1. CASE Changes(call)
      <4>1. Size(call) \in Nat \ {0}
        BY <1>2, <3>1, Numbers
      <4>2. Len(todo) = Size(call) + 10
        BY <1>3, <3>1 DEF Layout, Changes, Size
      <4>3. piece = Size(call) + 11
        BY <1>1, <4>1, <4>2
      <4> QED BY <1>9, <3>1, <4>1, <4>3 DEF Filled
    <3>2. CASE ~ Changes(call)
      BY <1>9, <3>2 DEF Filled
    <3> QED BY <3>1, <3>2
  <2>2. buff = <<>>
    BY <1>4, <1>5, <2>1
  <2> QED BY <1>9, <2>2 DEF Answer
<1> QED BY <1>6, <1>7, <1>8, <1>9

\* A call that returns has done what it is for.
LEMMA GoalReached ==
  ASSUME TypeInv, Aimed, Return
  PROVE  mem = goal
<1>1. Active /\ piece = Len(todo) + 1
  BY DEF Return, Active
<1>2. call \in Calls \cup {Calling} /\ todo = Accesses(call) /\ port \in Ports /\ piece \in Nat \ {0}
  BY <1>1, Parts DEF TypeInv, Control, Active
<1>3. ASSUME Changes(call) PROVE Changed
  <2>1. Layout(call, todo)
    BY <1>2, CallLayout
  <2>2. Size(call) \in Nat \ {0}
    BY <1>2, <1>3, Numbers
  <2>3. Len(todo) = Size(call) + 10
    BY <1>3, <2>1 DEF Layout, Changes, Size
  <2> QED BY <1>1, <1>3, <2>2, <2>3 DEF Changed
<1> QED BY <1>1, <1>3 DEF Aimed

\* Every step is one of the atomic call, or none.
LEMMA AtomicStep ==
  ASSUME PortInv, Aim, [Next]_vars
  PROVE  Aim' /\ [Atomic!Next]_(Atomic!vars)
<1>1. CASE ~ Pristine'
  BY <1>1 DEF Aim, Pristine, Atomic!Next
<1>2. CASE Pristine'
  <2>1. faults' = 0 /\ crashes' = 0
    BY <1>2 DEF Pristine
  <2>2. /\ TypeInv /\ Wires /\ Track
    BY DEF PortInv
  <2>3. /\ faults = 0 /\ ~ WaitGivesUp /\ ~ CycleLost
        /\ ~ Crash => UNCHANGED <<crashes, cut>>
    BY <2>1, <2>2, Faultless
  <2>4. ~ Crash
    BY <2>1, <2>2 DEF Crash, TypeInv, TypeOK
  <2>5. faults = 0 /\ crashes = 0 /\ Pristine
    BY <2>1, <2>3, <2>4 DEF Pristine
  <2>6. GpioWires /\ RegWires /\ Tracked /\ Aimed
    BY <2>2, <2>5 DEF Wires, Track, Clean, LeftClean, Aim
  <2>7. CASE Open \/ Call
    <3>1. PICK c \in Calls \cup {Calling} : Begin(c)
      BY <2>7 DEF Open, Call, Calling
    <3>2. call \in {Off, Idle}
      BY <2>7 DEF Open, Call
    <3>3. call' = c /\ goal' = Effect(c, mem) /\ mem' = mem
      BY <3>1 DEF Begin, chipVars
    <3>4. c \notin {Off, Idle}
      <4>1. c.op \notin {"off", "idle"}
        BY DEF Calls, Calling, Op
      <4> QED BY <4>1 DEF Off, Idle, Op
    <3>5. Atomic!Begin
      BY <3>2, <3>3, <3>4 DEF Atomic!Begin
    <3>6. Aimed'
      BY <2>2, <3>1, AimedBegin
    <3> QED BY <2>1, <2>5, <3>5, <3>6 DEF Atomic!Next, Aim
  <2>8. CASE Return
    <3>1. /\ call \notin {Off, Idle} /\ call' \in {Off, Idle}
          /\ UNCHANGED <<buff, mem, goal>>
      BY <2>8 DEF Return, chipVars, histVars
    <3>2. mem = goal /\ buff = Answer(call, mem)
      BY <2>2, <2>6, <2>8, GoalReached, AnswerGiven
    <3>3. Atomic!Return
      BY <3>1, <3>2 DEF Atomic!Return
    <3>4. Aimed'
      BY <3>1 DEF Aimed, Active
    <3> QED BY <2>1, <2>5, <3>3, <3>4 DEF Atomic!Next, Aim
  <2>9. CASE Process /\ ~ Return
    <3>1. Aimed' /\ Active /\ UNCHANGED <<call, goal>> /\ mem' \in {mem, goal}
      BY <2>2, <2>6, <2>9, AccessAimed
    <3>2. Atomic!Take
      BY <3>1 DEF Atomic!Take, Active, Off, Idle
    <3> QED BY <2>1, <2>5, <3>1, <3>2 DEF Atomic!Next, Aim
  <2>10. CASE Shifted \/ ChipReady \/ UNCHANGED vars
    <3>1. Aimed' /\ UNCHANGED <<call, buff, mem, goal>>
      BY <2>6, <2>10, AimedStill
    <3>2. UNCHANGED Atomic!vars
      BY <2>1, <2>5, <3>1 DEF Atomic!vars
    <3> QED BY <3>1, <3>2 DEF Aim
  <2> QED BY <2>3, <2>4, <2>7, <2>8, <2>9, <2>10 DEF Next
<1> QED BY <1>1, <1>2

\* On every port the calls are atomic, as long as nothing is lost and no process
\* is cut off: between its beginning and its return a call changes the contents
\* once, to what it is for, and its answer is what these contents give
\* (read_page, write_page, erase_sector, eeprom_local.c:363-398).
THEOREM CallsAreAtomic == Spec => ImplementsCalls
<1>1. Init => Aim /\ Atomic!Init
  BY DEF Init, Aim, Aimed, Active, Atomic!Init
<1>2. PortInv /\ Aim /\ [Next]_vars => Aim' /\ [Atomic!Next]_(Atomic!vars)
  BY AtomicStep
<1> QED BY <1>1, <1>2, PortInvHolds, PTL DEF Spec, ImplementsCalls, Atomic!Spec


-----------------------------------------------------------------------------
(* What a call that was cut off leaves behind is bounded by what it was     *)
(* for.  Stream is the command as the chip will have it, the byte that is   *)
(* being shifted included; Reach is what it may change once it is complete. *)
(* The process that follows may add to it, but cannot redirect it once the  *)
(* page number is there.                                                    *)

Stream == IF shift = Empty THEN got ELSE Append(got, shift)
Threat(q) == q # <<>> /\ q[1] \in {PAGE_WRITE, SECTOR_ERASE}
BaseOf(q) == ((q[2] % Sectors) * SectorPages + (q[3] % SectorPages)) * PageSize
Reach(q) == IF q[1] = PAGE_WRITE THEN PageOf(BaseOf(q)) ELSE Sector(BaseOf(q))
Settled(q) == Threat(q) => Len(q) >= 3 /\ Reach(q) \subseteq Scope(call) \cup exposed

\* Bytes of the command that is being sent, its first ignored by a busy chip.
Heeded(q) ==
  \A i \in 1 .. Len(q) : i <= Outs => q[i] = Sending[i] \/ (i = 1 /\ q[1] = NoCommand)

\* A process that has not yet touched chip select.
Arriving == call = Off \/ (call.op = "open" /\ piece = 1)

RegConfined ==
  \/ Addresses \subseteq exposed
  \/ Stream # <<>> /\ Settled(Stream) /\ (Arriving \/ Selected)
  \/ IF Selected THEN Len(Stream) = Given /\ Heeded(Stream) ELSE Stream = <<>>

GpioConfined ==
  /\ Entering /\ Threat(got) /\ Len(got) >= 3 => Reach(got) \subseteq exposed
  /\ Selected => Heeded(got)
  /\ GpioTrack

Confined == faults = 0 => IF port = "gpio" THEN GpioConfined ELSE RegConfined

\* What is written or erased lies where the bytes of the page number say.
LEMMA ReachWritten ==
  ASSUME Chip, Deselected, NEW x \in Addresses, mem'[x] # mem[x]
  PROVE  Threat(got) /\ Len(got) >= 4 /\ x \in Reach(got)
<1> DEFINE P == PageSize   S == SectorPages   a == got[2] % Sectors   b == got[3] % S
           u == a * S + b
<1>1. P \in Nat \ {0} /\ S \in Nat \ {0} /\ Sectors \in Nat \ {0} /\ S * P \in Nat \ {0}
  BY Sizes
<1>2. Writes \/ Erases
  BY DEF Deselected, Chip
<1>3. /\ Len(got) \in Nat /\ Len(got) >= 4 /\ got # <<>>
      /\ \A i \in 1 .. Len(got) : got[i] \in Int
  <2>1. Len(got) \in Nat
    BY GotType
  <2>2. (Len(got) >= 5 \/ Len(got) = 4) /\ got # <<>>
    BY <1>2, Zenon DEF Writes, Erases
  <2>3. Len(got) >= 4
    <3>1. \A n \in Nat : n >= 5 \/ n = 4 => n >= 4
      OBVIOUS
    <3> QED BY <2>1, <2>2, <3>1, Zenon
  <2>4. \A i \in 1 .. Len(got) : got[i] \in Int
    BY GotType
  <2> QED BY <2>1, <2>2, <2>3, <2>4, Zenon
<1>4. got[2] \in Int /\ got[3] \in Int /\ got[4] \in Int
  <2>1. 2 \in 1 .. Len(got) /\ 3 \in 1 .. Len(got) /\ 4 \in 1 .. Len(got)
    BY <1>3
  <2> QED BY <1>3, <2>1
<1>5. a \in Nat /\ b \in 0 .. S - 1
  BY <1>1, <1>4
<1>6. Base = BaseOf(got) /\ Base = u * P /\ Target = Base + (got[4] % P)
  BY DEF Base, BaseOf, Target
<1> HIDE DEF a, b
<1>7. u \in Nat /\ P * u \in Nat /\ u * P = P * u
  BY <1>1, <1>5
<1>8. CASE Writes
  <2>1. got[1] = PAGE_WRITE /\ mem' = Programmed
    <3>1. got[1] = PAGE_WRITE
      BY <1>8 DEF Writes
    <3>2. ~ Erases
      BY <3>1, CodesType DEF Erases
    <3> QED BY <1>8, <3>1, <3>2 DEF Deselected
  <2> DEFINE f == {k \in 5 .. Len(got) : Base + ((got[4] + k - 5) % P) = x}
  <2>2. f # {}
    <3>1. Programmed[x] = IF f = {} THEN mem[x]
                          ELSE And(mem[x], got[CHOOSE k \in f : \A j \in f : j <= k])
      BY DEF Programmed
    <3> HIDE DEF f
    <3> QED BY <2>1, <3>1
  <2>3. PICK k \in 5 .. Len(got) : Base + ((got[4] + k - 5) % P) = x
    BY <2>2
  <2> DEFINE r == (got[4] + k - 5) % P
  <2>4. r \in 0 .. P - 1
    <3>1. got[4] + k - 5 \in Int /\ P \in Nat \ {0}
      BY <1>1, <1>3, <1>4
    <3>2. \A i \in Int : i % P \in 0 .. P - 1
      BY <3>1
    <3> HIDE DEF P
    <3> QED BY <3>1, <3>2
  <2> HIDE DEF r, u
  <2>5. (P * u + r) \div P = u /\ (P * u + 0) \div P = u
    <3>1. 0 \in 0 .. P - 1 /\ u \in Int
      BY <1>1, <1>7
    <3> QED BY <1>1, <2>4, <3>1, QuotientOf
  <2>6. x = P * u + r /\ Base = P * u + 0
    BY <1>6, <1>7, <2>3 DEF r
  <2>7. x \div P = Base \div P
    BY <2>5, <2>6
  <2> QED BY <1>3, <1>6, <2>1, <2>7 DEF Threat, Reach, PageOf
<1>9. CASE ~ Writes
  <2>1. got[1] = SECTOR_ERASE /\ mem' = SectorErased /\ got[1] # PAGE_WRITE
    BY <1>2, <1>9, CodesType DEF Erases, Deselected
  <2>2. x \in Sector(Target)
    BY <2>1 DEF SectorErased
  <2>3. x \div (S * P) = Target \div (S * P)
    BY <2>2 DEF Sector
  <2> DEFINE r == got[4] % P   e == P * b   m == S * P
  <2>4. r \in 0 .. P - 1
    BY <1>1, <1>4
  <2>5. e \in Nat /\ e + P <= m
    <3>1. P * b <= P * (S - 1) /\ P * b \in Nat
      BY <1>1, <1>5
    <3>2. P * (S - 1) = S * P - P
      BY <1>1
    <3> QED BY <1>1, <3>1, <3>2
  <2>6. P * u = m * a + e
    <3>1. P * (a * S) = (S * P) * a /\ P * (a * S + b) = P * (a * S) + P * b
      BY <1>1, <1>5
    <3> QED BY <3>1
  <2>7. Base = m * a + e /\ Target = m * a + (e + r) /\ m * a \in Nat
    <3>1. m * a \in Nat
      BY <1>1, <1>5
    <3> HIDE DEF m, e, r, u
    <3> QED BY <1>6, <1>7, <2>4, <2>5, <2>6, <3>1 DEF r
  <2>8. e \in 0 .. m - 1 /\ e + r \in 0 .. m - 1 /\ m \in Nat \ {0} /\ a \in Int
    <3>1. m \in Nat \ {0}
      BY <1>1
    <3> HIDE DEF m, e, r
    <3> QED BY <1>1, <1>5, <2>4, <2>5, <3>1
  <2> HIDE DEF m, e, r
  <2>9. (m * a + e) \div m = a /\ (m * a + (e + r)) \div m = a
    BY <2>8, QuotientOf
  <2>10. Target \div m = Base \div m
    BY <2>7, <2>9
  <2> QED BY <1>3, <1>6, <2>1, <2>3, <2>10 DEF Threat, Reach, Sector, m
<1> QED BY <1>8, <1>9

\* A command as it is sent reaches no further than the call that sends it.
LEMMA HeededReach ==
  ASSUME TypeInv, Selected, NEW q, Len(q) \in Nat, Len(q) >= 3, Heeded(q), Threat(q)
  PROVE  Reach(q) \subseteq Scope(call)
<1> DEFINE c == call   a == c.at
<1>1. Inside /\ c \in Calls \cup {Calling} /\ Outs \in Nat \ {0}
  BY SpotType DEF Selected
<1>2. q[1] \in {PAGE_WRITE, SECTOR_ERASE} /\ q[1] # NoCommand
  BY CodesType, ByteType DEF Threat, NoCommand
<1>3. q[1] = Sending[1]
  <2>1. 1 \in 1 .. Len(q) /\ 1 <= Outs
    BY <1>1
  <2> QED BY <1>2, <2>1 DEF Heeded
<1>4. Changes(c) /\ Sending = ChangeBytes(c)
  BY <1>1, <1>2, <1>3, ChangesWhere
<1>5. /\ ChangeBytes(c)[1] = IF c.op = "write" THEN PAGE_WRITE ELSE SECTOR_ERASE
      /\ Len(ChangeBytes(c)) = IF c.op = "write" THEN 4 + PageSize ELSE 4
      /\ \A i \in 1 .. 3 : ChangeBytes(c)[1 + i] = SendAddress(c.at)[i]
      /\ c.op \in {"write", "erase"}
  BY <1>1, <1>4, CommandBytes DEF Changes
<1>6. PageSize \in Nat \ {0} /\ SectorPages \in Nat \ {0} /\ SectorPages * PageSize \in Nat \ {0}
  BY Sizes
<1>7. Outs >= 4
  BY <1>4, <1>5, <1>6 DEF Outs
<1>8. q[2] = SendAddress(a)[1] /\ q[3] = SendAddress(a)[2]
  <2>1. q[2] = Sending[2] /\ q[3] = Sending[3]
    <3>1. 2 \in 1 .. Len(q) /\ 3 \in 1 .. Len(q) /\ 2 <= Outs /\ 3 <= Outs
      BY <1>1, <1>7
    <3> QED BY <3>1 DEF Heeded
  <2>2. ChangeBytes(c)[1 + 1] = SendAddress(a)[1] /\ ChangeBytes(c)[1 + 2] = SendAddress(a)[2]
    BY <1>5
  <2> QED BY <1>4, <2>1, <2>2
<1>9. a \in Addresses /\ (c.op = "write" => a % PageSize = 0)
      /\ (c.op = "erase" => a % (SectorPages * PageSize) = 0)
  BY <1>1, CallType
<1> DEFINE w == a \div (SectorPages * PageSize)   v == (a \div PageSize) % SectorPages
           r == a % PageSize
<1>10. /\ w % Sectors = w /\ v % SectorPages = v
       /\ (w * SectorPages + v) * PageSize + r = a
       /\ w \in Nat /\ v \in Nat /\ r \in 0 .. PageSize - 1
  BY <1>9, AddressAgain
<1>11. q[2] = w /\ q[3] = v
  BY <1>8, <1>9, AddressBytes
<1>12. a \in Nat
  BY <1>9, Sizes DEF Addresses
<1> HIDE DEF w, v, r
<1>13. BaseOf(q) = (w * SectorPages + v) * PageSize
  BY <1>10, <1>11 DEF BaseOf
<1>14. BaseOf(q) \in Nat /\ BaseOf(q) + r = a
  <2>1. (w * SectorPages + v) * PageSize \in Nat
    BY <1>6, <1>10
  <2> QED BY <1>10, <1>13, <2>1
<1>15. CASE c.op = "write"
  <2>1. BaseOf(q) = a
    BY <1>9, <1>14, <1>15 DEF r
  <2> QED BY <1>3, <1>4, <1>5, <1>15, <2>1 DEF Reach, Scope
<1>16. CASE c.op = "erase"
  <2>1. q[1] # PAGE_WRITE
    BY <1>3, <1>4, <1>5, <1>16, CodesType
  <2>2. BaseOf(q) \div (SectorPages * PageSize) = a \div (SectorPages * PageSize)
    <3> DEFINE m == SectorPages * PageSize   e == v * PageSize
    <3>1. e \in Nat /\ BaseOf(q) = m * w + e
      <4>1. (w * SectorPages + v) * PageSize = (SectorPages * PageSize) * w + v * PageSize
        BY <1>6, <1>10
      <4>2. v * PageSize \in Nat
        BY <1>6, <1>10
      <4> QED BY <1>13, <4>1, <4>2
    <3>2. a = m * w + (a % m) /\ m \in Nat \ {0} /\ a % m = 0 /\ w \in Nat
      BY <1>6, <1>9, <1>10, <1>12, <1>16, Divided DEF w
    <3>3. BaseOf(q) = a
      <4> HIDE DEF m, e
      <4>1. m * w \in Nat
        BY <3>2
      <4> QED BY <1>10, <1>14, <3>1, <3>2, <4>1
    <3> QED BY <3>3
  <2> QED BY <1>16, <2>1, <2>2 DEF Reach, Scope, Sector
<1> QED BY <1>5, <1>15, <1>16


\* The command of which the last byte may still be under way.
LEMMA StreamType ==
  ASSUME TypeInv
  PROVE  /\ Stream \in Seq(Byte \cup {NoCommand}) /\ Len(Stream) \in Nat /\ Len(Stream) = Sent
         /\ Stream = <<>> <=> got = <<>> /\ shift = Empty
         /\ shift # Empty => /\ shift \in Byte /\ Len(Stream) = Len(got) + 1
         /\ got \in Seq(Byte \cup {NoCommand}) /\ Len(got) \in Nat
<1> DEFINE B == Byte \cup {NoCommand}
<1>1. got \in Seq(B) /\ shift \in Byte \cup {Empty}
  BY Parts DEF TypeInv, Chip, Wired
<1>2. shift # Empty => shift \in Byte /\ shift \in B
  BY <1>1
<1> HIDE DEF B
<1>3. Len(got) \in Nat
  BY <1>1
<1>4. CASE shift = Empty
  BY <1>1, <1>3, <1>4 DEF Stream, Sent, B
<1>5. CASE shift # Empty
  <2>1. Stream = Append(got, shift) /\ Sent = Len(got) + 1
    BY <1>5 DEF Stream, Sent
  <2>2. Append(got, shift) \in Seq(B) /\ Len(Append(got, shift)) = Len(got) + 1
    BY <1>1, <1>2, <1>5
  <2>3. Append(got, shift) # <<>>
    BY <1>3, <2>2
  <2> QED BY <1>1, <1>2, <1>3, <1>5, <2>1, <2>2, <2>3 DEF B
<1> QED BY <1>4, <1>5

\* The next byte of a command.
LEMMA HeededNext ==
  ASSUME NEW S, NEW q \in Seq(S), NEW b \in S, Heeded(q),
         Len(q) < Outs => b = Sending[Len(q) + 1], Outs \in Nat
  PROVE  Heeded(Append(q, b))
<1>1. /\ Len(Append(q, b)) = Len(q) + 1 /\ Append(q, b)[Len(q) + 1] = b /\ Len(q) \in Nat
      /\ \A i \in 1 .. Len(q) : Append(q, b)[i] = q[i]
  OBVIOUS
<1> DEFINE r == Append(q, b)
<1> HIDE DEF r
<1>2. SUFFICES ASSUME NEW i \in 1 .. Len(r), i <= Outs
               PROVE  r[i] = Sending[i] \/ (i = 1 /\ r[1] = NoCommand)
  BY DEF Heeded, r
<1>3. CASE i = Len(q) + 1
  BY <1>1, <1>2, <1>3 DEF r
<1>4. CASE i \in 1 .. Len(q)
  <2>1. r[i] = q[i] /\ (i = 1 => r[1] = q[1])
    BY <1>1, <1>4 DEF r
  <2>2. q[i] = Sending[i] \/ (i = 1 /\ q[1] = NoCommand)
    BY <1>2, <1>4 DEF Heeded
  <2> QED BY <2>1, <2>2
<1> QED BY <1>1, <1>3, <1>4 DEF r

\* A chip that is busy takes the first byte for none.
LEMMA HeededTook ==
  ASSUME Chip, Heeded(got), NEW b \in Byte, Len(got) < Outs => b = Sending[Len(got) + 1],
         Outs \in Nat
  PROVE  Heeded(Took(b))
<1>1. CASE got = <<>> /\ wip /\ b # READ_STATUS
  <2>1. Took(b) = <<NoCommand>>
    BY <1>1 DEF Took
  <2>2. Len(<<NoCommand>>) = 1 /\ <<NoCommand>>[1] = NoCommand
    OBVIOUS
  <2>3. Heeded(<<NoCommand>>)
    BY <2>2 DEF Heeded
  <2> QED BY <2>1, <2>3
<1>2. CASE ~ (got = <<>> /\ wip /\ b # READ_STATUS)
  <2> DEFINE B == Byte \cup {NoCommand}
  <2>1. Took(b) = Append(got, b)
    BY <1>2 DEF Took
  <2>2. got \in Seq(B) /\ b \in B
    BY DEF Chip
  <2> HIDE DEF B
  <2>3. Heeded(Append(got, b))
    BY <2>2, HeededNext
  <2> QED BY <2>1, <2>3
<1> QED BY <1>1, <1>2

\* More bytes behind a page number do not move it.
LEMMA SettledNext ==
  ASSUME NEW S, NEW q \in Seq(S), NEW b \in S, q # <<>>, Settled(q)
  PROVE  Settled(Append(q, b))
<1> DEFINE r == Append(q, b)
<1>1. /\ Len(r) = Len(q) + 1 /\ Len(q) \in Nat /\ Len(q) >= 1
      /\ \A i \in 1 .. Len(q) : r[i] = q[i]
  OBVIOUS
<1> HIDE DEF r
<1>2. SUFFICES ASSUME Threat(r) PROVE Len(r) >= 3 /\ Reach(r) \subseteq Scope(call) \cup exposed
  BY DEF Settled, r
<1>3. r[1] = q[1]
  BY <1>1
<1>4. Threat(q)
  BY <1>2, <1>3 DEF Threat
<1>5. Len(q) >= 3 /\ Reach(q) \subseteq Scope(call) \cup exposed
  BY <1>4 DEF Settled
<1>6. r[2] = q[2] /\ r[3] = q[3]
  BY <1>1, <1>5
<1>7. Reach(r) = Reach(q)
  BY <1>3, <1>6 DEF Reach, BaseOf
<1> QED BY <1>1, <1>5, <1>7

\* The same bytes at the same place.
LEMMA RegConfinedSame ==
  ASSUME RegConfined, UNCHANGED <<call, exposed>>, Stream' = Stream,
         Selected' <=> Selected, Arriving /\ ~ Selected => Arriving',
         Selected => Given' = Given /\ Sending' = Sending /\ Outs' = Outs
  PROVE  RegConfined'
<1>1. CASE Addresses \subseteq exposed
  BY <1>1 DEF RegConfined
<1>2. CASE Stream # <<>> /\ Settled(Stream) /\ (Arriving \/ Selected)
  <2>1. Settled(Stream)'
    BY <1>2 DEF Settled, Threat, Reach, BaseOf, Scope, PageOf, Sector
  <2> QED BY <1>2, <2>1 DEF RegConfined
<1>3. CASE IF Selected THEN Len(Stream) = Given /\ Heeded(Stream) ELSE Stream = <<>>
  <2>1. CASE Selected
    <3>1. Heeded(Stream)'
      BY <1>3, <2>1 DEF Heeded
    <3> QED BY <1>3, <2>1, <3>1 DEF RegConfined
  <2>2. CASE ~ Selected
    BY <1>3, <2>2 DEF RegConfined
  <2> QED BY <2>1, <2>2
<1> QED BY <1>1, <1>2, <1>3 DEF RegConfined


\* Chip select of a register port: a command that is deselected is gone, and one
\* that was there before can only be one that settled.
LEMMA RegConfinedCs ==
  ASSUME TypeInv, RegWires, RegConfined, WriteRegister("cs")
  PROVE  RegConfined'
<1>1. /\ shift = Empty /\ port # "gpio" /\ Access("cs")
      /\ Lines([line EXCEPT !.cs = Value]) /\ shift' = Empty
  <2>1. "cs" \in {"cs", "shift"}
    OBVIOUS
  <2> QED BY <2>1, RegWrite
<1>2. /\ Running /\ Now[step].what = "cs" /\ Active /\ Onward
      /\ UNCHANGED <<port, call, todo, exposed>>
  BY <1>1, AccessParts
<1>3. /\ Chip /\ line \in Registers /\ line.clk = 0
      /\ line.cs = 1 => got = <<>>
  BY <1>1, Parts DEF TypeInv, Wired, Basics
<1>4. /\ [line EXCEPT !.cs = Value].cs = Value
      /\ [line EXCEPT !.cs = Value].clk = 0
  BY <1>3 DEF Registers
<1>5. CASE AtLine("cs", 0)
  <2>1. /\ ~ Selected /\ Selected' /\ Given' = 0
    BY <1>1, <1>2, <1>5, RegNext
  <2>2. Value = 0
    BY <1>5 DEF AtLine, Is, Value
  <2>3. got' = got
    BY <1>1, <1>4, <2>2 DEF Lines, chipVars
  <2>4. Stream' = Stream
    BY <1>1, <2>3 DEF Stream
  <2>5. CASE Addresses \subseteq exposed
    BY <1>2, <2>5 DEF RegConfined
  <2>6. CASE Stream # <<>> /\ Settled(Stream)
    <3>1. Settled(Stream)'
      BY <1>2, <2>4, <2>6 DEF Settled, Threat, Reach, BaseOf, Scope, PageOf, Sector
    <3> QED BY <2>1, <2>4, <2>6, <3>1 DEF RegConfined
  <2>7. CASE Stream = <<>>
    <3>1. Len(Stream') = 0
      BY <2>4, <2>7
    <3>2. Heeded(Stream)'
      BY <3>1 DEF Heeded
    <3> QED BY <2>1, <3>1, <3>2 DEF RegConfined
  <2> QED BY <2>1, <2>5, <2>6, <2>7 DEF RegConfined
<1>6. CASE AtLine("cs", 1)
  <2>1. ~ Selected'
    BY <1>1, <1>2, <1>6, RegNext
  <2>2. Value = 1
    BY <1>6 DEF AtLine, Is, Value
  <2>3. line.cs = 0 => Deselected
    BY <1>1, <1>4, <2>2 DEF Lines
  <2>4. line.cs = 1 => got' = got
    BY <1>1, <1>4, <2>2 DEF Lines, chipVars
  <2>5. line.cs \in {0, 1}
    BY <1>3 DEF Registers
  <2>6. got' = <<>>
    BY <1>3, <2>3, <2>4, <2>5, DeselectedEffect
  <2>7. Stream' = <<>>
    BY <1>1, <2>6 DEF Stream
  <2> QED BY <2>1, <2>7 DEF RegConfined
<1> QED BY <1>1, <1>2, <1>5, <1>6, RegNext

\* A byte goes to the serializer.
LEMMA RegConfinedShift ==
  ASSUME TypeInv, RegWires, RegConfined, WriteRegister("shift")
  PROVE  RegConfined'
<1>1. /\ shift = Empty /\ port # "gpio" /\ Access("shift")
      /\ shift' = Value /\ UNCHANGED chipVars
  <2>1. "shift" \in {"cs", "shift"}
    OBVIOUS
  <2> QED BY <2>1, RegWrite
<1>2. /\ Running /\ Now[step].what = "shift" /\ Active /\ Onward
      /\ UNCHANGED <<port, call, todo, exposed>> /\ Valued("shift", Value)
  BY <1>1, AccessParts
<1>3. /\ Selected /\ Selected' /\ Given = Pos - 1 /\ Given' = Pos /\ Pos \in 1 .. Outs + Ins
      /\ Pos <= Outs => Value = Sending[Pos]
  BY <1>1, <1>2, RegNext DEF Value
<1>4. Outs \in Nat /\ Ins \in Nat /\ Pos \in Nat /\ Inside
  BY <1>3, SpotType DEF Selected
<1>5. Sending' = Sending /\ Outs' = Outs
  BY <1>2, <1>3, <1>4, SpotOn
<1> DEFINE B == Byte \cup {NoCommand}
<1>6. Value \in B /\ Value # Empty
  <2>1. Value \in Byte
    BY <1>2 DEF Valued
  <2>2. Byte \subseteq Nat
    BY ByteType
  <2> QED BY <2>1, <2>2 DEF Empty
<1>7. Stream \in Seq(B) /\ Len(Stream) \in Nat
  BY StreamType
<1> HIDE DEF B
<1>8. Stream' = Append(Stream, Value)
  BY <1>1, <1>6 DEF Stream, chipVars
<1>9. Len(Stream') = Len(Stream) + 1
  BY <1>6, <1>7, <1>8
<1>10. CASE Addresses \subseteq exposed
  BY <1>2, <1>10 DEF RegConfined
<1>11. CASE Stream # <<>> /\ Settled(Stream)
  <2>1. Settled(Append(Stream, Value))
    BY <1>6, <1>7, <1>11, SettledNext
  <2>2. Settled(Stream)'
    BY <1>2, <1>8, <2>1 DEF Settled, Threat, Reach, BaseOf, Scope, PageOf, Sector
  <2>3. Stream' # <<>>
    BY <1>7, <1>9
  <2> QED BY <1>3, <2>2, <2>3 DEF RegConfined
<1>12. CASE Len(Stream) = Given /\ Heeded(Stream)
  <2>1. Len(Stream) < Outs => Value = Sending[Len(Stream) + 1]
    BY <1>3, <1>4, <1>12
  <2>2. Heeded(Append(Stream, Value))
    BY <1>4, <1>6, <1>7, <1>12, <2>1, HeededNext
  <2>3. Heeded(Stream)'
    BY <1>5, <1>8, <2>2 DEF Heeded
  <2>4. Len(Stream') = Given'
    BY <1>3, <1>4, <1>9, <1>12
  <2> QED BY <1>3, <2>3, <2>4 DEF RegConfined
<1> QED BY <1>3, <1>10, <1>11, <1>12 DEF RegConfined

\* The other accesses of a register port.
LEMMA RegConfinedAside ==
  ASSUME TypeInv, RegConfined, port # "gpio", SelectRegister \/ WaitForData \/ TakeByte
  PROVE  RegConfined'
<1>1. PICK what \in {"select", "wait", "take"} :
        Access(what) /\ UNCHANGED <<line, shift, data, chipVars>>
  BY DEF SelectRegister, WaitForData, TakeByte, portVars
<1>2. /\ Running /\ Now[step].what = what /\ Active /\ Onward
      /\ UNCHANGED <<port, call, todo, exposed>>
  BY <1>1, AccessParts
<1>3. Stream' = Stream
  BY <1>1 DEF Stream, chipVars
<1>4. /\ Given' = Given /\ (Selected' <=> Selected)
      /\ ~ Selected => piece' = piece
      /\ Selected => piece' = piece \/ Pos <= Outs + Ins
  <2>1. CASE what = "select"
    <3>1. /\ (Selected' <=> Selected) /\ Given' = Given
          /\ port = "epp" /\ step \in {1, 3, 5} /\ step' = step + 1
      BY <1>2, <2>1, RegNext
    <3>2. piece' = piece
      BY <1>2, <3>1 DEF Onward
    <3> QED BY <3>1, <3>2
  <2>2. CASE what \in {"wait", "take"}
    <3>1. Selected /\ Selected' /\ Given = Pos /\ Given' = Pos /\ Pos \in 1 .. Outs + Ins
      BY <1>2, <2>2, RegNext
    <3>2. Outs \in Nat /\ Ins \in Nat
      BY <3>1, SpotType DEF Selected
    <3> QED BY <3>1, <3>2
  <2> QED BY <2>1, <2>2
<1>5. Selected => Sending' = Sending /\ Outs' = Outs
  BY <1>2, <1>4, SpotOn DEF Selected
<1>6. Arriving /\ ~ Selected => Arriving'
  BY <1>2, <1>4 DEF Arriving
<1> QED BY <1>2, <1>3, <1>4, <1>5, <1>6, RegConfinedSame

\* The serializer brings a byte to the chip.
LEMMA RegConfinedShifted ==
  ASSUME TypeInv, RegWires, RegConfined, Shifted, port # "gpio"
  PROVE  RegConfined'
<1>1. /\ shift # Empty /\ shift' = Empty
      /\ line.cs = 0 => got' = Took(shift)
      /\ UNCHANGED <<port, call, todo, piece, step, exposed>>
  BY DEF Shifted, progVars, histVars
<1>2. got' = Took(shift)
  BY <1>1 DEF RegWires
<1>3. /\ (Selected' <=> Selected) /\ Pos' = Pos
      /\ Sending' = Sending /\ Outs' = Outs /\ Ins' = Ins
  BY <1>1, SameSpot
<1>4. Given' = Given
  BY <1>1, <1>3 DEF Given, Lead
<1>5. Arriving' <=> Arriving
  BY <1>1 DEF Arriving
<1>6. Stream' = Took(shift) /\ Stream = Append(got, shift)
  BY <1>1, <1>2 DEF Stream
<1>7. CASE got = <<>> /\ wip /\ shift # READ_STATUS
  <2>1. Stream' = <<NoCommand>> /\ Stream' # <<>> /\ Len(Stream') = 1 /\ Stream'[1] = NoCommand
    BY <1>6, <1>7 DEF Took
  <2>2. Len(Stream) = 1 /\ Stream # <<>>
    BY <1>6, <1>7
  <2>3. ~ Threat(Stream)'
    BY <2>1, CodesType, ByteType DEF Threat, NoCommand
  <2>4. Settled(Stream)'
    BY <2>3 DEF Settled
  <2>5. Heeded(Stream)'
    BY <2>1 DEF Heeded
  <2> QED BY <1>1, <1>3, <1>4, <1>5, <2>1, <2>2, <2>4, <2>5 DEF RegConfined
<1>8. CASE ~ (got = <<>> /\ wip /\ shift # READ_STATUS)
  <2>1. Stream' = Stream
    BY <1>6, <1>8 DEF Took
  <2> QED BY <1>1, <1>3, <1>4, <1>5, <2>1, RegConfinedSame
<1> QED BY <1>7, <1>8

\* Steps that touch neither a command nor a place.
LEMMA RegConfinedStill ==
  ASSUME TypeInv, RegConfined, port # "gpio", PollStatus \/ ChipReady \/ UNCHANGED vars
  PROVE  RegConfined'
<1>1. UNCHANGED <<port, call, exposed, shift, got>>
  BY DEF PollStatus, Due, ChipReady, vars, progVars, portVars, chipVars, histVars
<1>2. Stream' = Stream
  BY <1>1 DEF Stream
<1>3. CASE PollStatus
  <2>1. ~ Selected /\ ~ Selected' /\ Changes(call) /\ call # Off
    BY <1>3, PollNext DEF Active
  <2>2. ~ Arriving
    BY <2>1 DEF Arriving, Changes
  <2> QED BY <1>1, <1>2, <2>1, <2>2, RegConfinedSame
<1>4. CASE ChipReady \/ UNCHANGED vars
  <2>1. UNCHANGED <<port, call, piece, step>>
    BY <1>4 DEF ChipReady, vars, progVars
  <2>2. /\ (Selected' <=> Selected) /\ Pos' = Pos
        /\ Sending' = Sending /\ Outs' = Outs /\ Ins' = Ins
    BY <2>1, SameSpot
  <2>3. Given' = Given /\ (Arriving' <=> Arriving)
    BY <2>1, <2>2 DEF Given, Lead, Arriving
  <2> QED BY <1>1, <1>2, <2>2, <2>3, RegConfinedSame
<1> QED BY <1>3, <1>4

\* A process that is cut off leaves no more than its call may change, or a
\* command that the next will complete and that may then reach anything.
LEMMA RegConfinedCrash ==
  ASSUME TypeInv, RegWires, RegConfined, port # "gpio", Crash
  PROVE  RegConfined'
<1>1. /\ call' = Off /\ UNCHANGED <<port, line, shift, got>>
      /\ exposed' = exposed \cup Scope(call) \cup
                    (IF port # "gpio" /\ line.cs = 0 /\ Sent \in 1 .. 2 THEN Addresses ELSE {})
  BY DEF Crash, portVars, chipVars
<1>2. Stream' = Stream
  BY <1>1 DEF Stream
<1>3. ~ Selected' /\ Arriving'
  BY <1>1, FirstSpot DEF Arriving
<1>4. Stream \in Seq(Byte \cup {NoCommand}) /\ Len(Stream) \in Nat /\ Len(Stream) = Sent
  BY StreamType
<1>5. CASE Addresses \subseteq exposed
  BY <1>1, <1>5 DEF RegConfined
<1>6. CASE Stream = <<>>
  BY <1>2, <1>3, <1>6 DEF RegConfined
<1>7. CASE Stream # <<>> /\ ~ (Addresses \subseteq exposed)
  <2>1. line.cs = 0
    <3>1. line \in Registers /\ (line.cs = 1 => got = <<>>)
      BY Parts DEF TypeInv, Wired, Basics
    <3>2. line.cs \in {0, 1}
      BY <3>1 DEF Registers
    <3>3. got # <<>> \/ shift # Empty
      BY <1>7, StreamType
    <3> QED BY <3>1, <3>2, <3>3 DEF RegWires
  <2>2. CASE Len(Stream) \in 1 .. 2
    <3>1. Addresses \subseteq exposed'
      BY <1>1, <1>4, <2>1, <2>2
    <3> QED BY <3>1 DEF RegConfined
  <2>3. CASE Len(Stream) \notin 1 .. 2
    <3>1. Len(Stream) >= 3
      <4>1. Len(Stream) # 0
        BY <1>4, <1>7
      <4> QED BY <1>4, <2>3, <4>1
    <3>2. Threat(Stream) => Reach(Stream) \subseteq Scope(call) \cup exposed
      <4>1. CASE Settled(Stream)
        BY <4>1 DEF Settled
      <4>2. CASE Selected /\ Heeded(Stream)
        BY <1>4, <3>1, <4>2, HeededReach
      <4> QED BY <1>7, <4>1, <4>2 DEF RegConfined
    <3>3. Threat(Stream)' => Len(Stream') >= 3 /\ Reach(Stream)' \subseteq exposed'
      <4>1. (Threat(Stream)' <=> Threat(Stream)) /\ Reach(Stream)' = Reach(Stream)
        BY <1>2 DEF Threat, Reach, BaseOf, PageOf, Sector
      <4> QED BY <1>1, <1>2, <3>1, <3>2, <4>1
    <3>4. Settled(Stream)'
      BY <3>3 DEF Settled
    <3> QED BY <1>2, <1>3, <1>7, <3>4 DEF RegConfined
  <2> QED BY <2>2, <2>3
<1> QED BY <1>5, <1>6, <1>7

\* A call that begins or ends is no crash.
LEMMA NoCrash ==
  ASSUME TypeInv, Open \/ Call \/ Return
  PROVE  ~ Crash
<1>1. CASE Open \/ Call
  BY <1>1 DEF Open, Call, Begin, Crash, Calls, Op, Off
<1>2. CASE Return
  BY <1>2 DEF Return, Crash, Counted, TypeInv, TypeOK
<1> QED BY <1>1, <1>2

\* A process that starts finds what it finds; calls begin and end between
\* commands.
LEMMA RegConfinedTurning ==
  ASSUME TypeInv, RegConfined, port # "gpio", Open \/ Call \/ Return
  PROVE  RegConfined'
<1>1. ~ Selected /\ ~ Selected' /\ UNCHANGED <<port, shift, got>>
  <2>1. ~ Selected' /\ UNCHANGED <<port, shift, chipVars>> /\ (~ Crash => ~ Selected)
    BY Turning
  <2>2. ~ Crash
    BY NoCrash
  <2> QED BY <2>1, <2>2 DEF chipVars
<1>2. Stream' = Stream
  BY <1>1 DEF Stream
<1>3. exposed' = exposed
  BY DEF Open, Call, Begin, Return, histVars
<1>4. CASE Addresses \subseteq exposed
  BY <1>3, <1>4 DEF RegConfined
<1>5. CASE Stream = <<>>
  BY <1>1, <1>2, <1>5 DEF RegConfined
<1>6. CASE Stream # <<>> /\ Settled(Stream) /\ Arriving
  <2>1. Open
    <3>1. ~ Call
      BY <1>6 DEF Call, Arriving, Idle, Off, Op
    <3>2. ~ Return
      <4>1. SUFFICES ASSUME Return PROVE FALSE
        OBVIOUS
      <4>2. call \notin {Off, Idle} /\ piece = Len(todo) + 1
        BY <4>1 DEF Return
      <4>3. call.op = "open" /\ piece = 1
        BY <1>6, <4>2 DEF Arriving
      <4>4. call \in Calls \cup {Calling} /\ todo = Accesses(call) /\ port \in Ports
        BY <4>2, Parts DEF TypeInv, Control
      <4>5. Len(todo) = IdAt + 6 /\ IdAt \in 1 .. 2
        <5>1. IdAt \in 1 .. 2
          BY DEF IdAt
        <5> QED BY <4>3, <4>4, <5>1, CallLayout DEF Layout
      <4> QED BY <4>2, <4>3, <4>5
    <3> QED BY <3>1, <3>2
  <2>2. call = Off /\ call' = Calling /\ piece' = 1
    BY <2>1 DEF Open, Begin, Calling
  <2>3. Arriving' /\ Scope(call)' = Scope(call)
    BY <2>2 DEF Arriving, Scope, Calling, Off, Op
  <2>4. Settled(Stream)'
    BY <1>2, <1>3, <1>6, <2>3 DEF Settled, Threat, Reach, BaseOf, PageOf, Sector
  <2> QED BY <1>2, <1>6, <2>3, <2>4 DEF RegConfined
<1> QED BY <1>1, <1>4, <1>5, <1>6 DEF RegConfined


\* Chip select, data and clock of a gpio port.
LEMMA GpioConfinedDrive ==
  ASSUME TypeInv, GpioWires, GpioConfined, NEW what \in {"init", "cs", "din", "clk"},
         DriveGpio(what)
  PROVE  GpioConfined'
<1>1. ~ Entering' /\ Chip
  BY GpioParts
<1>2. GpioTrack /\ (Selected => Heeded(got))
  BY DEF GpioConfined
<1>3. SUFFICES (Selected' => Heeded(got)') /\ GpioTrack'
  BY <1>1 DEF GpioConfined
<1>4. got' = <<>> => Heeded(got)'
  BY DEF Heeded
<1>5. CASE ~ Selected /\ ~ Selected'
  BY <1>5 DEF GpioTrack
<1>6. CASE what = "cs" /\ ~ Selected /\ Selected'
  <2>1. got' = <<>> /\ GpioTrack'
    <3>1. DriveGpio("cs")
      BY <1>6
    <3>2. UNCHANGED <<got, bits, part, mem, wip>> /\ got = <<>> /\ GpioTrack'
      BY <1>6, <3>1, GpioPrefix
    <3> QED BY <3>2
  <2> QED BY <1>4, <2>1
<1>7. CASE what = "cs" /\ Selected /\ AtLine("cs", 1)
  <2>1. DriveGpio("cs")
    BY <1>7
  <2>2. got' = <<>> /\ GpioTrack'
    BY <1>2, <1>7, <2>1, GpioSuffix
  <2> QED BY <1>4, <2>2
<1>8. CASE what = "din" /\ Selected
  <2>1. DriveGpio("din")
    BY <1>8
  <2>2. got' = got /\ GpioTrack' /\ (Selected' => Sending' = Sending /\ Outs' = Outs)
    BY <1>2, <1>8, <2>1, GpioDin
  <2> QED BY <1>2, <1>8, <2>2 DEF Heeded
<1>9. CASE what = "clk" /\ Selected
  <2>1. DriveGpio("clk")
    BY <1>9
  <2>2. /\ GpioTrack' /\ Sending' = Sending /\ Outs' = Outs
        /\ \/ got' = got
           \/ \E b \in Byte : /\ got' = Took(b)
                              /\ Len(got) < Outs => b = Sending[Len(got) + 1]
    BY <1>2, <1>9, <2>1, GpioClk
  <2>3. Outs \in Nat
    BY <1>9, SpotType DEF Selected
  <2>4. Heeded(got')
    <3>1. CASE got' = got
      BY <1>2, <1>9, <3>1
    <3>2. CASE \E b \in Byte : /\ got' = Took(b)
                               /\ Len(got) < Outs => b = Sending[Len(got) + 1]
      <4>1. PICK b \in Byte : /\ got' = Took(b)
                              /\ Len(got) < Outs => b = Sending[Len(got) + 1]
        BY <3>2
      <4>2. Heeded(Took(b))
        BY <1>1, <1>2, <1>9, <2>3, <4>1, HeededTook
      <4> QED BY <4>1, <4>2
    <3> QED BY <2>2, <3>1, <3>2
  <2>5. Heeded(got)'
    BY <2>2, <2>4 DEF Heeded
  <2> QED BY <2>2, <2>5
<1>10. \/ ~ Selected /\ ~ Selected'
       \/ what = "cs" /\ ~ Selected /\ Selected'
       \/ what = "cs" /\ Selected /\ AtLine("cs", 1)
       \/ what \in {"din", "clk"} /\ Selected
  BY GpioCases
<1> QED BY <1>5, <1>6, <1>7, <1>8, <1>9, <1>10

\* Steps of a gpio port that leave its lines alone.
LEMMA GpioConfinedStill ==
  ASSUME TypeInv, GpioConfined, port = "gpio",
         ReadGpioBit \/ PollStatus \/ ChipReady \/ UNCHANGED vars
  PROVE  GpioConfined'
<1>1. GpioTrack /\ (Selected => Heeded(got))
  BY DEF GpioConfined
<1>2. CASE ReadGpioBit
  <2>1. /\ got' = got /\ Selected /\ Sending' = Sending /\ Outs' = Outs /\ GpioTrack'
    BY <1>1, <1>2, GpioBitPlace
  <2>2. /\ Running /\ Now[step].what = "bit" /\ Active /\ Onward /\ UNCHANGED <<port, call>>
    BY <1>2, AccessParts DEF ReadGpioBit
  <2>3. ~ Entering'
    <3>1. ~ Entering
      BY <2>2, EnteringAt
    <3>2. piece \in Nat \ {0}
      BY <2>2, SpotPiece
    <3>3. piece' = 1 => piece = 1
      BY <2>2, <3>2 DEF Onward
    <3> QED BY <2>2, <3>1, <3>3 DEF Entering
  <2>4. Heeded(got)'
    BY <1>1, <2>1 DEF Heeded
  <2> QED BY <2>1, <2>3, <2>4 DEF GpioConfined
<1>3. CASE PollStatus
  <2>1. ~ Selected' /\ ~ Entering'
    BY <1>3, PollNext
  <2> QED BY <2>1 DEF GpioConfined, GpioTrack
<1>4. CASE ChipReady \/ UNCHANGED vars
  <2>1. UNCHANGED <<port, call, piece, step, got, bits, part, line, exposed>>
    BY <1>4 DEF ChipReady, vars, progVars, portVars, chipVars, histVars
  <2>2. /\ (Selected' <=> Selected) /\ Pos' = Pos
        /\ Sending' = Sending /\ Outs' = Outs /\ Ins' = Ins
    BY <2>1, SameSpot
  <2>3. GpioTrack'
    BY <1>1, <2>1, <2>2 DEF GpioTrack, Taken
  <2>4. Selected' => Heeded(got)'
    BY <1>1, <2>1, <2>2 DEF Heeded
  <2>5. (Entering /\ Threat(got) /\ Len(got) >= 3 => Reach(got) \subseteq exposed)'
    BY <2>1 DEF GpioConfined, Entering, Threat, Reach, BaseOf, PageOf, Sector
  <2> QED BY <2>3, <2>4, <2>5 DEF GpioConfined
<1> QED BY <1>2, <1>3, <1>4

\* Between two calls the chip of a gpio port has nothing.
LEMMA GpioConfinedTurning ==
  ASSUME TypeInv, GpioWires, GpioConfined, port = "gpio", Open \/ Call \/ Return
  PROVE  GpioConfined'
<1>1. ~ Selected /\ ~ Selected' /\ got' = got
  <2>1. ~ Selected' /\ UNCHANGED chipVars /\ (~ Crash => ~ Selected)
    BY Turning
  <2> QED BY <2>1, NoCrash DEF chipVars
<1>2. exposed' = exposed
  BY DEF Open, Call, Begin, Return, histVars
<1>3. Threat(got) /\ Len(got) >= 3 => Reach(got) \subseteq exposed
  <2>1. CASE Entering
    BY <2>1 DEF GpioConfined
  <2>2. CASE ~ Entering
    <3>1. line.cs = 1
      BY <1>1, <2>2 DEF GpioWires, CsLow
    <3>2. got = <<>>
      BY <3>1 DEF TypeInv, Basics
    <3> QED BY <3>2 DEF Threat
  <2> QED BY <2>1, <2>2
<1>4. (Threat(got) /\ Len(got) >= 3 => Reach(got) \subseteq exposed)'
  BY <1>1, <1>2, <1>3 DEF Threat, Reach, BaseOf, PageOf, Sector
<1> QED BY <1>1, <1>4 DEF GpioConfined, GpioTrack

\* A process that is cut off at a gpio port leaves the command that it sent.
LEMMA GpioConfinedCrash ==
  ASSUME TypeInv, GpioWires, GpioConfined, port = "gpio", Crash
  PROVE  GpioConfined'
<1>1. call' = Off /\ port' = port /\ got' = got /\ exposed \cup Scope(call) \subseteq exposed'
  BY DEF Crash, chipVars
<1>2. ~ Selected'
  BY <1>1, FirstSpot
<1>3. Threat(got) /\ Len(got) >= 3 => Reach(got) \subseteq exposed'
  <2>1. CASE Entering
    BY <1>1, <2>1 DEF GpioConfined
  <2>2. CASE ~ Entering
    <3>1. SUFFICES ASSUME Threat(got), Len(got) >= 3 PROVE Reach(got) \subseteq exposed'
      OBVIOUS
    <3>2. got # <<>> /\ Len(got) \in Nat
      BY <3>1, GotType, Parts DEF Threat, TypeInv
    <3>3. Selected
      <4>1. line.cs # 1
        BY <3>2 DEF TypeInv, Basics
      <4> QED BY <2>2, <4>1 DEF GpioWires, CsLow
    <3>4. Heeded(got)
      BY <3>3 DEF GpioConfined
    <3>5. Reach(got) \subseteq Scope(call)
      BY <3>1, <3>2, <3>3, <3>4, HeededReach
    <3> QED BY <1>1, <3>5
  <2> QED BY <2>1, <2>2
<1>4. (Threat(got) /\ Len(got) >= 3 => Reach(got) \subseteq exposed)'
  BY <1>1, <1>3 DEF Threat, Reach, BaseOf, PageOf, Sector
<1> QED BY <1>2, <1>4 DEF GpioConfined, GpioTrack


LEMMA ConfinedInit ==
  ASSUME Init
  PROVE  Confined
<1>1. call = Off /\ got = <<>> /\ shift = Empty
  BY DEF Init
<1>2. ~ Selected /\ Stream = <<>>
  BY <1>1 DEF Selected, Inside, Active, Stream
<1> QED BY <1>1, <1>2 DEF Confined, GpioConfined, RegConfined, GpioTrack, Threat

LEMMA ConfinedStep ==
  ASSUME TypeInv, Wires, Confined, [Next]_vars
  PROVE  Confined'
<1>1. SUFFICES ASSUME faults' = 0 PROVE (IF port = "gpio" THEN GpioConfined ELSE RegConfined)'
  BY DEF Confined
<1>2. faults = 0 /\ ~ WaitGivesUp /\ ~ CycleLost
  BY <1>1, Faultless
<1>3. GpioWires /\ RegWires /\ IF port = "gpio" THEN GpioConfined ELSE RegConfined
  BY <1>2 DEF Wires, Confined
<1>4. port' = port
  <2>1. CASE Open \/ Call \/ Return \/ Crash
    BY <2>1, Turning
  <2>2. CASE Process /\ ~ Return
    BY <2>2 DEF Process, DriveGpio, ReadGpioBit, WriteRegister, SelectRegister, WaitForData,
                TakeByte, PollStatus, Access, Due
  <2>3. CASE Shifted \/ ChipReady \/ UNCHANGED vars
    BY <2>3 DEF Shifted, ChipReady, vars
  <2> QED BY <1>2, <2>1, <2>2, <2>3 DEF Next
<1>5. CASE port = "gpio"
  <2>1. ~ Shifted
    BY <1>5 DEF Shifted, TypeInv, Basics
  <2>2. ~ SelectRegister /\ ~ WaitForData /\ ~ TakeByte
    BY <1>5, PortAccess DEF SelectRegister, WaitForData, TakeByte
  <2>3. \A what \in {"cs", "shift"} : ~ WriteRegister(what)
    BY <1>5 DEF WriteRegister
  <2>4. CASE Open \/ Call \/ Return
    BY <1>3, <1>4, <1>5, <2>4, GpioConfinedTurning
  <2>5. CASE Crash
    BY <1>3, <1>4, <1>5, <2>5, GpioConfinedCrash
  <2>6. CASE \E what \in {"init", "cs", "din", "clk"} : DriveGpio(what)
    BY <1>3, <1>4, <1>5, <2>6, GpioConfinedDrive
  <2>7. CASE ReadGpioBit \/ PollStatus \/ ChipReady \/ UNCHANGED vars
    BY <1>3, <1>4, <1>5, <2>7, GpioConfinedStill
  <2> QED BY <1>2, <2>1, <2>2, <2>3, <2>4, <2>5, <2>6, <2>7 DEF Next, Process
<1>6. CASE port # "gpio"
  <2>1. ~ ReadGpioBit
    BY <1>6, PortAccess DEF ReadGpioBit
  <2>2. \A what \in {"init", "cs", "din", "clk"} : ~ DriveGpio(what)
    BY <1>6 DEF DriveGpio
  <2>3. CASE Open \/ Call \/ Return
    BY <1>3, <1>4, <1>6, <2>3, RegConfinedTurning
  <2>4. CASE Crash
    BY <1>3, <1>4, <1>6, <2>4, RegConfinedCrash
  <2>5. CASE \E what \in {"cs", "shift"} : WriteRegister(what)
    BY <1>3, <1>4, <1>6, <2>5, RegConfinedCs, RegConfinedShift
  <2>6. CASE SelectRegister \/ WaitForData \/ TakeByte
    BY <1>3, <1>4, <1>6, <2>6, RegConfinedAside
  <2>7. CASE Shifted
    BY <1>3, <1>4, <1>6, <2>7, RegConfinedShifted
  <2>8. CASE PollStatus \/ ChipReady \/ UNCHANGED vars
    BY <1>3, <1>4, <1>6, <2>8, RegConfinedStill
  <2> QED BY <1>2, <2>1, <2>2, <2>3, <2>4, <2>5, <2>6, <2>7, <2>8 DEF Next, Process
<1> QED BY <1>5, <1>6

\* Only a rise of chip select changes the memory.
LEMMA MemoryTurns ==
  ASSUME TypeInv, Wires, [Next]_vars, faults = 0, mem' # mem
  PROVE  \/ \E what \in {"init", "cs", "din", "clk"} : DriveGpio(what)
         \/ WriteRegister("cs")
<1>1. ~ Open /\ ~ Call /\ ~ Return /\ ~ Crash
  BY Turning DEF chipVars
<1>2. ~ ReadGpioBit /\ ~ SelectRegister /\ ~ WaitForData /\ ~ TakeByte /\ ~ PollStatus
  BY DEF ReadGpioBit, SelectRegister, WaitForData, TakeByte, PollStatus, chipVars
<1>3. ~ WaitGivesUp /\ ~ CycleLost /\ ~ Shifted /\ ~ ChipReady /\ ~ UNCHANGED vars
  BY DEF WaitGivesUp, CycleLost, Shifted, ChipReady, vars, chipVars
<1>4. ~ WriteRegister("shift")
  <2>1. "shift" \in {"cs", "shift"} /\ RegWires
    BY DEF Wires
  <2> QED BY <2>1, RegWrite DEF chipVars
<1> QED BY <1>1, <1>2, <1>3, <1>4 DEF Next, Process

\* What a step changes lies in the call's page or sector, or was exposed.
LEMMA DamageStep ==
  ASSUME TypeInv, Wires, Confined, [Next]_vars, faults = 0,
         NEW x \in Addresses, mem'[x] # mem[x]
  PROVE  x \in Scope(call) \cup exposed
<1>1. GpioWires /\ RegWires /\ IF port = "gpio" THEN GpioConfined ELSE RegConfined
  BY DEF Wires, Confined
<1>2. mem' # mem
  OBVIOUS
<1>3. CASE \E what \in {"init", "cs", "din", "clk"} : DriveGpio(what)
  <2>1. PICK what \in {"init", "cs", "din", "clk"} : DriveGpio(what)
    BY <1>3
  <2>2. /\ port = "gpio" /\ Lines(line') /\ Chip
        /\ what = "init" => line' = GpioReset
        /\ what # "init" => line.cs = (IF CsLow THEN 0 ELSE 1)
    BY <1>1, <2>1, GpioParts
  <2>3. Deselected /\ line.cs = 0
    BY <1>2, <2>2 DEF Lines, chipVars
  <2>4. Threat(got) /\ Len(got) >= 4 /\ x \in Reach(got)
    BY <2>2, <2>3, ReachWritten
  <2>5. Len(got) \in Nat /\ Len(got) >= 3
    BY <2>2, <2>4, GotType
  <2>6. GpioConfined
    BY <1>1, <2>2
  <2>7. CASE Entering
    BY <2>4, <2>5, <2>6, <2>7 DEF GpioConfined
  <2>8. CASE ~ Entering
    <3>1. Selected
      BY <1>1, <2>2, <2>3, <2>8 DEF GpioWires, CsLow
    <3>2. Heeded(got)
      BY <2>6, <3>1 DEF GpioConfined
    <3>3. Reach(got) \subseteq Scope(call)
      BY <2>4, <2>5, <3>1, <3>2, HeededReach
    <3> QED BY <2>4, <3>3
  <2> QED BY <2>7, <2>8
<1>4. CASE WriteRegister("cs")
  <2>1. "cs" \in {"cs", "shift"}
    OBVIOUS
  <2>2. shift = Empty /\ port # "gpio" /\ Lines([line EXCEPT !.cs = Value])
    BY <1>1, <1>4, <2>1, RegWrite
  <2>3. Chip
    BY Parts DEF TypeInv
  <2>4. Deselected
    BY <1>2, <2>2 DEF Lines, chipVars
  <2>5. Threat(got) /\ Len(got) >= 4 /\ x \in Reach(got)
    BY <2>3, <2>4, ReachWritten
  <2>6. Len(got) \in Nat /\ Len(got) >= 3 /\ got # <<>> /\ Stream = got
    <3>1. Len(got) \in Nat /\ Stream = got
      BY <2>2, <2>3, GotType DEF Stream
    <3>2. got # <<>>
      BY <2>5 DEF Threat
    <3> QED BY <2>5, <3>1, <3>2
  <2>7. CASE Addresses \subseteq exposed
    BY <2>7
  <2>8. CASE Settled(Stream)
    BY <2>5, <2>6, <2>8 DEF Settled
  <2>9. CASE Selected /\ Heeded(Stream)
    <3>1. Reach(got) \subseteq Scope(call)
      BY <2>5, <2>6, <2>9, HeededReach
    <3> QED BY <2>5, <3>1
  <2> QED BY <1>1, <2>2, <2>6, <2>7, <2>8, <2>9 DEF RegConfined
<1> QED BY <1>2, <1>3, <1>4, MemoryTurns

\* While nothing is lost, whatever is cut off where, no process changes more of
\* the chip than the page or sector it was asked to, and those of interrupted
\* calls, unless an interruption fell between a command and the page number
\* (prefix_*, write_page, erase_sector, eeprom_local.c:375-398).
THEOREM DamageStaysConfined == Spec => DamageConfined
<1> DEFINE I == TypeInv /\ Wires /\ Confined
<1>1. Init => I
  BY TypeInit, WiresInit, ConfinedInit
<1>2. I /\ [Next]_vars => I'
  BY TypeStep, WiresStep, ConfinedStep
<1>3. I /\ [Next]_vars =>
        [faults = 0 => \A x \in Addresses : mem'[x] # mem[x] => x \in Scope(call) \cup exposed]_vars
  BY DamageStep
<1> HIDE DEF I
<1> QED BY <1>1, <1>2, <1>3, PTL DEF Spec, DamageConfined
=============================================================================
