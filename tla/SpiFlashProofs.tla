--------------------------- MODULE SpiFlashProofs ---------------------------
(***************************************************************************)
(* Lemmas about the flash chip, for every geometry: multiples, the cells   *)
(* that addresses decode to, and what its operations leave.                *)
(***************************************************************************)
EXTENDS SpiFlash, TLAPS

-----------------------------------------------------------------------------
(* Arithmetic *)

\* Quotient and remainder.
LEMMA QuotientAndRemainder ==
  ASSUME NEW p \in Nat \ {0}, NEW m \in Nat
  PROVE  m = p * (m \div p) + (m % p) /\ m % p \in 0 .. p - 1 /\ m \div p \in Nat
OBVIOUS

\* A multiple is a product, and a product is a multiple.
LEMMA MultipleIsProduct ==
  ASSUME NEW p \in Nat \ {0}, NEW a \in Nat, a % p = 0
  PROVE  \E q \in Nat : a = p * q
<1>1. a = p * (a \div p) + (a % p)
  OBVIOUS
<1>2. a \div p \in Nat
  OBVIOUS
<1>3. a = p * (a \div p)
  BY <1>1, <1>2
<1> QED BY <1>2, <1>3

\* A product of p and a natural number leaves no remainder.
LEMMA ProductIsMultiple ==
  ASSUME NEW p \in Nat \ {0}, NEW q \in Nat
  PROVE  (p * q) % p = 0
<1> DEFINE m == p * q
<1>1. m \in Nat
  OBVIOUS
<1>2. m = p * (m \div p) + (m % p) /\ m % p \in 0 .. p - 1 /\ m \div p \in Int
  BY <1>1
<1>3. m % p = p * (q - (m \div p))
  BY <1>2
<1>4. CASE q - (m \div p) >= 1
  <2>1. p * (q - (m \div p)) >= p
    BY <1>4, <1>2
  <2> QED BY <2>1, <1>2, <1>3
<1>5. CASE q - (m \div p) <= -1
  <2>1. p * (q - (m \div p)) <= -p
    BY <1>5, <1>2
  <2> QED BY <2>1, <1>2, <1>3
<1>6. CASE q - (m \div p) = 0
  BY <1>6, <1>3
<1> QED BY <1>2, <1>4, <1>5, <1>6

\* What is divided is a multiple of the divisor and a remainder.
LEMMA Quotient ==
  ASSUME NEW p \in Nat \ {0}, NEW q \in Nat, NEW r \in 0 .. p - 1
  PROVE  (q * p + r) \div p = q
<1> DEFINE x == q * p + r   d == x \div p
<1>1. q * p \in Nat /\ x \in Nat
  OBVIOUS
<1>2. x = p * d + (x % p) /\ x % p \in 0 .. p - 1 /\ d \in Nat
  BY <1>1
<1>3. p * (q - d) = (x % p) - r
  BY <1>1, <1>2
<1> HIDE DEF d
<1>4. CASE q - d >= 1
  <2>1. p * (q - d) >= p
    BY <1>2, <1>4
  <2> QED BY <1>2, <1>3, <2>1
<1>5. CASE q - d <= -1
  <2>1. p * (q - d) <= -p
    BY <1>2, <1>5
  <2> QED BY <1>2, <1>3, <2>1
<1>6. CASE q = d
  BY <1>6 DEF d
<1> QED BY <1>2, <1>4, <1>5, <1>6

\* Two multiples of p are at least p apart.
LEMMA MultiplesApart ==
  ASSUME NEW p \in Nat \ {0}, NEW a \in Nat, NEW b \in Nat,
         a % p = 0, b % p = 0, a < b
  PROVE  a + p <= b
<1>1. PICK q \in Nat : a = p * q
  BY MultipleIsProduct
<1>2. PICK r \in Nat : b = p * r
  BY MultipleIsProduct
<1>3. q + 1 <= r
  <2>1. SUFFICES ASSUME r <= q PROVE FALSE
    OBVIOUS
  <2>2. p * r <= p * q
    BY <2>1
  <2> QED BY <2>2, <1>1, <1>2
<1>4. p * (q + 1) <= p * r
  BY <1>3
<1>5. p * (q + 1) = p * q + p
  OBVIOUS
<1> QED BY <1>1, <1>2, <1>4, <1>5

\* The page after a page, and the sector after a sector, is at a multiple.
LEMMA NextMultiple ==
  ASSUME NEW p \in Nat \ {0}, NEW a \in Nat, a % p = 0
  PROVE  (a + p) % p = 0
<1>1. PICK q \in Nat : a = p * q
  BY MultipleIsProduct
<1>2. a + p = p * (q + 1)
  BY <1>1
<1>3. (p * (q + 1)) % p = 0
  BY ProductIsMultiple
<1> QED BY <1>2, <1>3

-----------------------------------------------------------------------------
(* Addresses *)

\* The chip has cells, and an address always decodes to one.
LEMMA ChipType ==
  /\ FlashSize \in Nat \ {0}
  /\ SectorSize <= FlashSize
  /\ \A a \in Int : Decode(a) \in Addresses
<1>1. FlashSectors * SectorSize >= 1 * SectorSize
  BY GeometryAssumption
<1>2. FlashSize \in Nat \ {0} /\ SectorSize <= FlashSize
  BY <1>1, GeometryAssumption DEF FlashSize
<1>3. ASSUME NEW a \in Int PROVE Decode(a) \in Addresses
  BY <1>2 DEF Decode, Addresses
<1> QED BY <1>2, <1>3

\* The cells of a sector are those from its address to the next one.
LEMMA SectorCells ==
  ASSUME NEW a \in Addresses, a % SectorSize = 0, NEW x \in Addresses
  PROVE  x \in SectorOf(a) <=> x \in a .. a + SectorSize - 1
<1> DEFINE q == a \div SectorSize   d == x \div SectorSize   r == x % SectorSize
<1>1. a \in Nat /\ x \in Nat /\ Decode(a) = a
  BY ChipType DEF Addresses, Decode
<1>2. a = SectorSize * q /\ q \in Nat
  <2>1. a = SectorSize * q + (a % SectorSize) /\ q \in Nat
    BY <1>1, GeometryAssumption
  <2>2. SectorSize * q \in Nat
    BY <2>1, GeometryAssumption
  <2> HIDE DEF q
  <2> QED BY <2>1, <2>2
<1>3. x = SectorSize * d + r /\ r \in 0 .. SectorSize - 1 /\ d \in Nat
  BY <1>1, GeometryAssumption
<1>4. x \in SectorOf(a) <=> d = q
  BY <1>1 DEF SectorOf
<1>5. ASSUME x \in a .. a + SectorSize - 1 PROVE d = q
  <2>1. x - a \in 0 .. SectorSize - 1
    BY <1>1, <1>5, GeometryAssumption
  <2>2. q * SectorSize = a /\ x = q * SectorSize + (x - a)
    BY <1>1, <1>2, GeometryAssumption
  <2>3. (q * SectorSize + (x - a)) \div SectorSize = q
    BY <1>2, <2>1, Quotient, GeometryAssumption
  <2> QED BY <2>2, <2>3
<1>6. ASSUME d = q PROVE x \in a .. a + SectorSize - 1
  <2> HIDE DEF d, q, r
  <2>1. x = a + r
    BY <1>2, <1>3, <1>6
  <2> QED BY <1>1, <1>3, <2>1, GeometryAssumption
<1> QED BY <1>4, <1>5, <1>6

-----------------------------------------------------------------------------
(* The operations of the chip keep its type *)

\* The cells written by the program and left by the chip are bytes.
LEMMA BytesType ==
  /\ \A f \in Files, n \in Nat : Byte(f, n) \in Bytes
  /\ \A n \in Nat : Byte("boot", n) \in Bytes /\ Byte("old", n) \in Bytes
  /\ Erased \in Bytes /\ Zero \in Bytes /\ Junk \in Bytes
  BY DEF Byte, Bytes, Erased, Zero, Junk

\* What an operation cut short leaves: each cell as it was, as it was to be, or
\* undefined, and those that are none of its own as they were.
LEMMA PartlyCells ==
  ASSUME NEW mem, NEW done, NEW cells, NEW unit,
         NEW m \in Partly(mem, done, cells, unit)
  PROVE  /\ m = [x \in Addresses |-> m[x]]
         /\ \A x \in Addresses : m[x] \in {mem[x], done[x], Junk}
         /\ \A x \in Addresses \ cells : m[x] = mem[x]
<1>1. PICK how \in [{x \div unit : x \in cells} -> {"before", "done", "undefined"}] :
        m = [x \in Addresses |-> IF x \in cells THEN Left(how[x \div unit], mem[x], done[x])
                                                ELSE mem[x]]
  BY DEF Partly
<1>2. \A h \in {"before", "done", "undefined"} : \A old, new :
        Left(h, old, new) \in {old, new, Junk}
  BY DEF Left
<1>3. \A x \in cells : how[x \div unit] \in {"before", "done", "undefined"}
  OBVIOUS
<1>4. ASSUME NEW x \in Addresses PROVE m[x] \in {mem[x], done[x], Junk}
  <2>1. CASE x \in cells
    BY <1>1, <1>2, <1>3, <2>1
  <2>2. CASE x \notin cells
    BY <1>1, <2>2
  <2> QED BY <2>1, <2>2
<1> QED BY <1>1, <1>4

LEMMA PartlyType ==
  ASSUME NEW mem \in Memory, NEW done \in Memory, NEW cells, NEW unit
  PROVE  Partly(mem, done, cells, unit) \subseteq Memory
<1> SUFFICES ASSUME NEW m \in Partly(mem, done, cells, unit) PROVE m \in Memory
  OBVIOUS
<1>1. m = [x \in Addresses |-> m[x]] /\ \A x \in Addresses : m[x] \in {mem[x], done[x], Junk}
  BY PartlyCells
<1>2. \A x \in Addresses : mem[x] \in Bytes /\ done[x] \in Bytes
  BY DEF Memory
<1>3. \A x \in Addresses : m[x] \in Bytes
  BY <1>1, <1>2, BytesType
<1> QED BY <1>1, <1>3 DEF Memory

\* Every operation of the chip leaves a memory.
LEMMA MemoryType ==
  ASSUME NEW mem \in Memory, NEW a \in Int
  PROVE  /\ SectorErased(mem, a) \in Memory
         /\ \A page \in Page : PageProgrammed(mem, a, page) \in Memory
<1>1. SectorErased(mem, a) \in Memory
  BY BytesType DEF SectorErased, Memory
<1>2. ASSUME NEW page \in Page PROVE PageProgrammed(mem, a, page) \in Memory
  <2>1. \A old \in Bytes, new \in Bytes : Program(old, new) \in Bytes
    BY BytesType DEF Program
  <2>2. Decode(a) \in Int
    BY ChipType DEF Addresses
  <2>3. ASSUME NEW x \in Addresses, x \in PageCells(a)
        PROVE  page[x - Decode(a)] \in Bytes
    <3>1. x - Decode(a) \in 0 .. PageSize - 1
      BY <2>2, <2>3, GeometryAssumption DEF PageCells, Addresses
    <3> QED BY <3>1 DEF Page
  <2>4. ASSUME NEW x \in Addresses PROVE mem[x] \in Bytes
    BY DEF Memory
  <2> QED BY <2>1, <2>3, <2>4 DEF PageProgrammed, Memory
<1> QED BY <1>1, <1>2

=============================================================================
