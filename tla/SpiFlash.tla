------------------------------ MODULE SpiFlash ------------------------------
(***************************************************************************)
(* The serial NOR flash of a Mesa board, as the code relies on it.  The    *)
(* chip is not part of the repository: eeprom.h names its geometry and its *)
(* commands (SPI_CMD_READ, _PAGE_WRITE, _SECTOR_ERASE) and eeprom_local.c  *)
(* issues them.  The contents are a function from byte addresses to cells, *)
(* with the geometry scaled down by the constants.                         *)
(*                                                                         *)
(* A cell records where its byte came from instead of its value: erased,   *)
(* a byte of the boot block, a zero, a byte at an offset of a file.  Two   *)
(* bytes that the real chip could hold by coincidence are kept apart.      *)
(***************************************************************************)
EXTENDS Integers

CONSTANTS
  PageSize,      \* bytes of a program page: PAGE_SIZE, 256 on the chip
  SectorSize,    \* bytes of an erase sector: SECTOR_SIZE, 65536
  FlashSectors,  \* sectors of the chip: 2 (1 Mbit) to 64 (32 Mbit)
  Files          \* names of the files that can be programmed

ASSUME GeometryAssumption ==
  /\ PageSize \in Nat \ {0}
  /\ SectorSize \in Nat \ {0}
  /\ FlashSectors \in Nat \ {0}
  /\ SectorSize % PageSize = 0

FlashSize == FlashSectors * SectorSize

Addresses == 0 .. FlashSize - 1

Byte(src, off) == [src |-> src, off |-> off]

Erased == Byte("erased", 0)   \* 0xFF after an erase
Zero   == Byte("zero", 0)     \* 0x00
Junk   == Byte("junk", 0)     \* neither old nor new: an operation was cut short

Bytes == [src : Files \cup {"erased", "zero", "junk", "boot", "old"}, off : Nat]

Memory == [Addresses -> Bytes]
Page   == [0 .. PageSize - 1 -> Bytes]

-----------------------------------------------------------------------------
\* The chip decodes only as many address bits as it has cells: an address
\* beyond its end comes back at the beginning.
Decode(a) == a % FlashSize

SectorOf(a) == {x \in Addresses : x \div SectorSize = Decode(a) \div SectorSize}
PageCells(a) == {x \in Addresses : x \in Decode(a) .. Decode(a) + PageSize - 1}

\* Programming can clear bits only: a byte programmed over another is neither.
Program(old, new) ==
  IF old = Erased \/ new = Zero THEN new
  ELSE IF old = new THEN old ELSE Junk

PageAt(mem, a) == [k \in 0 .. PageSize - 1 |-> mem[Decode(a + k)]]

SectorErased(mem, a) ==
  [x \in Addresses |-> IF x \in SectorOf(a) THEN Erased ELSE mem[x]]

PageProgrammed(mem, a, page) ==
  [x \in Addresses |-> IF x \in PageCells(a)
                         THEN Program(mem[x], page[x - Decode(a)])
                         ELSE mem[x]]

\* An operation that was to take the cells from mem to done, and that is cut
\* short or fails: it may leave each unit of them as it was, as it was to be,
\* or undefined.
Left(how, old, new) ==
  CASE how = "before" -> old [] how = "done" -> new [] how = "undefined" -> Junk

Partly(mem, done, cells, unit) ==
  {[x \in Addresses |-> IF x \in cells THEN Left(how[x \div unit], mem[x], done[x])
                                       ELSE mem[x]] :
     how \in [{x \div unit : x \in cells} -> {"before", "done", "undefined"}]}
=============================================================================
