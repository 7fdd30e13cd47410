------------------------- MODULE EepromWriteProofs -------------------------
(***************************************************************************)
(* What TLAPS proves of the writing half of Eeprom, for every geometry,    *)
(* every file, every board and every command line: that no page is         *)
(* programmed over bytes that were not erased, that a write of a file that *)
(* fits leaves what lies outside its area, and a valid boot block, as it   *)
(* was, and that the verification after it finds no difference when the    *)
(* chip did its work.                                                      *)
(***************************************************************************)
EXTENDS EepromProofs

-----------------------------------------------------------------------------
(* The area of a command *)

\* Where the loops of a write or a restore start, in the flash and in the file.
ProgramStart  == IF cmd.op = "restore" THEN 0 ELSE StartAddress(board, cmd.fallback)
ProgramOffset == IF cmd.op = "restore" THEN 0 ELSE Header(cmd.file)

\* The end of the sectors that are erased for the file, and the end that they
\* may not pass.
EraseEnd == start_address + (LastSector(Size(cmd.file)) + 1) * SectorSize
ProgramEnd ==
  IF cmd.op = "restore" THEN FlashSize ELSE AreaEnd(board, cmd.fallback)

Fitting == cmd.op = "write" => Fits

\* The difference of two multiples is one.
LEMMA Difference ==
  ASSUME NEW p \in Nat \ {0}, NEW a \in Nat, NEW b \in Nat,
         a % p = 0, b % p = 0, a <= b
  PROVE  (b - a) % p = 0
<1>1. PICK q \in Nat : a = p * q
  BY MultipleIsProduct
<1>2. PICK r \in Nat : b = p * r
  BY MultipleIsProduct
<1>3. q <= r
  <2>1. SUFFICES ASSUME r + 1 <= q PROVE FALSE
    BY <1>1, <1>2
  <2>2. p * (r + 1) <= p * q
    BY <2>1
  <2> QED BY <2>2, <1>1, <1>2
<1>4. p * (r - q) = b - a /\ r - q \in Nat
  BY <1>1, <1>2, <1>3
<1> QED BY <1>4, ProductIsMultiple

\* The sum of two multiples is one.
LEMMA SumOfMultiples ==
  ASSUME NEW p \in Nat \ {0}, NEW a \in Nat, NEW b \in Nat,
         a % p = 0, b % p = 0
  PROVE  (a + b) % p = 0
<1>1. PICK q \in Nat : a = p * q
  BY MultipleIsProduct
<1>2. PICK r \in Nat : b = p * r
  BY MultipleIsProduct
<1>3. p * (q + r) = a + b /\ q + r \in Nat
  BY <1>1, <1>2
<1> QED BY <1>3, ProductIsMultiple

\* A multiple of a multiple is one.
LEMMA MultipleOfMultiple ==
  ASSUME NEW p \in Nat \ {0}, NEW m \in Nat \ {0}, NEW a \in Nat,
         m % p = 0, a % m = 0
  PROVE  a % p = 0
<1>1. PICK q \in Nat : m = p * q
  BY MultipleIsProduct
<1>2. PICK r \in Nat : a = m * r
  BY MultipleIsProduct
<1>3. a = p * (q * r) /\ q * r \in Nat
  BY <1>1, <1>2
<1> QED BY <1>3, ProductIsMultiple

\* The halves and the ends of the flash are at sectors.
LEMMA AreaAligned ==
  ASSUME NEW b \in Boards, NEW fallback \in BOOLEAN
  PROVE  /\ StartAddress(b, fallback) % SectorSize = 0
         /\ AreaEnd(b, fallback) % SectorSize = 0
         /\ AreaEnd(b, fallback) \in Nat
         /\ AreaEnd(b, fallback) <= FlashSize
<1>1. PICK h \in Nat : FlashSectors = 2 * h
  BY GeometryAssumption, EepromAssumption, MultipleIsProduct
<1>2. FlashSize = 2 * (SectorSize * h) /\ SectorSize * h \in Nat
  BY <1>1, GeometryAssumption DEF FlashSize
<1>3. UserSpace = SectorSize * h
  <2> DEFINE m == SectorSize * h
  <2> HIDE DEF m
  <2> SUFFICES UserSpace = m
    BY DEF m
  <2>1. FlashSize = 2 * m /\ m \in Nat
    BY <1>2 DEF m
  <2> QED BY <2>1 DEF UserSpace
<1>4. UserSpace % SectorSize = 0 /\ UserSpace \in Nat /\ UserSpace <= FlashSize
  <2>1. (SectorSize * h) % SectorSize = 0
    BY ProductIsMultiple, GeometryAssumption
  <2> QED BY <2>1, <1>2, <1>3
<1>5. FlashSize % SectorSize = 0 /\ FlashSize \in Nat
  <2>1. (SectorSize * FlashSectors) % SectorSize = 0
    BY ProductIsMultiple, GeometryAssumption
  <2>2. FlashSize = SectorSize * FlashSectors
    BY GeometryAssumption DEF FlashSize
  <2> QED BY <2>1, <2>2, ChipType
<1>6. 0 % SectorSize = 0 /\ SectorSize % SectorSize = 0
  <2>1. (SectorSize * 1) % SectorSize = 0 /\ SectorSize * 1 = SectorSize
    BY ProductIsMultiple, GeometryAssumption
  <2> QED BY <2>1, GeometryAssumption
<1>7. b.fpga \in {"xilinx", "efinix"}
  BY EepromAssumption DEF BoardRecords
<1>8. StartAddress(b, fallback) \in {0, SectorSize, UserSpace}
  BY <1>7 DEF StartAddress
<1>9. AreaEnd(b, fallback) \in {UserSpace, FlashSize}
  BY DEF AreaEnd
<1> QED BY <1>4, <1>5, <1>6, <1>8, <1>9

\* The sectors that are erased cover the file, up to the end of its area.
LEMMA SectorsCover ==
  ASSUME NEW start \in Nat, NEW size \in Nat \ {0}, NEW end \in Nat,
         start % SectorSize = 0, end % SectorSize = 0
  PROVE  LET covered == (LastSector(size) + 1) * SectorSize IN
         /\ covered \in Nat /\ covered % SectorSize = 0 /\ size <= covered
         /\ LastSector(size) \in Nat
         /\ start + size <= end => start + covered <= end
<1> DEFINE n == LastSector(size)
<1>1. n \in Nat /\ SectorSize * n <= size - 1 /\ size - 1 < SectorSize * n + SectorSize
  <2> DEFINE m == size - 1  r == m % SectorSize
  <2>1. m \in Nat /\ SectorSize \in Nat \ {0}
    BY GeometryAssumption
  <2>2. n = m \div SectorSize
    BY DEF LastSector
  <2> HIDE DEF m, n
  <2>3. n \in Nat /\ m = SectorSize * n + r /\ r \in 0 .. SectorSize - 1
    BY <2>1, <2>2
  <2>4. SectorSize * n \in Nat
    BY <2>1, <2>3
  <2> HIDE DEF r
  <2>5. SectorSize * n <= m /\ m < SectorSize * n + SectorSize
    BY <2>1, <2>3, <2>4
  <2> QED BY <2>3, <2>5 DEF m
<1> HIDE DEF n
<1>2. SectorSize * n \in Nat /\ (SectorSize * n) % SectorSize = 0
  BY <1>1, ProductIsMultiple, GeometryAssumption
<1>3. (n + 1) * SectorSize = SectorSize * n + SectorSize
  BY <1>1, GeometryAssumption
<1> DEFINE m == SectorSize * n
<1> HIDE DEF m
<1>4. m \in Nat /\ m % SectorSize = 0 /\ m <= size - 1 /\ size - 1 < m + SectorSize
  BY <1>1, <1>2 DEF m
<1>5. m + SectorSize \in Nat /\ (m + SectorSize) % SectorSize = 0 /\ size <= m + SectorSize
  <2>1. m + SectorSize \in Nat /\ size <= m + SectorSize
    BY <1>4, GeometryAssumption
  <2>2. (m + SectorSize) % SectorSize = 0
    BY <1>4, NextMultiple, GeometryAssumption
  <2> QED BY <2>1, <2>2
<1>6. ASSUME start + size <= end PROVE start + (m + SectorSize) <= end
  <2>1. start <= end /\ end - start \in Nat /\ m < end - start
    BY <1>4, <1>6
  <2>2. (end - start) % SectorSize = 0
    BY <2>1, Difference, GeometryAssumption
  <2>3. m + SectorSize <= end - start
    BY <2>1, <2>2, <1>4, MultiplesApart, GeometryAssumption
  <2> QED BY <2>1, <2>3, <1>4, GeometryAssumption
<1>7. (LastSector(size) + 1) * SectorSize = m + SectorSize
  BY <1>3 DEF m, n
<1> QED BY <1>1, <1>5, <1>6, <1>7 DEF n

-----------------------------------------------------------------------------
(* The inductive invariant of writing and restoring *)

\* The steps of eeprom_write before anything of the file is programmed.
BootStages == {"checkBoot", "eraseBoot", "writeBoot", "recheckBoot", "startProgramming"}

\* How far into the file the programming has come.
Programmed == IF pc = "programPage" THEN fpos - bytesread + bindex ELSE fpos

\* A chip that did all it was told has nothing in the cells from a to b.
Blank(a, b) ==
  faults = 0 /\ Fitting =>
    \A x \in Addresses : a <= x /\ x < b => flash[x] = Erased

\* A process starts with its variables zero.
Fresh ==
  pc \in {"write", "restore"} =>
    /\ pc = cmd.op
    /\ start_address = 0 /\ addr = 0 /\ sector = 0 /\ fpos = 0 /\ eof = FALSE

\* The loops start where the command says, and the file after its header.
Aimed ==
  pc \in BootStages \cup {"erase", "program", "programPage"} =>
    /\ start_address = ProgramStart
    /\ ProgramOffset \in 0 .. Size(cmd.file)
    /\ cmd.op = "restore" => Size(cmd.file) = FlashSize
    /\ pc \in BootStages => cmd.op = "write"
    /\ pc \notin {"program", "programPage"} => fpos = ProgramOffset /\ eof = FALSE

\* The boot block is rewritten only when there is none, and stays none until
\* the page is programmed.
Repairing ==
  /\ pc \in {"checkBoot", "eraseBoot", "writeBoot"} => HasBootBlock(board)
  /\ pc \in {"eraseBoot", "writeBoot"} => cmd.fix /\ ~BootBlockOK(flash)

\* The erase loop: sectors counted, the next one at addr, those before blank.
Erasing ==
  pc = "erase" =>
    /\ esectors = LastSector(Size(cmd.file))
    /\ sector <= esectors
    /\ addr = start_address + sector * SectorSize
    /\ Blank(start_address, addr)

\* The programming loop: addr in step with the file, and blank from there on.
Programming ==
  pc \in {"program", "programPage"} =>
    /\ ProgramOffset <= Programmed
    /\ eof => fpos = Size(cmd.file)
    /\ pc = "programPage" \/ ~eof =>
         /\ addr = start_address + (Programmed - ProgramOffset)
         /\ (Programmed - ProgramOffset) % PageSize = 0
    /\ pc = "programPage" => ProgramOffset <= fpos - bytesread
    /\ pc = "programPage" /\ ~eof => bytesread = BufferSize
    /\ Blank(addr, EraseEnd)

WriteInv == Fresh /\ Aimed /\ Repairing /\ Erasing /\ Programming

-----------------------------------------------------------------------------
(* The cells that an operation reaches *)

\* The area of a write or a restore: aligned, and covering what is erased.
LEMMA ProgramArea ==
  ASSUME TypeInv, Stages, Aimed, pc \in {"startProgramming", "erase", "program", "programPage"}
  PROVE  /\ start_address \in Addresses /\ start_address % SectorSize = 0
         /\ EraseEnd \in Nat /\ EraseEnd % SectorSize = 0
         /\ start_address + Size(cmd.file) <= EraseEnd
         /\ LastSector(Size(cmd.file)) \in Nat
         /\ ProgramEnd \in Nat /\ ProgramEnd <= FlashSize
         /\ Fitting => EraseEnd <= ProgramEnd
<1>1. /\ cmd.file \in Files /\ cmd.fallback \in BOOLEAN /\ board \in Boards
      /\ start_address \in Addresses /\ start_address \in Nat
  BY CommandType, ChipType DEF TypeInv, TypeOK, Addresses
<1>2. Size(cmd.file) \in Nat \ {0}
  BY <1>1, FileType
<1>3. FlashSize % SectorSize = 0 /\ FlashSize \in Nat /\ 0 % SectorSize = 0
  <2>1. (SectorSize * FlashSectors) % SectorSize = 0
    BY ProductIsMultiple, GeometryAssumption
  <2>2. FlashSize = SectorSize * FlashSectors
    BY GeometryAssumption DEF FlashSize
  <2> QED BY <2>1, <2>2, ChipType, GeometryAssumption
<1>4. start_address = ProgramStart
  BY DEF Aimed, BootStages
<1>5. start_address % SectorSize = 0
  BY <1>1, <1>3, <1>4, AreaAligned DEF ProgramStart
<1>6. ProgramEnd \in Nat /\ ProgramEnd % SectorSize = 0 /\ ProgramEnd <= FlashSize
  BY <1>1, <1>3, AreaAligned DEF ProgramEnd
<1>7. Fitting => start_address + Size(cmd.file) <= ProgramEnd
  <2>1. cmd.op \in {"write", "restore"}
    BY CommandType DEF Stages, TypeInv
  <2>2. CASE cmd.op = "write"
    BY <1>4, <2>2 DEF Fitting, Fits, ProgramStart, ProgramEnd
  <2>3. CASE cmd.op = "restore"
    BY <1>3, <1>4, <2>3 DEF Aimed, ProgramStart, ProgramEnd, BootStages
  <2> QED BY <2>1, <2>2, <2>3
<1> DEFINE covered == (LastSector(Size(cmd.file)) + 1) * SectorSize
<1>8. /\ covered \in Nat /\ covered % SectorSize = 0 /\ Size(cmd.file) <= covered
      /\ LastSector(Size(cmd.file)) \in Nat
      /\ start_address + Size(cmd.file) <= ProgramEnd => start_address + covered <= ProgramEnd
  BY <1>1, <1>2, <1>5, <1>6, SectorsCover
<1>9. EraseEnd = start_address + covered
  BY DEF EraseEnd
<1> HIDE DEF covered
<1>10. EraseEnd % SectorSize = 0
  BY <1>1, <1>5, <1>8, <1>9, SumOfMultiples, GeometryAssumption
<1> QED BY <1>1, <1>2, <1>5, <1>6, <1>7, <1>8, <1>9, <1>10

\* A turn of the erase loop erases the sector at addr, inside the area.
LEMMA EraseCells ==
  ASSUME TypeInv, Stages, Aimed, Erasing, pc = "erase"
  PROVE  /\ addr \in Nat /\ addr % SectorSize = 0 /\ start_address <= addr
         /\ addr + SectorSize <= EraseEnd
         /\ sector = esectors => addr + SectorSize = EraseEnd
         /\ addr + SectorSize = start_address + (sector + 1) * SectorSize
         /\ Fitting =>
              /\ addr \in Addresses
              /\ \A x \in Addresses :
                   x \in SectorOf(addr) <=> x \in addr .. addr + SectorSize - 1
<1> DEFINE last == LastSector(Size(cmd.file))
<1>1. /\ start_address \in Addresses /\ start_address % SectorSize = 0
      /\ EraseEnd \in Nat /\ last \in Nat /\ ProgramEnd \in Nat /\ ProgramEnd <= FlashSize
      /\ Fitting => EraseEnd <= ProgramEnd
  BY ProgramArea
<1>2. esectors = last /\ sector \in Nat /\ sector <= last
      /\ addr = start_address + sector * SectorSize
  BY DEF Erasing, TypeInv, TypeOK
<1>3. EraseEnd = start_address + (last + 1) * SectorSize
  BY DEF EraseEnd
<1> HIDE DEF last
<1>4. start_address \in Nat
  BY <1>1, ChipType DEF Addresses
<1>5. /\ SectorSize * sector \in Nat /\ SectorSize * sector = sector * SectorSize
      /\ (SectorSize * sector) % SectorSize = 0
      /\ (sector + 1) * SectorSize = sector * SectorSize + SectorSize
  BY <1>2, ProductIsMultiple, GeometryAssumption
<1>6. (sector + 1) * SectorSize <= (last + 1) * SectorSize
  BY <1>1, <1>2, GeometryAssumption
<1>7. addr \in Nat /\ start_address <= addr
  BY <1>2, <1>4, <1>5
<1>8. addr % SectorSize = 0
  <2> DEFINE m == SectorSize * sector
  <2> HIDE DEF m
  <2>1. m \in Nat /\ m % SectorSize = 0 /\ addr = start_address + m
    BY <1>2, <1>5 DEF m
  <2>2. SectorSize \in Nat \ {0}
    BY GeometryAssumption
  <2>3. (start_address + m) % SectorSize = 0
    BY <1>1, <1>4, <2>1, <2>2, SumOfMultiples
  <2> QED BY <2>1, <2>3
<1>9. addr + SectorSize = start_address + (sector + 1) * SectorSize
  BY <1>2, <1>4, <1>5, GeometryAssumption
<1>10. addr + SectorSize <= EraseEnd
  <2> DEFINE a == (sector + 1) * SectorSize  b == (last + 1) * SectorSize
  <2>1. a \in Int /\ b \in Int
    BY <1>1, <1>2, GeometryAssumption
  <2> HIDE DEF a, b
  <2>2. start_address + a <= start_address + b
    BY <1>4, <1>6, <2>1 DEF a, b
  <2> QED BY <1>3, <1>9, <2>2 DEF a, b
<1>11. sector = esectors => addr + SectorSize = EraseEnd
  BY <1>2, <1>3, <1>9
<1>12. ASSUME Fitting PROVE addr \in Addresses
  BY <1>1, <1>7, <1>10, <1>12, ChipType, GeometryAssumption DEF Addresses
<1>13. ASSUME Fitting
       PROVE  \A x \in Addresses : x \in SectorOf(addr) <=> x \in addr .. addr + SectorSize - 1
  BY <1>8, <1>12, <1>13, SectorCells
<1> QED BY <1>7, <1>8, <1>9, <1>10, <1>11, <1>12, <1>13

\* A turn of the programming loop programs the page at addr, which lies in the
\* sectors that were erased.
LEMMA ProgramCells ==
  ASSUME TypeInv, Stages, Aimed, Programming, pc = "programPage"
  PROVE  /\ addr \in Nat /\ start_address <= addr /\ addr + PageSize <= EraseEnd
         /\ Fitting =>
              /\ addr \in Addresses /\ Decode(addr) = addr
              /\ \A x \in Addresses :
                   x \in PageCells(addr) <=> x \in addr .. addr + PageSize - 1
<1> DEFINE p == Programmed - ProgramOffset  size == Size(cmd.file)
           covered == EraseEnd - start_address
<1>1. /\ start_address \in Addresses /\ start_address % SectorSize = 0
      /\ EraseEnd \in Nat /\ EraseEnd % SectorSize = 0
      /\ start_address + size <= EraseEnd
      /\ ProgramEnd \in Nat /\ ProgramEnd <= FlashSize
      /\ Fitting => EraseEnd <= ProgramEnd
  BY ProgramArea
<1>2. /\ cmd.file \in Files /\ fpos \in 0 .. size /\ bytesread \in 0 .. BufferSize
      /\ bindex \in Nat /\ bindex < bytesread /\ addr \in Nat
  BY CommandType DEF TypeInv, TypeOK, PageBounds
<1>3. start_address \in Nat /\ size \in Nat \ {0}
  BY <1>1, <1>2, FileType, ChipType DEF Addresses
<1>4. addr = start_address + p /\ p % PageSize = 0 /\ ProgramOffset <= Programmed
  BY DEF Programming
<1>5. Programmed = fpos - bytesread + bindex /\ ProgramOffset \in 0 .. size
  BY DEF Programmed, Aimed
<1> HIDE DEF size
<1>6. p \in Nat /\ p < size
  BY <1>2, <1>3, <1>4, <1>5, EepromAssumption
<1>7. covered \in Nat /\ size <= covered
  BY <1>1, <1>3
<1>8. covered % PageSize = 0
  <2>1. covered % SectorSize = 0
    <3>1. SectorSize \in Nat \ {0} /\ start_address <= EraseEnd
      BY <1>1, <1>3, GeometryAssumption
    <3> QED BY <1>1, <1>3, <3>1, Difference
  <2> HIDE DEF covered
  <2> QED BY <1>7, <2>1, MultipleOfMultiple, GeometryAssumption
<1> HIDE DEF p
<1>9. p + PageSize <= covered
  <2> HIDE DEF covered
  <2>1. p < covered
    BY <1>3, <1>6, <1>7
  <2> QED BY <1>4, <1>6, <1>7, <1>8, <2>1, MultiplesApart, GeometryAssumption
<1>10. start_address <= addr /\ addr + PageSize <= EraseEnd
  BY <1>1, <1>3, <1>4, <1>6, <1>9, GeometryAssumption
<1>11. ASSUME Fitting PROVE addr \in Addresses /\ Decode(addr) = addr
  <2>1. addr < FlashSize
    BY <1>1, <1>2, <1>10, <1>11, ChipType, GeometryAssumption
  <2>2. addr \in Addresses
    BY <1>2, <2>1, ChipType DEF Addresses
  <2>3. addr % FlashSize = addr
    BY <1>2, <2>1, ChipType
  <2> QED BY <2>2, <2>3 DEF Decode
<1>12. Fitting => \A x \in Addresses :
                    x \in PageCells(addr) <=> x \in addr .. addr + PageSize - 1
  BY <1>11 DEF PageCells
<1> QED BY <1>2, <1>10, <1>11, <1>12

-----------------------------------------------------------------------------
(* The invariant is inductive *)

\* Where nothing is claimed of the loops.
LEMMA NotWriting ==
  ASSUME pc' \notin {"write", "restore", "erase", "program", "programPage"} \cup BootStages
  PROVE  WriteInv'
  BY DEF WriteInv, Fresh, Aimed, Repairing, Erasing, Programming, BootStages

\* A process begins with its variables zero.
LEMMA WriteInit == Init => WriteInv
<1> SUFFICES ASSUME Init PROVE WriteInv
  OBVIOUS
<1>1. pc = cmd.op /\ cmd.op \in {"write", "verify", "restore"}
  BY EepromAssumption DEF Init, CommandRecords
<1> QED
  BY <1>1 DEF Init, WriteInv, Fresh, Aimed, Repairing, Erasing, Programming, BootStages

\* A new run begins with the variables of a new process.
LEMMA StartSessionStep ==
  ASSUME StartSession
  PROVE  WriteInv'
<1>1. /\ pc' = cmd'.op /\ cmd'.op \in {"write", "verify", "restore"}
      /\ start_address' = 0 /\ addr' = 0 /\ sector' = 0 /\ fpos' = 0 /\ eof' = FALSE
  BY EepromAssumption DEF StartSession, ProcessGone, CommandRecords
<1> QED
  BY <1>1 DEF WriteInv, Fresh, Aimed, Repairing, Erasing, Programming, BootStages

\* A write that is not refused is aimed at its area.
LEMMA OpenForWriteStep ==
  ASSUME TypeInv, WriteInv, OpenForWrite
  PROVE  WriteInv'
<1>1. cmd.op = "write" /\ eof = FALSE /\ cmd' = cmd /\ board' = board
  BY DEF OpenForWrite, WriteInv, Fresh, runVars
<1>2. CASE pc' = "exit"
  BY <1>2, NotWriting DEF BootStages
<1>3. CASE pc' # "exit"
  <2>1. /\ ~WriteRefused(board, cmd) /\ start_address' = StartAddress(board, cmd.fallback)
        /\ fpos' = Header(cmd.file) /\ eof' = eof
        /\ pc' \in {"checkBoot", "startProgramming"}
    BY <1>3 DEF OpenForWrite, Exit, Goto
  <2>2. Header(cmd.file) \in 0 .. Size(cmd.file)
    BY <2>1, CommandType, FileType DEF TypeInv, WriteRefused
  <2>3. ProgramStart' = start_address' /\ ProgramOffset' = Header(cmd.file)
    BY <1>1, <2>1 DEF ProgramStart, ProgramOffset
  <2>4. Aimed'
    BY <1>1, <2>1, <2>2, <2>3 DEF Aimed, BootStages
  <2>5. pc' = "checkBoot" => HasBootBlock(board)'
    BY <1>1, <1>3 DEF OpenForWrite, Exit, Goto, HasBootBlock
  <2> QED
    BY <2>1, <2>4, <2>5 DEF WriteInv, Fresh, Repairing, Erasing, Programming
<1> QED BY <1>2, <1>3

\* Aimed is kept by the steps before the loops, which change none of it.
LEMMA AimKept ==
  ASSUME Aimed, pc \in BootStages, pc' \in BootStages \cup {"erase"},
         cmd' = cmd, board' = board, start_address' = start_address,
         fpos' = fpos, eof' = eof
  PROVE  Aimed'
<1>1. cmd.op = "write" /\ ProgramStart' = ProgramStart /\ ProgramOffset' = ProgramOffset
  BY DEF Aimed, ProgramStart, ProgramOffset
<1> QED BY <1>1 DEF Aimed, BootStages



\* The boot block lies in the first sector, and in the chip.
LEMMA BootCell ==
  ASSUME NEW k \in 0 .. BootSize - 1
  PROVE  k \in Addresses /\ k \in Nat /\ k < SectorSize
<1>1. PageSize <= SectorSize
  <2>1. 0 % PageSize = 0 /\ SectorSize % PageSize = 0 /\ 0 < SectorSize
        /\ PageSize \in Nat \ {0} /\ SectorSize \in Nat
    BY GeometryAssumption
  <2>2. 0 + PageSize <= SectorSize
    BY <2>1, MultiplesApart
  <2> QED BY <2>1, <2>2
<1>2. k \in Nat /\ k < SectorSize
  BY <1>1, EepromAssumption, GeometryAssumption
<1>3. k \in Addresses
  BY <1>2, ChipType, GeometryAssumption DEF Addresses
<1> QED BY <1>2, <1>3

\* Erasing makes no boot block, whether the chip does all of it or some.
LEMMA ErasingMakesNoBootBlock ==
  ASSUME TypeInv, ~BootBlockOK(flash),
         flash' = SectorErased(flash, 0) \/ flash' \in PartlyErased(0)
  PROVE  ~BootBlockOK(flash')
<1>1. PICK k \in 0 .. BootSize - 1 : flash[k] # Byte("boot", k)
  BY DEF BootBlockOK
<1>2. k \in Addresses
  BY BootCell
<1>3. flash'[k] \in {flash[k], Erased, Junk}
  <2>1. SectorErased(flash, 0)[k] \in {flash[k], Erased}
    BY <1>2 DEF SectorErased
  <2>2. CASE flash' = SectorErased(flash, 0)
    BY <2>1, <2>2
  <2>3. CASE flash' \in Partly(flash, SectorErased(flash, 0), SectorOf(0), EraseUnit)
    <3>1. flash'[k] \in {flash[k], SectorErased(flash, 0)[k], Junk}
      BY <1>2, <2>3, PartlyCells
    <3> QED BY <2>1, <3>1
  <2> QED BY <2>2, <2>3 DEF PartlyErased
<1>4. Erased # Byte("boot", k) /\ Junk # Byte("boot", k)
  BY DEF Erased, Junk, Byte
<1> QED BY <1>1, <1>3, <1>4 DEF BootBlockOK

\* The steps on the boot block keep the aim, and repair only what is broken.
LEMMA BootSteps ==
  ASSUME TypeInv, WriteInv,
         CheckBoot \/ EraseBoot \/ WriteBoot \/ RecheckBoot
  PROVE  WriteInv'
<1> USE DEF Goto, Exit, runVars, addrVars, fileVars
<1>1. pc \in BootStages
  BY DEF CheckBoot, EraseBoot, WriteBoot, RecheckBoot, BootStages
<1>2. CASE pc' = "exit"
  BY <1>2, NotWriting DEF BootStages
<1>3. CASE pc' # "exit"
  <2>1. /\ cmd' = cmd /\ board' = board /\ start_address' = start_address
        /\ fpos' = fpos /\ eof' = eof
    BY DEF CheckBoot, EraseBoot, WriteBoot, RecheckBoot
  <2>2. pc' \in BootStages
    BY <1>3 DEF CheckBoot, EraseBoot, WriteBoot, RecheckBoot, BootStages
  <2>3. Aimed'
    BY <1>1, <2>1, <2>2, AimKept DEF WriteInv
  <2>4. Repairing'
    <3>1. HasBootBlock(board)' = HasBootBlock(board)
      BY <2>1 DEF HasBootBlock
    <3>2. CASE CheckBoot
      <4>1. flash' = flash /\ HasBootBlock(board)
        BY <3>2 DEF CheckBoot, chipVars, WriteInv, Repairing
      <4>2. BootBlockOK(flash)' = BootBlockOK(flash)
        BY <4>1 DEF BootBlockOK
      <4>3. pc' \in {"startProgramming", "eraseBoot"}
            /\ (pc' = "eraseBoot" => cmd.fix /\ ~BootBlockOK(flash))
        BY <1>3, <3>2 DEF CheckBoot
      <4> QED BY <2>1, <3>1, <4>1, <4>2, <4>3 DEF Repairing
    <3>3. CASE EraseBoot
      <4>1. cmd.fix /\ HasBootBlock(board) /\ ~BootBlockOK(flash)
        BY <3>3 DEF EraseBoot, WriteInv, Repairing
      <4>2. flash' = SectorErased(flash, 0) \/ flash' \in PartlyErased(0)
        BY <3>3 DEF EraseBoot, EraseSector, Operate
      <4>3. ~BootBlockOK(flash)'
        BY <4>1, <4>2, ErasingMakesNoBootBlock
      <4> QED BY <2>1, <3>1, <4>1, <4>3 DEF Repairing
    <3>4. CASE WriteBoot \/ RecheckBoot
      BY <3>4 DEF WriteBoot, RecheckBoot, Repairing
    <3> QED BY <3>2, <3>3, <3>4
  <2> QED
    BY <2>2, <2>3, <2>4 DEF WriteInv, Fresh, Erasing, Programming, BootStages
<1> QED BY <1>2, <1>3

\* The chip that has not failed yet did what it was told.
LEMMA Undisturbed ==
  ASSUME TypeInv, NEW done, NEW failures, Operate(done, failures), faults' = 0
  PROVE  faults = 0 /\ flash' = done
  BY EepromAssumption DEF Operate, TypeInv, TypeOK

\* The erase loop begins with the first sector of the area.
LEMMA StartProgrammingStep ==
  ASSUME TypeInv, Stages, WriteInv, StartProgramming
  PROVE  WriteInv'
<1> USE DEF Goto, Exit, runVars, addrVars, fileVars, chipVars
<1>1. CASE pc' = "exit"
  BY <1>1, NotWriting DEF BootStages
<1>2. CASE pc' # "exit"
  <2>1. /\ cmd' = cmd /\ board' = board /\ start_address' = start_address
        /\ fpos' = fpos /\ eof' = eof /\ pc = "startProgramming" /\ pc' = "erase"
        /\ esectors' = LastSector(Size(cmd.file)) /\ sector' = 0 /\ addr' = start_address
    BY <1>2 DEF StartProgramming
  <2>2. Aimed'
    BY <2>1, AimKept DEF BootStages, WriteInv
  <2>3. start_address \in Nat /\ LastSector(Size(cmd.file)) \in Nat
    BY <2>1, ProgramArea, ChipType DEF WriteInv, Addresses
  <2>4. Erasing'
    <3>1. sector' <= esectors' /\ sector' * SectorSize = 0
      BY <2>1, <2>3, GeometryAssumption
    <3>2. addr' = start_address' + sector' * SectorSize
      BY <2>1, <2>3, <3>1
    <3>3. Blank(start_address, addr)'
      BY <2>1, <2>3, ChipType DEF Blank, Addresses
    <3>4. (esectors = LastSector(Size(cmd.file)))'
      BY <2>1
    <3> QED BY <3>1, <3>2, <3>3, <3>4 DEF Erasing
  <2> QED
    BY <2>1, <2>2, <2>4 DEF WriteInv, Fresh, Repairing, Programming
<1> QED BY <1>1, <1>2

\* A restore is aimed at the whole chip.
LEMMA OpenForRestoreStep ==
  ASSUME TypeInv, WriteInv, OpenForRestore
  PROVE  WriteInv'
<1> USE DEF Goto, Exit, runVars, addrVars, fileVars, chipVars
<1>1. CASE pc' = "exit"
  BY <1>1, NotWriting DEF BootStages
<1>2. CASE pc' # "exit"
  <2>1. /\ cmd' = cmd /\ board' = board /\ start_address' = 0 /\ fpos' = 0
        /\ eof' = FALSE /\ pc' = "erase" /\ esectors' = FlashSectors - 1
        /\ sector' = 0 /\ addr' = 0 /\ cmd.op = "restore" /\ Size(cmd.file) = FlashSize
    BY <1>2 DEF OpenForRestore, RestoreRefused, WriteInv, Fresh
  <2>2. Aimed'
    <3>1. ProgramStart' = 0 /\ ProgramOffset' = 0
      BY <2>1 DEF ProgramStart, ProgramOffset
    <3>2. 0 \in 0 .. Size(cmd.file)
      BY <2>1, ChipType
    <3> QED BY <2>1, <3>1, <3>2 DEF Aimed, BootStages
  <2>3. LastSector(Size(cmd.file)) = FlashSectors - 1
    <3>1. ((FlashSectors - 1) * SectorSize + (SectorSize - 1)) \div SectorSize = FlashSectors - 1
      <4>1. FlashSectors - 1 \in Nat /\ SectorSize - 1 \in 0 .. SectorSize - 1
        BY GeometryAssumption
      <4> QED BY <4>1, Quotient, GeometryAssumption
    <3>2. FlashSize - 1 = (FlashSectors - 1) * SectorSize + (SectorSize - 1)
      BY GeometryAssumption DEF FlashSize
    <3> QED BY <2>1, <3>1, <3>2 DEF LastSector
  <2>4. Erasing'
    <3>1. sector' <= esectors' /\ sector' * SectorSize = 0
      BY <2>1, GeometryAssumption
    <3>2. addr' = start_address' + sector' * SectorSize
      BY <2>1, <3>1
    <3>3. Blank(start_address, addr)'
      BY <2>1, ChipType DEF Blank, Addresses
    <3>4. (esectors = LastSector(Size(cmd.file)))'
      BY <2>1, <2>3
    <3> QED BY <3>1, <3>2, <3>3, <3>4 DEF Erasing
  <2> QED
    BY <2>1, <2>2, <2>4 DEF WriteInv, Fresh, Repairing, Programming
<1> QED BY <1>1, <1>2

\* One more sector is blank, and after the last one the whole area is.
LEMMA EraseNextStep ==
  ASSUME TypeInv, Stages, WriteInv, EraseNext
  PROVE  WriteInv'
<1> DEFINE last == LastSector(Size(cmd.file))
<1>1. /\ cmd' = cmd /\ board' = board /\ start_address' = start_address
      /\ fpos' = fpos /\ eof' = eof /\ bytesread' = bytesread /\ bindex' = bindex
      /\ esectors' = esectors /\ pc = "erase" /\ sector' = sector + 1
      /\ \/ sector < esectors /\ addr' = addr + SectorSize /\ pc' = "erase"
         \/ ~(sector < esectors) /\ addr' = start_address /\ pc' = "program"
  BY DEF EraseNext, MoreToErase, Goto, runVars, fileVars
<1>2. Aimed /\ Erasing
  BY DEF WriteInv
<1>3. /\ addr \in Nat /\ start_address <= addr
      /\ sector = esectors => addr + SectorSize = EraseEnd
      /\ addr + SectorSize = start_address + (sector + 1) * SectorSize
      /\ Fitting => \A x \in Addresses :
                      x \in SectorOf(addr) <=> x \in addr .. addr + SectorSize - 1
  BY <1>1, <1>2, EraseCells
<1>4. /\ esectors = last /\ sector <= esectors /\ sector \in Nat
      /\ Blank(start_address, addr) /\ start_address \in Nat /\ esectors \in Nat
  BY <1>1, <1>2, ChipType DEF Erasing, TypeInv, TypeOK, Addresses
<1>5. ASSUME faults' = 0, Fitting, NEW x \in Addresses,
             start_address <= x, x < addr + SectorSize
      PROVE  flash'[x] = Erased
  <2>1. faults = 0 /\ flash' = SectorErased(flash, addr)
    BY <1>5, Undisturbed DEF EraseNext, EraseSector
  <2>2. CASE x < addr
    <3>1. flash[x] = Erased
      BY <1>4, <1>5, <2>1, <2>2 DEF Blank
    <3> QED BY <2>1, <3>1 DEF SectorErased
  <2>3. CASE ~(x < addr)
    <3>1. x \in SectorOf(addr)
      BY <1>3, <1>5, <2>3, ChipType, GeometryAssumption DEF Addresses
    <3> QED BY <2>1, <3>1 DEF SectorErased
  <2> QED BY <2>2, <2>3
<1>6. Fitting' = Fitting
  BY <1>1 DEF Fitting, Fits
<1>7. ProgramStart' = ProgramStart /\ ProgramOffset' = ProgramOffset /\ EraseEnd' = EraseEnd
  BY <1>1 DEF ProgramStart, ProgramOffset, EraseEnd
<1>8. /\ start_address = ProgramStart /\ ProgramOffset \in 0 .. Size(cmd.file)
      /\ cmd.op = "restore" => Size(cmd.file) = FlashSize
      /\ fpos = ProgramOffset /\ eof = FALSE
  BY <1>1, <1>2 DEF Aimed
<1>9. Aimed'
  BY <1>1, <1>7, <1>8 DEF Aimed, BootStages
<1> HIDE DEF last
<1>10. CASE sector < esectors
  <2>1. pc' = "erase" /\ addr' = addr + SectorSize
    BY <1>1, <1>10
  <2>2. sector' <= esectors'
    BY <1>1, <1>4, <1>10
  <2>3. addr' = start_address' + sector' * SectorSize
    BY <1>1, <1>3, <2>1
  <2>4. Blank(start_address, addr)'
    BY <1>1, <1>5, <1>6, <2>1 DEF Blank
  <2>5. (esectors = LastSector(Size(cmd.file)))'
    BY <1>1, <1>4 DEF last
  <2>6. Erasing'
    BY <2>2, <2>3, <2>4, <2>5 DEF Erasing
  <2> QED
    BY <2>1, <2>6, <1>9 DEF WriteInv, Fresh, Repairing, Programming, BootStages
<1>11. CASE ~(sector < esectors)
  <2>1. pc' = "program" /\ addr' = start_address /\ sector = esectors
    BY <1>1, <1>4, <1>11
  <2>2. Programmed' = ProgramOffset
    BY <1>1, <1>8, <2>1 DEF Programmed
  <2>3. Blank(addr, EraseEnd)'
    BY <1>3, <1>5, <1>6, <1>7, <2>1 DEF Blank
  <2>4. (ProgramOffset - ProgramOffset) % PageSize = 0 /\ ProgramOffset - ProgramOffset = 0
        /\ ProgramOffset <= ProgramOffset
    BY <1>8, GeometryAssumption
  <2>5. addr' = start_address' + (Programmed' - ProgramOffset')
    BY <1>1, <1>4, <1>7, <2>1, <2>2, <2>4
  <2>6. Programming'
    BY <1>1, <1>7, <1>8, <2>1, <2>2, <2>3, <2>4, <2>5 DEF Programming
  <2> QED
    BY <2>1, <2>6, <1>9 DEF WriteInv, Fresh, Repairing, Erasing, BootStages
<1> QED BY <1>10, <1>11

\* A read puts the cursor at the beginning of the buffer: addr is in step.
LEMMA ReadToProgramStep ==
  ASSUME TypeInv, WriteInv, ReadToProgram
  PROVE  WriteInv'
<1> DEFINE f == cmd.file  n == Available(f, fpos)
<1>1. /\ f \in Files /\ fpos \in 0 .. Size(f) /\ BufferSize \in Nat \ {0}
      /\ Size(f) \in Nat
  BY CommandType, FileType, EepromAssumption DEF TypeInv, TypeOK
<1>2. /\ n \in 0 .. BufferSize /\ fpos + n \in 0 .. Size(f)
      /\ n < BufferSize => fpos + n = Size(f)
  BY <1>1, AvailableType
<1>3. /\ cmd' = cmd /\ board' = board /\ flash' = flash /\ faults' = faults
      /\ start_address' = start_address /\ addr' = addr
      /\ fpos' = fpos + n /\ eof' = (n < BufferSize) /\ bytesread' = n
      /\ bindex' = 0 /\ pc = "program" /\ ~eof
      /\ pc' = IF n > 0 THEN "programPage" ELSE "program"
  BY DEF ReadToProgram, Fread, Goto, runVars, chipVars, addrVars
<1>4. ProgramStart' = ProgramStart /\ ProgramOffset' = ProgramOffset /\ EraseEnd' = EraseEnd
      /\ Fitting' = Fitting
  BY <1>3 DEF ProgramStart, ProgramOffset, EraseEnd, Fitting, Fits
<1>5. /\ ProgramOffset <= fpos /\ addr = start_address + (fpos - ProgramOffset)
      /\ (fpos - ProgramOffset) % PageSize = 0 /\ Blank(addr, EraseEnd)
  BY <1>3 DEF WriteInv, Programming, Programmed
<1>6. /\ start_address = ProgramStart /\ ProgramOffset \in 0 .. Size(f)
      /\ cmd.op = "restore" => Size(f) = FlashSize
  BY <1>3 DEF WriteInv, Aimed
<1>7. Aimed'
  BY <1>3, <1>4, <1>6 DEF Aimed, BootStages
<1> HIDE DEF f, n
<1>8. Programmed' = fpos
  BY <1>1, <1>2, <1>3 DEF Programmed
<1>9. eof' => fpos' = Size(f)
  BY <1>2, <1>3
<1>10. pc' = "programPage" => fpos' - bytesread' = fpos
  BY <1>1, <1>2, <1>3
<1>11. ~eof' => bytesread' = BufferSize
  <2>1. ~eof' => ~(n < BufferSize)
    BY <1>3
  <2>2. ~(n < BufferSize) => n = BufferSize
    BY <1>1, <1>2
  <2> QED BY <2>1, <2>2, <1>3
<1>12. Blank(addr, EraseEnd)'
  BY <1>3, <1>4, <1>5 DEF Blank
<1>13. f' = f
  BY <1>3 DEF f
<1>14. (eof => fpos = Size(cmd.file))'
  BY <1>9, <1>13 DEF f
<1>15. Programming'
  BY <1>3, <1>4, <1>5, <1>8, <1>10, <1>11, <1>12, <1>14 DEF Programming
<1>16. pc' \in {"program", "programPage"}
  BY <1>3
<1> QED
  BY <1>7, <1>15, <1>16 DEF WriteInv, Fresh, Repairing, Erasing, BootStages

\* A page is programmed, and what follows it is as blank as before.
LEMMA ProgramNextStep ==
  ASSUME TypeInv, Stages, WriteInv, ProgramNext
  PROVE  WriteInv'
<1> DEFINE f == cmd.file  base == fpos - bytesread  offset == ProgramOffset
<1>1. /\ f \in Files /\ fpos \in Nat /\ bytesread \in 0 .. BufferSize
      /\ bindex \in Nat /\ addr \in Nat /\ bindex % PageSize = 0
      /\ start_address \in Addresses /\ BufferSize \in Nat \ {0}
      /\ PageSize \in Nat \ {0} /\ Size(f) \in Nat
  BY CommandType, FileType, EepromAssumption, GeometryAssumption DEF TypeInv, TypeOK
<1>2. pc = "programPage" /\ bindex < bytesread
  BY DEF ProgramNext, TypeInv, PageBounds
<1>3. bindex + PageSize <= BufferSize
  BY <1>1, <1>2, BufferPageType DEF TypeInv, TypeOK, Buffers
<1>4. /\ cmd' = cmd /\ board' = board /\ start_address' = start_address
      /\ fpos' = fpos /\ eof' = eof /\ bytesread' = bytesread
      /\ bindex' = bindex + PageSize /\ addr' = addr + PageSize
      /\ pc' = IF bindex + PageSize < bytesread THEN "programPage" ELSE "program"
  BY DEF ProgramNext, Goto, runVars
<1>5. ProgramStart' = ProgramStart /\ offset' = offset /\ EraseEnd' = EraseEnd
      /\ Fitting' = Fitting
  BY <1>4 DEF ProgramStart, ProgramOffset, EraseEnd, Fitting, Fits
<1>6. /\ start_address = ProgramStart /\ offset \in 0 .. Size(f)
      /\ cmd.op = "restore" => Size(f) = FlashSize
  BY <1>2 DEF WriteInv, Aimed
<1>7. /\ addr = start_address + (base + bindex - offset)
      /\ (base + bindex - offset) % PageSize = 0
      /\ eof => fpos = Size(f)
      /\ offset <= base
      /\ ~eof => bytesread = BufferSize
      /\ Blank(addr, EraseEnd)
  <2>1. Programmed = base + bindex /\ Programming
    BY <1>2 DEF WriteInv, Programmed
  <2>2. addr = start_address + (Programmed - offset) /\ (Programmed - offset) % PageSize = 0
    BY <1>2, <2>1 DEF Programming
  <2>3. offset <= base /\ Blank(addr, EraseEnd)
    BY <1>2, <2>1 DEF Programming
  <2>4. (eof => fpos = Size(f)) /\ (~eof => bytesread = BufferSize)
    BY <1>2, <2>1 DEF Programming
  <2>5. /\ addr = start_address + (base + bindex - offset)
        /\ (base + bindex - offset) % PageSize = 0
    <3>1. base \in Int /\ offset \in Int
      BY <1>1, <1>6
    <3> HIDE DEF base, offset
    <3>2. (base + bindex) - offset = base + bindex - offset
      BY <1>1, <3>1
    <3> QED BY <2>1, <2>2, <3>2
  <2> HIDE DEF base, offset, f
  <2> QED BY <2>3, <2>4, <2>5
<1>8. Aimed'
  BY <1>4, <1>5, <1>6 DEF Aimed, BootStages
<1>9. ASSUME faults' = 0, Fitting, NEW x \in Addresses, addr + PageSize <= x, x < EraseEnd
      PROVE  flash'[x] = Erased
  <2>1. faults = 0 /\ flash' = PageProgrammed(flash, addr, BufferPage(bindex))
    BY <1>9, Undisturbed DEF ProgramNext, WritePage
  <2>2. addr <= x
    BY <1>1, <1>9, ChipType DEF Addresses
  <2>3. flash[x] = Erased
    BY <1>7, <1>9, <2>1, <2>2 DEF Blank
  <2>4. x \notin PageCells(addr)
    <3>1. x \in PageCells(addr) <=> x \in addr .. addr + PageSize - 1
      BY <1>2, <1>9, ProgramCells DEF WriteInv
    <3> QED BY <1>1, <1>9, <3>1, ChipType DEF Addresses
  <2> QED BY <2>1, <2>3, <2>4 DEF PageProgrammed
<1>10. Blank(addr, EraseEnd)'
  BY <1>4, <1>5, <1>9 DEF Blank
<1> HIDE DEF f, offset
<1>11. start_address \in Nat
  BY <1>1, ChipType DEF Addresses
<1>12. fpos = base + bytesread /\ base \in Int
  BY <1>1
<1>13. f' = f /\ base' = base
  BY <1>4 DEF f
<1>14. Programmed' = IF bindex + PageSize < bytesread THEN base + (bindex + PageSize) ELSE fpos
  BY <1>4 DEF Programmed
<1> HIDE DEF base
<1>15. ~eof \/ pc' = "programPage" => Programmed' = base + (bindex + PageSize)
  BY <1>1, <1>3, <1>4, <1>7, <1>12, <1>14
<1>16. base + (bindex + PageSize) - offset = (base + bindex - offset) + PageSize
       /\ base + bindex - offset \in Nat
  BY <1>1, <1>6, <1>7, <1>12
<1>17. ((base + bindex - offset) + PageSize) % PageSize = 0
  <2> DEFINE m == base + bindex - offset
  <2>1. m \in Nat /\ m % PageSize = 0
    BY <1>7, <1>16
  <2> HIDE DEF m
  <2>2. (m + PageSize) % PageSize = 0
    BY <1>1, <2>1, NextMultiple
  <2> QED BY <2>2 DEF m
<1>18. addr + PageSize = start_address + ((base + bindex - offset) + PageSize)
  BY <1>1, <1>7, <1>11, <1>16
<1>19. ASSUME ~eof \/ pc' = "programPage"
       PROVE  /\ addr' = start_address' + (Programmed' - offset')
              /\ (Programmed' - offset') % PageSize = 0
  <2>0. Programmed' = base + (bindex + PageSize) /\ offset' = offset
    BY <1>5, <1>15, <1>19
  <2>1. Programmed' - offset' = (base + bindex - offset) + PageSize
    BY <2>0, <1>1, <1>6, <1>12
  <2> QED BY <1>4, <1>17, <1>18, <2>1
<1>20. offset <= Programmed'
  BY <1>1, <1>6, <1>7, <1>12, <1>14
<1>21. Programming'
  BY <1>4, <1>5, <1>7, <1>10, <1>13, <1>19, <1>20 DEF Programming, f, offset, base
<1>22. pc' \in {"program", "programPage"}
  BY <1>4
<1> QED
  BY <1>8, <1>21, <1>22 DEF WriteInv, Fresh, Repairing, Erasing, BootStages

\* Every step keeps the invariant of writing.
LEMMA WriteNext == TypeInv /\ Stages /\ WriteInv /\ [Next]_vars => WriteInv'
<1> SUFFICES ASSUME TypeInv, Stages, WriteInv, [Next]_vars PROVE WriteInv'
  OBVIOUS
<1>1. CASE StartSession
  BY <1>1, StartSessionStep
<1>2. CASE Crash
  BY <1>2, NotWriting DEF Crash, BootStages
<1>3. CASE OpenForWrite
  BY <1>3, OpenForWriteStep
<1>4. CASE CheckBoot \/ EraseBoot \/ WriteBoot \/ RecheckBoot
  BY <1>4, BootSteps
<1>5. CASE StartProgramming
  BY <1>5, StartProgrammingStep
<1>6. CASE EraseNext
  BY <1>6, EraseNextStep
<1>7. CASE ReadToProgram
  BY <1>7, ReadToProgramStep
<1>8. CASE ProgramNext
  BY <1>8, ProgramNextStep
<1>9. CASE OpenForRestore
  BY <1>9, OpenForRestoreStep
<1>10. CASE ProgrammingDone \/ OpenForVerify \/ ReadToCompare \/ CompareNext
            \/ VerificationDone \/ Reload
  <2>1. pc' \in {"exit", "verify", "reload", "compare", "comparePage"}
    BY <1>10 DEF ProgrammingDone, AfterProgramming, OpenForVerify, ReadToCompare,
       CompareNext, VerificationDone, AfterVerification, Reload, Goto, Exit
  <2> QED BY <2>1, NotWriting DEF BootStages
<1>11. CASE UNCHANGED vars
  BY <1>11 DEF vars, chipVars, runVars, addrVars, fileVars, WriteInv, Fresh, Aimed,
     Repairing, Erasing, Programming, Blank, Fitting, Fits, ProgramStart,
     ProgramOffset, EraseEnd, Programmed, BootBlockOK
<1> QED
  BY <1>1, <1>2, <1>3, <1>4, <1>5, <1>6, <1>7, <1>8, <1>9, <1>10, <1>11 DEF Next, Step

\* No page is programmed over bytes that an erase has not cleared, whatever an
\* earlier run left, as long as the chip does what it is told
\* (start_programming and the programming loops, eeprom.c:127, 150, 321-328).
THEOREM ProgramsErased == Spec => []ErasedBeforeProgrammed
<1>1. TypeInv /\ Stages /\ WriteInv => ErasedBeforeProgrammed
  <2> SUFFICES ASSUME TypeInv, Stages, WriteInv, pc = "programPage", faults = 0,
                      Fitting, NEW x \in PageCells(addr)
               PROVE  flash[x] = Erased
    BY DEF ErasedBeforeProgrammed, Fitting
  <2>1. x \in Addresses
    BY DEF PageCells
  <2>2. x \in addr .. addr + PageSize - 1 /\ addr + PageSize <= EraseEnd /\ addr \in Nat
    BY <2>1, ProgramCells DEF WriteInv
  <2>3. EraseEnd \in Nat
    BY ProgramArea DEF WriteInv
  <2>4. addr <= x /\ x < EraseEnd
    BY <2>2, <2>3, GeometryAssumption
  <2> QED BY <2>1, <2>4 DEF WriteInv, Programming, Blank
<1>2. Init => TypeInv /\ Stages /\ WriteInv
  BY MainInit, WriteInit DEF IInv
<1>3. TypeInv /\ Stages /\ WriteInv /\ [Next]_vars => (TypeInv /\ Stages /\ WriteInv)'
  BY TypeNext, StagesNext, WriteNext
<1> QED BY <1>1, <1>2, <1>3, PTL DEF Spec

-----------------------------------------------------------------------------
(* What a step can change *)

\* A cell changes only under an erase or a program operation, done, failing or
\* cut short.
LEMMA ChangedCells ==
  ASSUME TypeInv, [Next]_vars, NEW x \in Addresses, flash'[x] # flash[x]
  PROVE  \/ pc = "eraseBoot" /\ x \in SectorOf(0)
         \/ pc = "writeBoot" /\ x \in PageCells(0)
         \/ pc = "erase" /\ x \in SectorOf(addr)
         \/ pc = "programPage" /\ x \in PageCells(addr)
<1>1. ASSUME NEW a
      PROVE  /\ flash' \in PartlyErased(a) => x \in SectorOf(a)
             /\ \A page : flash' \in PartlyProgrammed(a, page) => x \in PageCells(a)
  <2>1. ASSUME NEW done, NEW cells, NEW unit, flash' \in Partly(flash, done, cells, unit)
        PROVE  x \in cells
    BY <2>1, PartlyCells
  <2> QED BY <2>1 DEF PartlyErased, PartlyProgrammed
<1>2. ASSUME NEW a, EraseSector(a) PROVE x \in SectorOf(a)
  <2>1. CASE flash' = SectorErased(flash, a)
    BY <2>1 DEF SectorErased
  <2>2. CASE flash' \in PartlyErased(a)
    BY <2>2, <1>1
  <2> QED BY <1>2, <2>1, <2>2 DEF EraseSector, Operate
<1>3. ASSUME NEW a, NEW page, WritePage(a, page) PROVE x \in PageCells(a)
  <2>1. CASE flash' = PageProgrammed(flash, a, page)
    BY <2>1 DEF PageProgrammed
  <2>2. CASE flash' \in PartlyProgrammed(a, page)
    BY <2>2, <1>1
  <2> QED BY <1>3, <2>1, <2>2 DEF WritePage, Operate
<1>4. flash' # flash
  OBVIOUS
<1>5. CASE EraseBoot
  BY <1>5, <1>2 DEF EraseBoot
<1>6. CASE WriteBoot
  BY <1>6, <1>3 DEF WriteBoot
<1>7. CASE EraseNext
  BY <1>7, <1>2 DEF EraseNext
<1>8. CASE ProgramNext
  BY <1>8, <1>3 DEF ProgramNext
<1>9. CASE Crash
  <2>1. CASE pc = "eraseBoot"
    BY <1>1, <1>9, <2>1 DEF Crash, InFlight
  <2>2. CASE pc = "erase"
    BY <1>1, <1>9, <2>2 DEF Crash, InFlight
  <2>3. CASE pc = "writeBoot"
    BY <1>1, <1>9, <2>3 DEF Crash, InFlight
  <2>4. CASE pc = "programPage"
    BY <1>1, <1>9, <2>4 DEF Crash, InFlight
  <2>5. CASE pc \notin {"eraseBoot", "erase", "writeBoot", "programPage"}
    BY <1>4, <1>9, <2>5 DEF Crash, InFlight
  <2> QED BY <2>1, <2>2, <2>3, <2>4, <2>5
<1>10. CASE StartSession \/ OpenForWrite \/ CheckBoot \/ RecheckBoot \/ StartProgramming
            \/ ReadToProgram \/ ProgrammingDone
  BY <1>4, <1>10 DEF StartSession, OpenForWrite, CheckBoot, RecheckBoot,
     StartProgramming, ReadToProgram, ProgrammingDone, chipVars
<1>11. CASE OpenForVerify \/ ReadToCompare \/ CompareNext \/ VerificationDone
            \/ OpenForRestore \/ Reload
  BY <1>4, <1>11 DEF OpenForVerify, ReadToCompare, CompareNext, VerificationDone,
     OpenForRestore, Reload, chipVars
<1>12. CASE UNCHANGED vars
  BY <1>4, <1>12 DEF vars, chipVars
<1> QED
  BY <1>5, <1>6, <1>7, <1>8, <1>9, <1>10, <1>11, <1>12 DEF Next, Step

\* The cells of the boot block's sector and page lie in the first sector.
LEMMA FirstSector ==
  ASSUME NEW x \in Addresses, x \in SectorOf(0) \/ x \in PageCells(0)
  PROVE  x < SectorSize
<1>1. 0 \in Addresses /\ 0 % SectorSize = 0 /\ Decode(0) = 0 /\ x \in Nat
  BY ChipType, GeometryAssumption DEF Addresses, Decode
<1>2. CASE x \in SectorOf(0)
  <2>1. x \in 0 .. 0 + SectorSize - 1
    BY <1>1, <1>2, SectorCells
  <2> QED BY <2>1, GeometryAssumption
<1>3. CASE x \in PageCells(0)
  <2>1. x \in 0 .. 0 + PageSize - 1
    BY <1>1, <1>3 DEF PageCells
  <2>2. 0 + PageSize <= SectorSize
    <3>1. 0 % PageSize = 0 /\ SectorSize % PageSize = 0 /\ 0 < SectorSize
          /\ PageSize \in Nat \ {0} /\ SectorSize \in Nat
      BY GeometryAssumption
    <3> QED BY <3>1, MultiplesApart
  <2> QED BY <2>1, <2>2, GeometryAssumption
<1> QED BY <1>2, <1>3

\* A step of a write that fits changes its area, or the broken boot sector.
LEMMA ConfinedStep ==
  ASSUME TypeInv, Stages, WriteInv, [Next]_vars, cmd.op = "write", Fits,
         NEW x \in Addresses \ Area, flash'[x] # flash[x]
  PROVE  cmd.fix /\ ~BootBlockOK(flash) /\ HasBootBlock(board) /\ x < SectorSize
<1>1. x \in Addresses /\ x \in Nat
  BY ChipType DEF Addresses
<1>2. CASE pc \in {"eraseBoot", "writeBoot"} /\ (x \in SectorOf(0) \/ x \in PageCells(0))
  <2>1. cmd.fix /\ HasBootBlock(board) /\ ~BootBlockOK(flash)
    BY <1>2 DEF WriteInv, Repairing
  <2> QED BY <1>1, <1>2, <2>1, FirstSector
<1>3. Fitting
  BY DEF Fitting
<1>4. ASSUME pc \in {"erase", "programPage"}
      PROVE  /\ start_address = StartAddress(board, cmd.fallback) /\ start_address \in Nat
             /\ ProgramEnd = AreaEnd(board, cmd.fallback)
             /\ EraseEnd \in Nat /\ ProgramEnd \in Nat /\ EraseEnd <= ProgramEnd
  <2>1. start_address = StartAddress(board, cmd.fallback)
    BY <1>4 DEF WriteInv, Aimed, ProgramStart
  <2>2. /\ start_address \in Addresses /\ EraseEnd \in Nat /\ ProgramEnd \in Nat
        /\ EraseEnd <= ProgramEnd
    BY <1>3, <1>4, ProgramArea DEF WriteInv
  <2> QED BY <2>1, <2>2, ChipType DEF ProgramEnd, Addresses
<1>5. CASE pc = "erase" /\ x \in SectorOf(addr)
  <2>1. /\ addr \in Nat /\ start_address <= addr /\ addr + SectorSize <= EraseEnd
        /\ x \in addr .. addr + SectorSize - 1
    BY <1>1, <1>3, <1>5, EraseCells DEF WriteInv
  <2>2. start_address <= x /\ x < ProgramEnd
    BY <1>1, <1>4, <1>5, <2>1, GeometryAssumption
  <2>3. x \in Area
    BY <1>1, <1>4, <1>5, <2>2 DEF Area
  <2> QED BY <2>3
<1>6. CASE pc = "programPage" /\ x \in PageCells(addr)
  <2>1. /\ addr \in Nat /\ start_address <= addr /\ addr + PageSize <= EraseEnd
        /\ x \in addr .. addr + PageSize - 1
    BY <1>1, <1>3, <1>6, ProgramCells DEF WriteInv
  <2>2. start_address <= x /\ x < ProgramEnd
    BY <1>1, <1>4, <1>6, <2>1, GeometryAssumption
  <2>3. x \in Area
    BY <1>1, <1>4, <1>6, <2>2 DEF Area
  <2> QED BY <2>3
<1> QED BY <1>1, <1>2, <1>5, <1>6, ChangedCells

WritingInv == TypeInv /\ Stages /\ WriteInv

\* The three invariants of the writing half together.
LEMMA WritingInvariant == Spec => []WritingInv
<1>1. Init => WritingInv
  BY MainInit, WriteInit DEF IInv, WritingInv
<1>2. WritingInv /\ [Next]_vars => WritingInv'
  BY TypeNext, StagesNext, WriteNext DEF WritingInv
<1> QED BY <1>1, <1>2, PTL DEF Spec

\* A write of a file that fits, wherever it is cut short and whatever the chip
\* fails to do, changes nothing outside its own area but a boot sector that is
\* being repaired (start_programming and eeprom_write, eeprom.c:121-164, 293-331).
THEOREM WriteIsConfined == Spec => WriteConfined
<1>1. WritingInv /\ [Next]_vars =>
        [cmd.op = "write" /\ Fits =>
           \A x \in Addresses \ Area :
             flash'[x] # flash[x] =>
               cmd.fix /\ ~BootBlockOK(flash) /\ HasBootBlock(board) /\ x < SectorSize]_vars
  BY ConfinedStep DEF WritingInv
<1> QED BY <1>1, WritingInvariant, PTL DEF Spec, WriteConfined

\* A valid boot block is there after every step and every crash of a write
\* (check_boot before write_boot, eeprom.c:293-310).
THEOREM BootBlockIsKept == Spec => ValidBootKept
<1>1. ASSUME WritingInv, [Next]_vars, cmd.op = "write", Fits, HasBootBlock(board),
             BootBlockOK(flash)
      PROVE  BootBlockOK(flash')
  <2>1. SUFFICES ASSUME NEW k \in 0 .. BootSize - 1 PROVE flash'[k] = flash[k]
    BY <1>1 DEF BootBlockOK
  <2>3. k \in Nat /\ k < SectorSize
    BY BootCell
  <2>4. k \in Addresses
    BY BootCell
  <2>5. SectorSize <= StartAddress(board, cmd.fallback)
    <3>1. board.fallback /\ board.fpga = "xilinx"
      BY <1>1 DEF HasBootBlock
    <3>2. SectorSize <= UserSpace
      <4>1. PICK h \in Nat : FlashSectors = 2 * h
        BY GeometryAssumption, EepromAssumption, MultipleIsProduct
      <4>2. h >= 1
        BY <4>1, GeometryAssumption
      <4> DEFINE m == h * SectorSize
      <4>3. m \in Nat /\ m >= 1 * SectorSize
        BY <4>2, GeometryAssumption
      <4>4. FlashSize = 2 * m
        BY <4>1, GeometryAssumption DEF FlashSize
      <4> HIDE DEF m
      <4> QED BY <4>3, <4>4, GeometryAssumption DEF UserSpace
    <3> QED BY <3>1, <3>2, GeometryAssumption DEF StartAddress
  <2>6. k \notin Area
    <3>1. StartAddress(board, cmd.fallback) \in Nat
      BY <1>1, CommandType, StartAddressType, ChipType
         DEF WritingInv, TypeInv, TypeOK, Addresses
    <3> QED BY <2>3, <2>5, <3>1, GeometryAssumption DEF Area
  <2> QED BY <1>1, <2>4, <2>6, ConfinedStep DEF WritingInv
<1>2. WritingInv /\ [Next]_vars =>
        [cmd.op = "write" /\ Fits /\ HasBootBlock(board) /\ BootBlockOK(flash)
           => BootBlockOK(flash')]_vars
  BY <1>1
<1> QED BY <1>2, WritingInvariant, PTL DEF Spec, ValidBootKept

-----------------------------------------------------------------------------
(* What is in the flash behind the end of the file *)

\* A write or a restore that is compared with what it programmed.
Plain ==
  /\ cmd.op # "verify"
  /\ cmd.op = "write" => Fits /\ (IsDump(cmd) => Header(cmd.file) = 0)

\* The bytes of the file that are programmed, and the byte that the i-th place
\* of the area gets: past the end of the file what the read before left in the
\* buffer, or, with a file of one read, what was in it at first.
FileLength == Size(cmd.file) - ProgramOffset
Padded(i) ==
  IF i < FileLength THEN Byte(cmd.file, ProgramOffset + i)
  ELSE IF FileLength < BufferSize THEN file_buffer[i]
  ELSE Byte(cmd.file, ProgramOffset + i - BufferSize)

\* The pages that begin before place lim are programmed to their last byte.
StoredTo(lim) ==
  \A c \in Nat : c % PageSize = 0 /\ c < lim =>
    \A k \in 0 .. PageSize - 1 : flash[ProgramStart + (c + k)] = Padded(c + k)

\* Before a read at position pos: the first read, or a full one before it.
BufferBefore(pos) ==
  \/ pos = ProgramOffset
  \/ /\ pos - ProgramOffset >= BufferSize
     /\ \A j \in BufferIndex : file_buffer[j] = Byte(cmd.file, pos - BufferSize + j)

\* After a read of n bytes at position pos.
BufferAfter(pos, n) ==
  /\ \A j \in 0 .. n - 1 : file_buffer[j] = Byte(cmd.file, pos + j)
  /\ \/ pos = ProgramOffset
     \/ /\ pos - ProgramOffset >= BufferSize
        /\ \A j \in n .. BufferSize - 1 :
             file_buffer[j] = Byte(cmd.file, pos - BufferSize + j)

\* The verification that follows: its file and, like the programming, whole pages.
Checking ==
  pc \in {"verify", "compare", "comparePage"} /\ Plain =>
    /\ ProgramOffset \in 0 .. Size(cmd.file)
    /\ cmd.op = "restore" => Size(cmd.file) = FlashSize
    /\ pc = "comparePage" \/ (pc = "compare" /\ ~eof) =>
         (Compared - ProgramOffset) % PageSize = 0

Buffered ==
  Plain =>
    /\ pc \in {"programPage", "comparePage"} => BufferAfter(fpos - bytesread, bytesread)
    /\ pc \in {"program", "compare"} /\ ~eof => BufferBefore(fpos)

Stored ==
  faults = 0 /\ Plain =>
    /\ pc \in {"program", "programPage"} => StoredTo(Programmed - ProgramOffset)
    /\ pc \in {"verify", "compare", "comparePage"} => StoredTo(FileLength)

CheckInv == Checking /\ Buffered /\ Stored

\* Writing and comparing agree on where the area and the file begin.
LEMMA SamePlace ==
  ASSUME TypeInv, Plain, cmd.op = "restore" => Size(cmd.file) = FlashSize
  PROVE  VerifyStart(board, cmd) = ProgramStart /\ VerifyOffset(cmd.file) = ProgramOffset
<1>1. cmd.op \in {"write", "restore"} /\ cmd.file \in Files
      /\ board \in Boards /\ cmd.fallback \in BOOLEAN
  BY CommandType DEF Plain, TypeInv, TypeOK
<1>2. CASE cmd.op = "restore"
  BY <1>2 DEF VerifyStart, VerifyOffset, WholeFlash, ProgramStart, ProgramOffset
<1>3. CASE cmd.op = "write" /\ ~WholeFlash(cmd.file)
  BY <1>3 DEF VerifyStart, VerifyOffset, ProgramStart, ProgramOffset
<1>4. CASE cmd.op = "write" /\ WholeFlash(cmd.file)
  <2>1. Fits /\ Header(cmd.file) = 0 /\ Size(cmd.file) = FlashSize
    BY <1>4 DEF Plain, IsDump, WholeFlash
  <2>2. AreaEnd(board, cmd.fallback) <= FlashSize /\ AreaEnd(board, cmd.fallback) \in Nat
    BY <1>1, AreaAligned
  <2>3. StartAddress(board, cmd.fallback) \in Nat
    BY <1>1, StartAddressType, ChipType DEF Addresses
  <2>4. StartAddress(board, cmd.fallback) = 0
    BY <2>1, <2>2, <2>3, ChipType DEF Fits
  <2> QED BY <1>4, <2>1, <2>4 DEF VerifyStart, VerifyOffset, ProgramStart, ProgramOffset
<1> QED BY <1>1, <1>2, <1>3, <1>4

\* A page that begins within the file lies in the flash.
LEMMA PlainArea ==
  ASSUME TypeInv, Plain, cmd.op = "restore" => Size(cmd.file) = FlashSize,
         NEW p \in Nat, p % PageSize = 0, p < Size(cmd.file)
  PROVE  /\ ProgramStart \in Nat
         /\ \A k \in 0 .. PageSize - 1 :
              ProgramStart + (p + k) \in Addresses
<1>1. /\ cmd.op \in {"write", "restore"} /\ cmd.file \in Files
      /\ board \in Boards /\ cmd.fallback \in BOOLEAN
      /\ SectorSize \in Nat \ {0} /\ PageSize \in Nat \ {0}
  BY CommandType, GeometryAssumption DEF Plain, TypeInv, TypeOK
<1>2. Size(cmd.file) \in Nat \ {0}
  BY <1>1, FileType
<1>3. FlashSize % SectorSize = 0 /\ FlashSize \in Nat /\ 0 % SectorSize = 0
  <2>1. (SectorSize * FlashSectors) % SectorSize = 0
    BY ProductIsMultiple, GeometryAssumption
  <2>2. FlashSize = SectorSize * FlashSectors
    BY GeometryAssumption DEF FlashSize
  <2> QED BY <2>1, <2>2, ChipType, GeometryAssumption
<1>4. ProgramStart \in Nat /\ ProgramStart % SectorSize = 0
  BY <1>1, <1>3, AreaAligned, StartAddressType, ChipType DEF ProgramStart, Addresses
<1>5. ProgramEnd \in Nat /\ ProgramEnd % SectorSize = 0 /\ ProgramEnd <= FlashSize
  BY <1>1, <1>3, AreaAligned DEF ProgramEnd
<1>6. ProgramStart + Size(cmd.file) <= ProgramEnd
  <2>1. CASE cmd.op = "write"
    BY <2>1 DEF Plain, Fits, ProgramStart, ProgramEnd
  <2>2. CASE cmd.op = "restore"
    BY <1>3, <2>2 DEF ProgramStart, ProgramEnd
  <2> QED BY <1>1, <2>1, <2>2
<1> DEFINE covered == (LastSector(Size(cmd.file)) + 1) * SectorSize
<1>7. /\ covered \in Nat /\ covered % SectorSize = 0 /\ Size(cmd.file) <= covered
      /\ ProgramStart + covered <= ProgramEnd
  BY <1>2, <1>4, <1>5, <1>6, SectorsCover
<1> HIDE DEF covered
<1>8. covered % PageSize = 0
  BY <1>1, <1>7, MultipleOfMultiple, GeometryAssumption
<1>9. p + PageSize <= covered
  <2>1. p < covered
    BY <1>2, <1>7
  <2> QED BY <1>1, <1>7, <1>8, <2>1, MultiplesApart
<1>10. ASSUME NEW k \in 0 .. PageSize - 1
       PROVE  ProgramStart + (p + k) \in Addresses
  BY <1>1, <1>3, <1>4, <1>5, <1>7, <1>9 DEF Addresses
<1> QED BY <1>4, <1>10

\* The page at the cursor of the buffer is what the area is to hold there.
LEMMA BufferIsPadded ==
  ASSUME TypeInv, pc \in {"programPage", "comparePage"},
         BufferAfter(fpos - bytesread, bytesread),
         ProgramOffset \in Nat, ProgramOffset <= fpos - bytesread,
         eof => fpos = Size(cmd.file), ~eof => bytesread = BufferSize,
         NEW k \in 0 .. PageSize - 1
  PROVE  file_buffer[bindex + k] = Padded((fpos - bytesread + bindex - ProgramOffset) + k)
<1> DEFINE base == fpos - bytesread  o == ProgramOffset  size == Size(cmd.file)
           i == (base + bindex - o) + k  f == cmd.file
<1>1. /\ f \in Files /\ fpos \in 0 .. size /\ bytesread \in 0 .. BufferSize
      /\ bindex \in Nat /\ bindex < bytesread /\ size \in Nat
      /\ BufferSize \in Nat /\ PageSize \in Nat \ {0} /\ k \in Nat
  BY CommandType, FileType, EepromAssumption, GeometryAssumption
     DEF TypeInv, TypeOK, PageBounds
<1>2. bindex + k \in 0 .. BufferSize - 1
  <2>1. bindex + PageSize <= BufferSize
    BY <1>1, BufferPageType DEF TypeInv, TypeOK, Buffers
  <2> QED BY <1>1, <2>1
<1>3. base \in Nat /\ o \in Nat /\ o <= base /\ fpos = base + bytesread
  BY <1>1
<1>4. FileLength = size - o
  BY DEF FileLength
<1>5. /\ \A j \in 0 .. bytesread - 1 : file_buffer[j] = Byte(f, base + j)
      /\ \/ base = o
         \/ /\ base - o >= BufferSize
            /\ \A j \in bytesread .. BufferSize - 1 :
                 file_buffer[j] = Byte(f, base - BufferSize + j)
  BY DEF BufferAfter
<1> SUFFICES file_buffer[bindex + k] = Padded(i)
  OBVIOUS
<1> HIDE DEF base, o, size, f
<1>6. i = base - o + (bindex + k) /\ i \in Nat
  BY <1>1, <1>3
<1> HIDE DEF i
<1>7. CASE bindex + k < bytesread
  <2>1. bindex + k \in 0 .. bytesread - 1
    BY <1>1, <1>2, <1>7
  <2>2. file_buffer[bindex + k] = Byte(f, base + (bindex + k))
    BY <1>5, <2>1
  <2>3. i < FileLength
    BY <1>1, <1>3, <1>4, <1>6, <1>7
  <2>4. o + i = base + (bindex + k)
    BY <1>1, <1>3, <1>6
  <2> QED BY <2>2, <2>3, <2>4 DEF Padded, o, f
<1>8. CASE ~(bindex + k < bytesread)
  <2>1. bindex + k \in bytesread .. BufferSize - 1
    BY <1>1, <1>2, <1>8
  <2>2. fpos = size
    <3>1. bytesread # BufferSize
      BY <1>1, <2>1
    <3> QED BY <3>1 DEF size
  <2>3. ~(i < FileLength)
    BY <1>1, <1>3, <1>4, <1>6, <2>1, <2>2
  <2>4. CASE base = o
    <3>1. FileLength < BufferSize /\ i = bindex + k
      BY <1>1, <1>3, <1>4, <1>6, <2>1, <2>2, <2>4
    <3> QED BY <2>3, <3>1 DEF Padded
  <2>5. CASE base # o
    <3>1. base - o >= BufferSize /\ file_buffer[bindex + k] = Byte(f, base - BufferSize + (bindex + k))
      BY <1>5, <2>1, <2>5
    <3>2. ~(FileLength < BufferSize)
      BY <1>1, <1>3, <1>4, <2>2, <3>1
    <3>3. o + i - BufferSize = base - BufferSize + (bindex + k)
      BY <1>1, <1>3, <1>6
    <3> QED BY <2>3, <3>1, <3>2, <3>3 DEF Padded, o, f
  <2> QED BY <2>4, <2>5
<1> QED BY <1>7, <1>8

\* A read fills the buffer from where the file stands.
LEMMA ReadFills ==
  ASSUME TypeInv, Fread, cmd' = cmd, board' = board,
         ProgramOffset \in Nat, BufferBefore(fpos)
  PROVE  BufferAfter(fpos - bytesread, bytesread)'
<1> DEFINE f == cmd.file  n == Available(f, fpos)  o == ProgramOffset
<1>1. /\ f \in Files /\ fpos \in 0 .. Size(f) /\ BufferSize \in Nat \ {0}
      /\ Size(f) \in Nat
  BY CommandType, FileType, EepromAssumption DEF TypeInv, TypeOK
<1>2. n \in 0 .. BufferSize
  BY <1>1, AvailableType
<1>3. fpos' = fpos + n /\ bytesread' = n /\ file_buffer' = Filled(f, fpos, file_buffer)
  BY DEF Fread
<1>4. f' = f /\ o' = o
  BY DEF ProgramOffset
<1>5. \A j \in BufferIndex :
        file_buffer'[j] = IF j < n THEN Byte(f, fpos + j) ELSE file_buffer[j]
  BY <1>3 DEF Filled
<1> HIDE DEF n, f, o
<1>6. fpos' - bytesread' = fpos
  BY <1>1, <1>2, <1>3
<1>7. \A j \in 0 .. n - 1 : file_buffer'[j] = Byte(f, fpos + j)
  BY <1>1, <1>2, <1>5 DEF BufferIndex
<1>8. \/ fpos = o
      \/ /\ fpos - o >= BufferSize
         /\ \A j \in n .. BufferSize - 1 : file_buffer'[j] = Byte(f, fpos - BufferSize + j)
  <2>1. CASE fpos = o
    BY <2>1
  <2>2. CASE fpos # o
    <3>1. /\ fpos - o >= BufferSize
          /\ \A j \in BufferIndex : file_buffer[j] = Byte(f, fpos - BufferSize + j)
      BY <2>2 DEF BufferBefore, o, f
    <3>2. ASSUME NEW j \in n .. BufferSize - 1
          PROVE  file_buffer'[j] = Byte(f, fpos - BufferSize + j)
      <4>1. j \in BufferIndex /\ ~(j < n)
        BY <1>1, <1>2 DEF BufferIndex
      <4> QED BY <1>5, <3>1, <4>1
    <3> QED BY <3>1, <3>2
  <2> QED BY <2>1, <2>2
<1> QED BY <1>3, <1>4, <1>6, <1>7, <1>8 DEF BufferAfter, f, o

\* A read leaves what is past the end of the file as it was.
LEMMA PaddedKept ==
  ASSUME TypeInv, Fread, cmd' = cmd, board' = board,
         ProgramOffset \in 0 .. Size(cmd.file), BufferBefore(fpos),
         NEW c \in Nat, c % PageSize = 0, c < FileLength,
         NEW k \in 0 .. PageSize - 1
  PROVE  Padded(c + k)' = Padded(c + k)
<1> DEFINE f == cmd.file  o == ProgramOffset  i == c + k
<1>1. /\ f \in Files /\ fpos \in 0 .. Size(f) /\ BufferSize \in Nat \ {0}
      /\ Size(f) \in Nat /\ PageSize \in Nat \ {0} /\ BufferSize % PageSize = 0
  BY CommandType, FileType, EepromAssumption, GeometryAssumption DEF TypeInv, TypeOK
<1>2. f' = f /\ o' = o /\ FileLength' = FileLength
  BY DEF ProgramOffset, FileLength
<1>3. FileLength = Size(f) - o /\ o \in Nat
  BY DEF FileLength
<1>4. CASE ~(i < FileLength) /\ FileLength < BufferSize
  <2>1. fpos = o
    <3>1. ~(fpos - o >= BufferSize)
      BY <1>1, <1>3, <1>4
    <3> QED BY <3>1 DEF BufferBefore
  <2>2. Available(f, fpos) = FileLength
    BY <1>1, <1>3, <1>4, <2>1 DEF Available
  <2>3. c + PageSize <= BufferSize
    <3>1. c < BufferSize
      BY <1>1, <1>3, <1>4
    <3> QED BY <1>1, <3>1, MultiplesApart
  <2>4. i \in BufferIndex
    BY <1>1, <2>3 DEF BufferIndex
  <2>5. file_buffer' = Filled(f, fpos, file_buffer)
    BY DEF Fread
  <2>6. file_buffer'[i] = file_buffer[i]
    BY <1>4, <2>2, <2>4, <2>5 DEF Filled
  <2> HIDE DEF i, f, o
  <2>7. Padded(i) = file_buffer[i]
    BY <1>4 DEF Padded
  <2>8. Padded(i)' = file_buffer'[i]
    <3>1. Padded(i)' = IF i < FileLength' THEN Byte(cmd'.file, ProgramOffset' + i)
                       ELSE IF FileLength' < BufferSize THEN file_buffer'[i]
                       ELSE Byte(cmd'.file, ProgramOffset' + i - BufferSize)
      BY DEF Padded, i
    <3> QED BY <1>2, <1>4, <3>1
  <2> QED BY <2>6, <2>7, <2>8 DEF i
<1>5. CASE i < FileLength \/ ~(FileLength < BufferSize)
  BY <1>2, <1>5 DEF Padded
<1> QED BY <1>4, <1>5

\* Where nothing is claimed of the verification.
LEMMA NotChecking ==
  ASSUME pc' \notin {"program", "programPage", "verify", "compare", "comparePage"}
  PROVE  CheckInv'
  BY DEF CheckInv, Checking, Buffered, Stored

\* A command that only verifies is not plain.
LEMMA NotPlain ==
  ASSUME cmd'.op = "verify"
  PROVE  CheckInv'
  BY DEF CheckInv, Checking, Buffered, Stored, Plain

\* The programming loop begins with nothing stored.
LEMMA EraseNextCheck ==
  ASSUME TypeInv, WriteInv, EraseNext
  PROVE  CheckInv'
<1>1. cmd' = cmd /\ board' = board /\ fpos' = fpos /\ pc = "erase"
      /\ pc' \in {"erase", "program"}
  BY DEF EraseNext, Goto, runVars, fileVars
<1>2. CASE pc' = "erase"
  BY <1>2, NotChecking
<1>3. CASE pc' = "program"
  <2>1. fpos = ProgramOffset /\ ProgramOffset' = ProgramOffset
        /\ ProgramOffset \in 0 .. Size(cmd.file)
    BY <1>1 DEF WriteInv, Aimed, ProgramOffset
  <2>2. BufferBefore(fpos)'
    BY <1>1, <2>1 DEF BufferBefore
  <2>3. Programmed' - ProgramOffset' = 0
    BY <1>1, <1>3, <2>1 DEF Programmed
  <2>4. StoredTo(Programmed - ProgramOffset)'
    BY <2>3 DEF StoredTo
  <2> QED BY <1>3, <2>2, <2>4 DEF CheckInv, Checking, Buffered, Stored
<1> QED BY <1>1, <1>2, <1>3

\* What is stored is not changed by a read.
LEMMA ReadToProgramCheck ==
  ASSUME TypeInv, Stages, WriteInv, CheckInv, ReadToProgram
  PROVE  CheckInv'
<1>1. /\ cmd' = cmd /\ board' = board /\ flash' = flash /\ faults' = faults
      /\ pc = "program" /\ ~eof /\ Fread /\ bytesread' = Available(cmd.file, fpos)
      /\ eof' = (bytesread' < BufferSize) /\ bindex' = 0
      /\ fpos' = fpos + Available(cmd.file, fpos)
      /\ pc' = IF bytesread' > 0 THEN "programPage" ELSE "program"
  BY DEF ReadToProgram, Fread, Goto, runVars, chipVars
<1>2. ProgramOffset \in 0 .. Size(cmd.file) /\ ProgramOffset \in Nat
  <2>1. ProgramOffset \in 0 .. Size(cmd.file)
    BY <1>1 DEF WriteInv, Aimed
  <2> QED BY <2>1
<1>3. Plain' = Plain /\ ProgramOffset' = ProgramOffset /\ ProgramStart' = ProgramStart
  BY <1>1 DEF Plain, Fits, IsDump, ProgramOffset, ProgramStart
<1>4. /\ fpos \in 0 .. Size(cmd.file) /\ BufferSize \in Nat \ {0}
      /\ Size(cmd.file) \in Nat /\ Available(cmd.file, fpos) \in 0 .. BufferSize
  BY CommandType, FileType, AvailableType, EepromAssumption DEF TypeInv, TypeOK
<1>5. Programmed' = fpos /\ Programmed = fpos
  <2> DEFINE n == Available(cmd.file, fpos)
  <2>1. n \in Nat /\ fpos \in Nat /\ fpos' = fpos + n /\ bytesread' = n /\ bindex' = 0
    BY <1>1, <1>4
  <2> HIDE DEF n
  <2>2. fpos' - bytesread' + bindex' = fpos
    BY <2>1
  <2>3. pc' # "programPage" => fpos' = fpos
    BY <1>1, <2>1
  <2>4. Programmed' = IF pc' = "programPage" THEN fpos' - bytesread' + bindex' ELSE fpos'
    BY DEF Programmed
  <2>5. Programmed = fpos
    BY <1>1 DEF Programmed
  <2> QED BY <2>2, <2>3, <2>4, <2>5
<1>6. ASSUME Plain PROVE BufferBefore(fpos)
  BY <1>1, <1>6 DEF CheckInv, Buffered
<1>7. Buffered'
  <2>1. ASSUME Plain PROVE BufferAfter(fpos - bytesread, bytesread)'
    BY <1>1, <1>2, <1>6, <2>1, ReadFills
  <2>2. pc' = "program" => eof'
    <3>1. pc' = "program" => bytesread' < BufferSize
      BY <1>1, <1>4
    <3>2. bytesread' < BufferSize => eof'
      BY <1>1
    <3> QED BY <3>1, <3>2
  <2> QED BY <1>1, <1>3, <2>1, <2>2 DEF Buffered
<1>8. ASSUME faults = 0, Plain PROVE StoredTo(Programmed - ProgramOffset)'
  <2>1. SUFFICES ASSUME NEW c \in Nat, c % PageSize = 0, c < fpos - ProgramOffset,
                        NEW k \in 0 .. PageSize - 1
                 PROVE  flash[ProgramStart + (c + k)] = Padded(c + k)'
    BY <1>1, <1>3, <1>5 DEF StoredTo
  <2>2. c < FileLength
    BY <1>2, <1>4, <2>1 DEF FileLength
  <2>3. Padded(c + k)' = Padded(c + k)
    BY <1>1, <1>2, <1>6, <1>8, <2>1, <2>2, PaddedKept
  <2>4. StoredTo(fpos - ProgramOffset)
    BY <1>1, <1>5, <1>8 DEF CheckInv, Stored
  <2> QED BY <2>1, <2>3, <2>4 DEF StoredTo
<1>9. Stored'
  BY <1>1, <1>3, <1>8 DEF Stored
<1>10. Checking'
  BY <1>1 DEF Checking
<1> QED BY <1>7, <1>9, <1>10 DEF CheckInv

\* The area and the file of a command do not change while it runs.
LEMMA SameCommand ==
  ASSUME cmd' = cmd, board' = board
  PROVE  /\ Plain' = Plain /\ ProgramOffset' = ProgramOffset
         /\ ProgramStart' = ProgramStart /\ FileLength' = FileLength
         /\ Fitting' = Fitting
  BY DEF Plain, Fits, IsDump, ProgramOffset, ProgramStart, FileLength, Fitting

\* Nor does what is past the end of the file while the buffer is not touched.
LEMMA PaddedSame ==
  ASSUME cmd' = cmd, board' = board, file_buffer' = file_buffer, NEW i
  PROVE  Padded(i)' = Padded(i)
  BY DEF Padded, FileLength, ProgramOffset

\* One more page is stored, to its last byte.
LEMMA ProgramNextCheck ==
  ASSUME TypeInv, Stages, WriteInv, CheckInv, ProgramNext
  PROVE  CheckInv'
<1> DEFINE f == cmd.file  base == fpos - bytesread  o == ProgramOffset
           cur == base + bindex - o
<1>1. /\ f \in Files /\ fpos \in 0 .. Size(f) /\ bytesread \in 0 .. BufferSize
      /\ bindex \in Nat /\ addr \in Nat /\ bindex % PageSize = 0
      /\ BufferSize \in Nat \ {0} /\ BufferSize % PageSize = 0
      /\ PageSize \in Nat \ {0} /\ Size(f) \in Nat
  BY CommandType, FileType, EepromAssumption, GeometryAssumption DEF TypeInv, TypeOK
<1>2. pc = "programPage" /\ bindex < bytesread
  BY DEF ProgramNext, TypeInv, PageBounds
<1>3. bindex + PageSize <= BufferSize
  BY <1>1, <1>2, BufferPageType DEF TypeInv, TypeOK, Buffers
<1>4. /\ cmd' = cmd /\ board' = board /\ file_buffer' = file_buffer
      /\ fpos' = fpos /\ eof' = eof /\ bytesread' = bytesread
      /\ bindex' = bindex + PageSize
      /\ pc' = IF bindex + PageSize < bytesread THEN "programPage" ELSE "program"
  BY DEF ProgramNext, Goto, runVars
<1>5. Plain' = Plain /\ o' = o /\ ProgramStart' = ProgramStart /\ FileLength' = FileLength
  BY <1>4, SameCommand
<1>6. o \in 0 .. Size(f) /\ o \in Nat /\ start_address = ProgramStart
      /\ (cmd.op = "restore" => Size(f) = FlashSize)
  <2>1. o \in 0 .. Size(f)
    BY <1>2 DEF WriteInv, Aimed
  <2> QED BY <1>2, <2>1 DEF WriteInv, Aimed
<1>7. o <= base /\ base \in Nat /\ fpos = base + bytesread
  <2>1. o <= base
    BY <1>2 DEF WriteInv, Programming
  <2> QED BY <1>1, <1>6, <2>1
<1>8. Programmed = base + bindex /\ Programmed - o = cur /\ cur \in Nat
  <2>1. Programmed = base + bindex
    BY <1>2 DEF Programmed
  <2> HIDE DEF base, o
  <2> QED BY <1>1, <1>6, <1>7, <2>1
<1>9. addr = start_address + cur /\ cur % PageSize = 0
  BY <1>2, <1>8 DEF WriteInv, Programming
<1>10. (eof => fpos = Size(f)) /\ (~eof => bytesread = BufferSize)
  BY <1>2 DEF WriteInv, Programming
<1>11. ASSUME Plain PROVE BufferAfter(base, bytesread)
  BY <1>2, <1>11 DEF CheckInv, Buffered
<1>12. ASSUME Plain, NEW k \in 0 .. PageSize - 1
       PROVE  file_buffer[bindex + k] = Padded(cur + k)
  BY <1>2, <1>6, <1>7, <1>10, <1>11, <1>12, BufferIsPadded
<1>13. ASSUME Plain
       PROVE  /\ pc' = "programPage" => BufferAfter(fpos - bytesread, bytesread)'
              /\ pc' = "program" /\ ~eof' => BufferBefore(fpos)'
  <2>1. BufferAfter(fpos - bytesread, bytesread)'
    BY <1>4, <1>5, <1>11, <1>13 DEF BufferAfter
  <2>2. ASSUME ~eof PROVE BufferBefore(fpos)'
    <3>1. bytesread = BufferSize
      BY <1>10, <2>2
    <3> HIDE DEF base, o, f
    <3>2. fpos - o >= BufferSize
      BY <1>1, <1>6, <1>7, <3>1
    <3>3. ASSUME NEW j \in BufferIndex
          PROVE  file_buffer[j] = Byte(f, fpos - BufferSize + j)
      <4>1. j \in 0 .. bytesread - 1
        BY <3>1 DEF BufferIndex
      <4>2. fpos - BufferSize + j = base + j
        BY <1>1, <1>7, <3>1
      <4>3. file_buffer[j] = Byte(f, base + j)
        BY <1>11, <1>13, <4>1 DEF BufferAfter, f
      <4> QED BY <4>2, <4>3
    <3> QED BY <1>4, <1>5, <3>2, <3>3 DEF BufferBefore, o, f
  <2> QED BY <1>4, <2>1, <2>2
<1>14. Buffered'
  BY <1>4, <1>5, <1>13 DEF Buffered
<1> HIDE DEF base, o, f
<1>15. Programmed' - o <= cur + PageSize
  <2>1. Programmed' = IF bindex + PageSize < bytesread THEN base + (bindex + PageSize) ELSE fpos
    BY <1>4 DEF Programmed, base
  <2> QED BY <1>1, <1>6, <1>7, <2>1
<1>15a. Programmed' - o \in Int
  <2>1. Programmed' = IF bindex + PageSize < bytesread THEN base + (bindex + PageSize) ELSE fpos
    BY <1>4 DEF Programmed, base
  <2> QED BY <1>1, <1>6, <1>7, <2>1
<1> HIDE DEF cur
<1>16. ASSUME faults' = 0, Plain, NEW c \in Nat, c % PageSize = 0, c < Programmed' - o,
              NEW k \in 0 .. PageSize - 1
       PROVE  flash'[ProgramStart + (c + k)] = Padded(c + k)
  <2> DEFINE x == ProgramStart + (c + k)
  <2>1. faults = 0 /\ flash' = PageProgrammed(flash, addr, BufferPage(bindex))
    BY <1>16, Undisturbed DEF ProgramNext, WritePage
  <2>2. cur < Size(f) /\ ProgramStart \in Nat
    <3>1. cur < Size(f)
      <4>1. base + bindex < fpos
        BY <1>1, <1>2, <1>7
      <4> QED BY <1>1, <1>6, <1>7, <4>1 DEF cur
    <3>2. start_address \in Nat
      BY ChipType DEF TypeInv, TypeOK, Addresses
    <3> QED BY <1>6, <3>1, <3>2
  <2>3. Fitting
    BY <1>16 DEF Plain, Fitting
  <2>4. /\ addr \in Addresses /\ Decode(addr) = addr /\ addr + PageSize <= EraseEnd
        /\ \A y \in Addresses : y \in PageCells(addr) <=> y \in addr .. addr + PageSize - 1
    BY <1>2, <2>3, ProgramCells DEF WriteInv
  <2>5. c <= cur
    <3>1. SUFFICES ASSUME cur < c PROVE FALSE
      BY <1>8, <1>16
    <3>2. cur + PageSize <= c
      BY <1>1, <1>8, <1>9, <1>16, <3>1, MultiplesApart
    <3> QED BY <1>1, <1>8, <1>15, <1>15a, <1>16, <3>2
  <2>6. c < Size(f)
    BY <1>1, <1>8, <2>2, <2>5
  <2>7. x \in Addresses
    BY <1>6, <1>16, <2>6, PlainArea DEF f
  <2>8. CASE c < cur
    <3>1. c + PageSize <= cur
      BY <1>1, <1>8, <1>9, <1>16, <2>8, MultiplesApart
    <3>2. x < addr
      BY <1>1, <1>6, <1>8, <1>9, <2>2, <3>1
    <3>3. x \notin PageCells(addr)
      BY <1>1, <1>6, <2>2, <2>4, <2>7, <3>2
    <3>4. flash'[x] = flash[x]
      BY <2>1, <2>7, <3>3 DEF PageProgrammed
    <3>5. StoredTo(cur)
      BY <1>2, <1>8, <1>16, <2>1 DEF CheckInv, Stored, o
    <3>6. flash[x] = Padded(c + k)
      BY <1>16, <2>8, <3>5 DEF StoredTo
    <3> QED BY <3>4, <3>6
  <2>9. CASE c = cur
    <3>1. x = addr + k
      BY <1>1, <1>6, <1>8, <1>9, <2>2, <2>9
    <3>2. x \in PageCells(addr) /\ x - Decode(addr) = k /\ addr <= x /\ x < EraseEnd
      <4>1. x \in addr .. addr + PageSize - 1
        BY <1>1, <3>1
      <4>2. EraseEnd \in Nat
        BY <1>2, ProgramArea DEF WriteInv
      <4> QED BY <1>1, <2>4, <2>7, <3>1, <4>1, <4>2
    <3>3. flash[x] = Erased
      BY <1>2, <2>1, <2>3, <2>7, <3>2 DEF WriteInv, Programming, Blank
    <3>4. flash'[x] = BufferPage(bindex)[k]
      BY <2>1, <2>7, <3>2, <3>3 DEF PageProgrammed, Program
    <3>5. BufferPage(bindex)[k] = file_buffer[bindex + k]
      BY DEF BufferPage
    <3> QED BY <1>12, <1>16, <2>9, <3>4, <3>5
  <2> QED BY <1>8, <2>5, <2>8, <2>9
<1>17. ASSUME faults' = 0, Plain PROVE StoredTo(Programmed - ProgramOffset)'
  <2>1. SUFFICES ASSUME NEW c \in Nat, c % PageSize = 0, c < Programmed' - o,
                        NEW k \in 0 .. PageSize - 1
                 PROVE  flash'[ProgramStart + (c + k)] = Padded(c + k)'
    BY <1>5 DEF StoredTo, o
  <2>2. Padded(c + k)' = Padded(c + k)
    BY <1>4, PaddedSame
  <2> QED BY <1>16, <1>17, <2>1, <2>2
<1>18. Stored'
  BY <1>4, <1>5, <1>17 DEF Stored
<1>19. Checking'
  BY <1>4 DEF Checking
<1> QED BY <1>14, <1>18, <1>19 DEF CheckInv

\* Once the loop is done the whole file is stored.
LEMMA ProgrammingDoneCheck ==
  ASSUME TypeInv, WriteInv, CheckInv, ProgrammingDone
  PROVE  CheckInv'
<1>1. /\ cmd' = cmd /\ board' = board /\ file_buffer' = file_buffer
      /\ flash' = flash /\ faults' = faults /\ pc = "program" /\ eof
      /\ pc' \in {"verify", "reload", "exit"}
  BY DEF ProgrammingDone, AfterProgramming, Goto, Exit, runVars, chipVars
<1>2. CASE pc' = "verify"
  <2>1. Plain' = Plain /\ ProgramOffset' = ProgramOffset
        /\ ProgramStart' = ProgramStart /\ FileLength' = FileLength
    BY <1>1, SameCommand
  <2>2. Programmed - ProgramOffset = FileLength
    BY <1>1 DEF WriteInv, Programming, Programmed, FileLength
  <2>3. ASSUME faults = 0, Plain PROVE StoredTo(FileLength)'
    <3>1. StoredTo(FileLength)
      BY <1>1, <2>2, <2>3 DEF CheckInv, Stored
    <3> QED BY <1>1, <2>1, <3>1, PaddedSame DEF StoredTo
  <2>4. Stored'
    BY <1>1, <1>2, <2>1, <2>3 DEF Stored
  <2>5. Checking' /\ Buffered'
    <3>1. /\ ProgramOffset \in 0 .. Size(cmd.file)
          /\ cmd.op = "restore" => Size(cmd.file) = FlashSize
      BY <1>1 DEF WriteInv, Aimed
    <3> QED BY <1>1, <1>2, <2>1, <3>1 DEF Checking, Buffered
  <2> QED BY <2>4, <2>5 DEF CheckInv
<1> QED BY <1>1, <1>2, NotChecking

\* The comparison begins where the programming began.
LEMMA OpenForVerifyCheck ==
  ASSUME TypeInv, CheckInv, OpenForVerify
  PROVE  CheckInv'
<1>1. CASE pc' = "exit"
  BY <1>1, NotChecking
<1>2. CASE pc' # "exit"
  <2>1. /\ cmd' = cmd /\ board' = board /\ file_buffer' = file_buffer
        /\ flash' = flash /\ faults' = faults /\ pc = "verify" /\ pc' = "compare"
        /\ fpos' = VerifyOffset(cmd.file)
    BY <1>2 DEF OpenForVerify, Goto, Exit, runVars, chipVars
  <2>2. Plain' = Plain /\ ProgramOffset' = ProgramOffset
        /\ ProgramStart' = ProgramStart /\ FileLength' = FileLength
    BY <2>1, SameCommand
  <2>3. ASSUME Plain
        PROVE  /\ ProgramOffset \in 0 .. Size(cmd.file)
               /\ cmd.op = "restore" => Size(cmd.file) = FlashSize
               /\ fpos' = ProgramOffset
    <3>1. /\ ProgramOffset \in 0 .. Size(cmd.file)
          /\ cmd.op = "restore" => Size(cmd.file) = FlashSize
      BY <2>1, <2>3 DEF CheckInv, Checking
    <3> QED BY <2>1, <2>3, <3>1, SamePlace
  <2>4. Buffered'
    BY <2>1, <2>2, <2>3 DEF Buffered, BufferBefore
  <2>5. Checking'
    <3>1. ASSUME Plain PROVE (Compared' - ProgramOffset') % PageSize = 0
      <4>1. Compared' = ProgramOffset /\ ProgramOffset' = ProgramOffset /\ ProgramOffset \in Int
        BY <2>1, <2>2, <2>3, <3>1 DEF Compared
      <4>2. Compared' - ProgramOffset' = 0
        BY <4>1
      <4> QED BY <4>2, GeometryAssumption
    <3>2. ASSUME Plain
          PROVE  (ProgramOffset \in 0 .. Size(cmd.file)
                  /\ (cmd.op = "restore" => Size(cmd.file) = FlashSize))'
      BY <2>1, <2>2, <2>3, <3>2
    <3> QED BY <2>2, <3>1, <3>2 DEF Checking
  <2>6. ASSUME faults = 0, Plain PROVE StoredTo(FileLength)'
    <3>1. StoredTo(FileLength)
      BY <2>1, <2>6 DEF CheckInv, Stored
    <3> QED BY <2>1, <2>2, <3>1, PaddedSame DEF StoredTo
  <2>7. Stored'
    BY <2>1, <2>2, <2>6 DEF Stored
  <2> QED BY <2>4, <2>5, <2>7 DEF CheckInv
<1> QED BY <1>1, <1>2

\* A read for the comparison fills the buffer as the read for the programming did.
LEMMA ReadToCompareCheck ==
  ASSUME TypeInv, Comparing, CheckInv, ReadToCompare
  PROVE  CheckInv'
<1>1. /\ cmd' = cmd /\ board' = board /\ flash' = flash /\ faults' = faults
      /\ pc = "compare" /\ ~eof /\ Fread /\ bytesread' = Available(cmd.file, fpos)
      /\ eof' = (bytesread' < BufferSize) /\ bindex' = 0
      /\ fpos' = fpos + Available(cmd.file, fpos)
      /\ pc' = IF bytesread' > 0 THEN "comparePage" ELSE "compare"
  BY DEF ReadToCompare, Fread, Goto, runVars, chipVars
<1>2. Plain' = Plain /\ ProgramOffset' = ProgramOffset /\ ProgramStart' = ProgramStart
      /\ FileLength' = FileLength
  BY <1>1, SameCommand
<1>3. /\ fpos \in 0 .. Size(cmd.file) /\ BufferSize \in Nat \ {0}
      /\ Size(cmd.file) \in Nat /\ Available(cmd.file, fpos) \in 0 .. BufferSize
  BY CommandType, FileType, AvailableType, EepromAssumption DEF TypeInv, TypeOK
<1>4. ASSUME Plain
      PROVE  /\ ProgramOffset \in 0 .. Size(cmd.file)
             /\ cmd.op = "restore" => Size(cmd.file) = FlashSize
             /\ (fpos - ProgramOffset) % PageSize = 0
             /\ BufferBefore(fpos)
  <2>1. Compared = fpos
    BY <1>1 DEF Compared
  <2> QED BY <1>1, <1>4, <2>1 DEF CheckInv, Checking, Buffered
<1>5. pc' = "compare" => eof'
  <2>1. pc' = "compare" => bytesread' < BufferSize
    BY <1>1, <1>3
  <2>2. bytesread' < BufferSize => eof'
    BY <1>1
  <2> QED BY <2>1, <2>2
<1>6. pc' = "comparePage" => Compared' = fpos
  <2> DEFINE n == Available(cmd.file, fpos)
  <2>1. n \in Nat /\ fpos \in Nat /\ fpos' = fpos + n /\ bytesread' = n /\ bindex' = 0
    BY <1>1, <1>3
  <2> HIDE DEF n
  <2>2. fpos' - bytesread' + bindex' = fpos
    BY <2>1
  <2> QED BY <2>2 DEF Compared
<1>7. Buffered'
  <2>1. ASSUME Plain PROVE BufferAfter(fpos - bytesread, bytesread)'
    <3>1. ProgramOffset \in Nat
      BY <1>4, <2>1
    <3> QED BY <1>1, <1>4, <2>1, <3>1, ReadFills
  <2> QED BY <1>1, <1>2, <1>5, <2>1 DEF Buffered
<1>8. Checking'
  <2>1. ASSUME Plain
        PROVE  (ProgramOffset \in 0 .. Size(cmd.file)
                /\ (cmd.op = "restore" => Size(cmd.file) = FlashSize))'
    BY <1>1, <1>2, <1>4, <2>1
  <2>2. ASSUME Plain, pc' = "comparePage" PROVE (Compared' - ProgramOffset') % PageSize = 0
    BY <1>2, <1>4, <1>6, <2>2
  <2> QED BY <1>1, <1>2, <1>5, <2>1, <2>2 DEF Checking
<1>9. ASSUME faults = 0, Plain PROVE StoredTo(FileLength)'
  <2>1. StoredTo(FileLength)
    BY <1>1, <1>9 DEF CheckInv, Stored
  <2>2. SUFFICES ASSUME NEW c \in Nat, c % PageSize = 0, c < FileLength,
                        NEW k \in 0 .. PageSize - 1
                 PROVE  flash[ProgramStart + (c + k)] = Padded(c + k)'
    BY <1>1, <1>2 DEF StoredTo
  <2>3. Padded(c + k)' = Padded(c + k)
    BY <1>1, <1>4, <1>9, <2>2, PaddedKept
  <2> QED BY <2>1, <2>2, <2>3 DEF StoredTo
<1>10. Stored'
  BY <1>1, <1>2, <1>9 DEF Stored
<1> QED BY <1>7, <1>8, <1>10 DEF CheckInv

\* What the comparison knows of its place, in terms of the programming's.
LEMMA ComparePlace ==
  ASSUME TypeInv, Comparing, CheckInv, Plain, pc = "comparePage"
  PROVE  /\ ProgramOffset \in Nat /\ ProgramOffset <= fpos - bytesread
         /\ cmd.op = "restore" => Size(cmd.file) = FlashSize
         /\ eof => fpos = Size(cmd.file)
         /\ ~eof => bytesread = BufferSize
         /\ addr = ProgramStart + (fpos - bytesread + bindex - ProgramOffset)
         /\ (fpos - bytesread + bindex - ProgramOffset) % PageSize = 0
         /\ BufferAfter(fpos - bytesread, bytesread)
<1>1. /\ ProgramOffset \in 0 .. Size(cmd.file)
      /\ cmd.op = "restore" => Size(cmd.file) = FlashSize
      /\ (Compared - ProgramOffset) % PageSize = 0
      /\ BufferAfter(fpos - bytesread, bytesread)
  BY DEF CheckInv, Checking, Buffered
<1>2. VerifyStart(board, cmd) = ProgramStart /\ VerifyOffset(cmd.file) = ProgramOffset
  BY <1>1, SamePlace
<1>3. Compared = fpos - bytesread + bindex
  BY DEF Compared
<1>4. (eof => fpos = Size(cmd.file)) /\ (~eof => bytesread = BufferSize)
  BY DEF Comparing
<1>5. /\ start_address = VerifyStart(board, cmd)
      /\ addr = start_address + (Compared - VerifyOffset(cmd.file))
      /\ VerifyOffset(cmd.file) <= fpos - bytesread
  BY DEF Comparing
<1>6. /\ fpos \in Int /\ bytesread \in Int /\ bindex \in Int /\ ProgramOffset \in Nat
  BY <1>1, CommandType, FileType, EepromAssumption DEF TypeInv, TypeOK
<1>7. Compared - ProgramOffset = fpos - bytesread + bindex - ProgramOffset
  BY <1>3, <1>6
<1>8. addr = ProgramStart + (fpos - bytesread + bindex - ProgramOffset)
      /\ (fpos - bytesread + bindex - ProgramOffset) % PageSize = 0
  BY <1>1, <1>2, <1>5, <1>7
<1>9. ProgramOffset <= fpos - bytesread
  BY <1>2, <1>5
<1> QED BY <1>1, <1>4, <1>6, <1>8, <1>9

\* A page that agrees moves the cursor; what is stored stays stored.
LEMMA CompareNextCheck ==
  ASSUME TypeInv, Comparing, CheckInv, CompareNext
  PROVE  CheckInv'
<1>1. CASE pc' = "exit"
  BY <1>1, NotChecking
<1>2. CASE pc' # "exit"
  <2> DEFINE base == fpos - bytesread  o == ProgramOffset  f == cmd.file
             cur == base + bindex - o
  <2>1. /\ cmd' = cmd /\ board' = board /\ file_buffer' = file_buffer
        /\ flash' = flash /\ faults' = faults /\ pc = "comparePage"
        /\ fpos' = fpos /\ eof' = eof /\ bytesread' = bytesread
        /\ bindex' = bindex + PageSize
        /\ pc' = IF bindex + PageSize < bytesread THEN "comparePage" ELSE "compare"
    BY <1>2 DEF CompareNext, Goto, Exit, runVars, chipVars
  <2>2. Plain' = Plain /\ o' = o /\ ProgramStart' = ProgramStart /\ FileLength' = FileLength
    BY <2>1, SameCommand
  <2>3. /\ fpos \in Nat /\ bytesread \in 0 .. BufferSize /\ bindex \in Nat
        /\ bindex % PageSize = 0 /\ bindex < bytesread
        /\ BufferSize \in Nat \ {0} /\ PageSize \in Nat \ {0}
    BY <2>1, CommandType, FileType, EepromAssumption, GeometryAssumption
       DEF TypeInv, TypeOK, PageBounds
  <2>4. bindex + PageSize <= BufferSize
    BY <2>3, BufferPageType DEF TypeInv, TypeOK, Buffers
  <2>5. ASSUME Plain
        PROVE  /\ o \in Nat /\ o <= base
               /\ eof => fpos = Size(f)
               /\ ~eof => bytesread = BufferSize
               /\ cur % PageSize = 0
               /\ BufferAfter(base, bytesread)
    BY <2>1, <2>5, ComparePlace
  <2>6. ASSUME Plain
        PROVE  /\ pc' = "comparePage" => BufferAfter(fpos - bytesread, bytesread)'
               /\ pc' = "compare" /\ ~eof' => BufferBefore(fpos)'
    <3>1. BufferAfter(fpos - bytesread, bytesread)'
      BY <2>1, <2>2, <2>5, <2>6 DEF BufferAfter
    <3>2. ASSUME ~eof PROVE BufferBefore(fpos)'
      <4>1. bytesread = BufferSize /\ o \in Nat /\ o <= base /\ BufferAfter(base, bytesread)
        BY <2>5, <2>6, <3>2
      <4>2. fpos = base + BufferSize /\ base \in Int
        BY <2>3, <4>1
      <4> HIDE DEF base, o, f
      <4>3. fpos - o >= BufferSize
        BY <2>3, <4>1, <4>2
      <4>4. ASSUME NEW j \in BufferIndex
            PROVE  file_buffer[j] = Byte(f, fpos - BufferSize + j)
        <5>1. j \in 0 .. bytesread - 1
          BY <4>1 DEF BufferIndex
        <5>2. fpos - BufferSize + j = base + j
          BY <2>3, <4>2
        <5>3. file_buffer[j] = Byte(f, base + j)
          BY <4>1, <5>1 DEF BufferAfter, f
        <5> QED BY <5>2, <5>3
      <4> QED BY <2>1, <2>2, <4>3, <4>4 DEF BufferBefore, o, f
    <3> QED BY <2>1, <3>1, <3>2
  <2>7. Buffered'
    BY <2>1, <2>2, <2>6 DEF Buffered
  <2>8. ASSUME Plain, pc' = "comparePage" \/ ~eof
        PROVE  (Compared' - o') % PageSize = 0
    <3>1. o \in Nat /\ o <= base /\ cur % PageSize = 0 /\ (~eof => bytesread = BufferSize)
      BY <2>5, <2>8
    <3>2. fpos = base + bytesread /\ base \in Int
      BY <2>3
    <3>3. Compared' = IF pc' = "comparePage" THEN base + (bindex + PageSize) ELSE fpos
      BY <2>1 DEF Compared
    <3>4. pc' # "comparePage" => bytesread = BufferSize /\ ~(bindex + PageSize < bytesread)
      BY <2>1, <2>8, <3>1
    <3> HIDE DEF base, o
    <3>5. Compared' = base + (bindex + PageSize)
      BY <2>3, <2>4, <3>2, <3>3, <3>4
    <3>6. cur \in Nat /\ Compared' - o = cur + PageSize
      BY <2>3, <3>1, <3>2, <3>5
    <3> HIDE DEF cur
    <3>7. (cur + PageSize) % PageSize = 0
      BY <2>3, <3>1, <3>6, NextMultiple
    <3> QED BY <2>2, <3>6, <3>7
  <2>9. Checking'
    <3>1. ASSUME Plain
          PROVE  (ProgramOffset \in 0 .. Size(cmd.file)
                  /\ (cmd.op = "restore" => Size(cmd.file) = FlashSize))'
      BY <2>1, <2>2, <3>1 DEF CheckInv, Checking
    <3> QED BY <2>1, <2>2, <2>8, <3>1 DEF Checking
  <2>10. ASSUME faults = 0, Plain PROVE StoredTo(FileLength)'
    <3>1. StoredTo(FileLength)
      BY <2>1, <2>10 DEF CheckInv, Stored
    <3> QED BY <2>1, <2>2, <3>1, PaddedSame DEF StoredTo
  <2>11. Stored'
    BY <2>1, <2>2, <2>10 DEF Stored
  <2> QED BY <2>7, <2>9, <2>11 DEF CheckInv
<1> QED BY <1>1, <1>2

\* Every step keeps what the verification relies on.
LEMMA CheckNext ==
  TypeInv /\ Stages /\ Comparing /\ WriteInv /\ CheckInv /\ [Next]_vars => CheckInv'
<1> SUFFICES ASSUME TypeInv, Stages, Comparing, WriteInv, CheckInv, [Next]_vars
             PROVE  CheckInv'
  OBVIOUS
<1>1. CASE StartSession
  <2>1. pc' = cmd'.op /\ cmd'.op \in {"write", "verify", "restore"}
    BY <1>1, EepromAssumption DEF StartSession, CommandRecords
  <2> QED BY <2>1, NotChecking, NotPlain
<1>2. CASE Crash
  BY <1>2, NotChecking DEF Crash
<1>3. CASE OpenForWrite \/ CheckBoot \/ EraseBoot \/ WriteBoot \/ RecheckBoot
            \/ StartProgramming \/ OpenForRestore \/ VerificationDone \/ Reload
  <2>1. pc' \notin {"program", "programPage", "verify", "compare", "comparePage"}
    BY <1>3 DEF OpenForWrite, CheckBoot, EraseBoot, WriteBoot, RecheckBoot,
       StartProgramming, OpenForRestore, VerificationDone, AfterVerification,
       Reload, Goto, Exit
  <2> QED BY <2>1, NotChecking
<1>4. CASE EraseNext
  BY <1>4, EraseNextCheck
<1>5. CASE ReadToProgram
  BY <1>5, ReadToProgramCheck
<1>6. CASE ProgramNext
  BY <1>6, ProgramNextCheck
<1>7. CASE ProgrammingDone
  BY <1>7, ProgrammingDoneCheck
<1>8. CASE OpenForVerify
  BY <1>8, OpenForVerifyCheck
<1>9. CASE ReadToCompare
  BY <1>9, ReadToCompareCheck
<1>10. CASE CompareNext
  BY <1>10, CompareNextCheck
<1>11. CASE UNCHANGED vars
  <2>1. /\ cmd' = cmd /\ board' = board /\ file_buffer' = file_buffer
        /\ flash' = flash /\ faults' = faults /\ pc' = pc
        /\ fpos' = fpos /\ eof' = eof /\ bytesread' = bytesread /\ bindex' = bindex
    BY <1>11 DEF vars, chipVars, runVars, fileVars
  <2>2. Plain' = Plain /\ ProgramOffset' = ProgramOffset
        /\ ProgramStart' = ProgramStart /\ FileLength' = FileLength
    BY <2>1, SameCommand
  <2>3. Checking' /\ Buffered'
    BY <2>1, <2>2 DEF CheckInv, Checking, Buffered, BufferAfter, BufferBefore, Compared
  <2>4. Stored'
    BY <2>1, <2>2, PaddedSame DEF CheckInv, Stored, StoredTo, Programmed
  <2> QED BY <2>3, <2>4 DEF CheckInv
<1> QED
  BY <1>1, <1>2, <1>3, <1>4, <1>5, <1>6, <1>7, <1>8, <1>9, <1>10, <1>11 DEF Next, Step

\* A page of a plain command is found as it was programmed.
LEMMA PlainPageMatches ==
  ASSUME TypeInv, Comparing, CheckInv, faults = 0, Plain, pc = "comparePage"
  PROVE  PageMatches
<1> DEFINE base == fpos - bytesread  o == ProgramOffset  cur == base + bindex - o
<1>1. /\ cmd.file \in Files /\ fpos \in 0 .. Size(cmd.file) /\ bytesread \in Nat
      /\ bindex \in Nat /\ bindex < bytesread /\ PageSize \in Nat \ {0}
      /\ Size(cmd.file) \in Nat
  BY CommandType, FileType, EepromAssumption, GeometryAssumption
     DEF TypeInv, TypeOK, PageBounds
<1>2. /\ o \in Nat /\ o <= base /\ addr = ProgramStart + cur /\ cur % PageSize = 0
      /\ cmd.op = "restore" => Size(cmd.file) = FlashSize
  BY ComparePlace
<1>3. cur \in Nat /\ cur < FileLength /\ cur < Size(cmd.file)
  <2>1. base + bindex < Size(cmd.file) /\ base \in Int
    BY <1>1
  <2> HIDE DEF base, o
  <2> QED BY <1>1, <1>2, <2>1 DEF FileLength, o
<1>4. \A k \in 0 .. PageSize - 1 : file_buffer[bindex + k] = Padded(cur + k)
  BY ComparePlace, BufferIsPadded
<1>5. StoredTo(FileLength)
  BY DEF CheckInv, Stored
<1> HIDE DEF cur
<1>6. ASSUME NEW k \in 0 .. PageSize - 1
      PROVE  flash[Decode(addr + k)] = file_buffer[bindex + k]
  <2>1. ProgramStart + (cur + k) \in Addresses /\ ProgramStart \in Nat
    BY <1>2, <1>3, PlainArea
  <2>2. addr + k = ProgramStart + (cur + k)
    BY <1>1, <1>2, <1>3, <2>1
  <2>3. Decode(addr + k) = addr + k
    <3>1. addr + k \in 0 .. FlashSize - 1
      BY <2>1, <2>2 DEF Addresses
    <3> QED BY <3>1, ChipType DEF Decode
  <2>4. flash[ProgramStart + (cur + k)] = Padded(cur + k)
    BY <1>2, <1>3, <1>5 DEF StoredTo
  <2> QED BY <1>4, <2>2, <2>3, <2>4
<1> QED BY <1>6 DEF PageMatches, PageAt, BufferPage

\* The verification after a write or a restore that fits finds the pages as
\* they were programmed, up to the bytes behind the end of the file, when the
\* chip did all it was told (eeprom.c:321-328 and 396-408).
THEOREM VerificationAgrees == Spec => AutoVerifyAgrees
<1> DEFINE Inv == IInv /\ WriteInv /\ CheckInv
<1>1. Init => Inv
  <2>1. Init => CheckInv
    <3>1. ASSUME Init PROVE CheckInv
      <4>1. pc = cmd.op /\ cmd.op \in {"write", "verify", "restore"}
        BY <3>1, EepromAssumption DEF Init, CommandRecords
      <4> QED BY <4>1 DEF CheckInv, Checking, Buffered, Stored, Plain
    <3> QED BY <3>1
  <2> QED BY <2>1, MainInit, WriteInit
<1>2. Inv /\ [Next]_vars => Inv'
  <2>1. Inv /\ [Next]_vars => IInv'
    BY MainNext
  <2>2. Inv /\ [Next]_vars => WriteInv' /\ CheckInv'
    BY WriteNext, CheckNext DEF IInv
  <2> QED BY <2>1, <2>2
<1>3. ASSUME Inv, [Next]_vars, faults = 0, Plain PROVE ~Mismatch
  <2>1. SUFFICES ASSUME pc = "comparePage", pc' = "exit" PROVE FALSE
    BY DEF Mismatch
  <2>2. PageMatches
    BY <1>3, <2>1, PlainPageMatches DEF IInv
  <2>3. CompareNext
    BY <1>3, <2>1, EepromAssumption
       DEF Next, Step, vars, StartSession, Crash, OpenForWrite, CheckBoot, EraseBoot,
           WriteBoot, RecheckBoot, StartProgramming, EraseNext, ReadToProgram,
           ProgramNext, ProgrammingDone, OpenForVerify, ReadToCompare,
           VerificationDone, OpenForRestore, Reload
  <2> QED BY <2>1, <2>2, <2>3 DEF CompareNext, Goto
<1>4. Inv /\ [Next]_vars =>
        [faults = 0 /\ cmd.op # "verify"
           /\ (cmd.op = "write" => Fits /\ (IsDump(cmd) => Header(cmd.file) = 0))
           => ~Mismatch]_vars
  BY <1>3 DEF Plain
<1> HIDE DEF Inv
<1> QED BY <1>1, <1>2, <1>4, PTL DEF Spec, AutoVerifyAgrees
=============================================================================
