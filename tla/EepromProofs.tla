---------------------------- MODULE EepromProofs ----------------------------
(***************************************************************************)
(* What TLAPS proves of Eeprom, for every geometry, every file, every      *)
(* board and every command line: its types, that neither an exit status of *)
(* 0 after a verification nor a reload of the board can come without the   *)
(* image being in the flash, and that it implements FlashUpdate.           *)
(***************************************************************************)
EXTENDS Eeprom, SpiFlashProofs

-----------------------------------------------------------------------------
(* The chip and the buffers keep their types *)

\* The chip has at least two sectors, and an address always decodes to a cell.
LEMMA Geometry ==
  /\ FlashSize \in Nat \ {0}
  /\ SectorSize < FlashSize
  /\ UserSpace \in Addresses
  /\ \A a \in Int : Decode(a) \in Addresses
<1>1. FlashSectors >= 2
  BY GeometryAssumption, EepromAssumption
<1>2. FlashSize >= 2 * SectorSize /\ FlashSize \in Nat
  <2>1. FlashSectors * SectorSize >= 2 * SectorSize
    BY <1>1, GeometryAssumption
  <2> QED BY <2>1, GeometryAssumption DEF FlashSize
<1>3. FlashSize \in Nat \ {0} /\ SectorSize < FlashSize
  BY <1>2, GeometryAssumption
<1>4. UserSpace \in Addresses
  BY <1>3 DEF UserSpace, Addresses
<1>5. ASSUME NEW a \in Int PROVE Decode(a) \in Addresses
  BY <1>3 DEF Decode, Addresses
<1> QED BY <1>3, <1>4, <1>5

Buffers == [BufferIndex -> Bytes]

\* What FileInfo says of a file: a positive size, not less than its header.
LEMMA FileType ==
  ASSUME NEW f \in Files
  PROVE  /\ Size(f) \in Nat \ {0}
         /\ Header(f) \in Nat \cup {NoHeader}
         /\ Header(f) <= Size(f)
  BY EepromAssumption DEF Size, Header, FileRecords, NoHeader

\* fread returns at most what it was asked for, and less only at the end.
LEMMA AvailableType ==
  ASSUME NEW f \in Files, NEW pos \in 0 .. Size(f)
  PROVE  /\ Available(f, pos) \in 0 .. BufferSize
         /\ pos + Available(f, pos) \in 0 .. Size(f)
         /\ Available(f, pos) < BufferSize => pos + Available(f, pos) = Size(f)
  BY FileType, EepromAssumption DEF Available

\* A buffer that was read into is a buffer.
LEMMA FilledType ==
  ASSUME NEW f \in Files, NEW pos \in Nat, NEW buf \in Buffers
  PROVE  Filled(f, pos, buf) \in Buffers
<1>1. ASSUME NEW j \in BufferIndex
      PROVE  Byte(f, pos + j) \in Bytes /\ buf[j] \in Bytes
  BY BytesType, EepromAssumption DEF BufferIndex, Buffers
<1> QED BY <1>1 DEF Filled, Buffers

\* So is one the whole file went through.
LEMMA AfterWholeFileType ==
  ASSUME NEW f \in Files, NEW buf \in Buffers
  PROVE  AfterWholeFile(f, buf) \in Buffers
<1> DEFINE q == Size(f) \div BufferSize
           last == q * BufferSize
<1>1. q \in Nat
  BY FileType, EepromAssumption
<1>2. last \in Nat
  BY <1>1, EepromAssumption
<1>3. CASE last = 0
  BY <1>3, FilledType DEF AfterWholeFile
<1>4. CASE last # 0
  <2>1. q >= 1
    <3> HIDE DEF q
    <3>1. CASE q = 0
      BY <3>1, <1>4, EepromAssumption
    <3> QED BY <3>1, <1>1
  <2>2. q * BufferSize >= 1 * BufferSize
    BY <2>1, <1>1, EepromAssumption
  <2>3. last - BufferSize \in Nat
    BY <2>2, <1>2, EepromAssumption
  <2>4. Filled(f, last - BufferSize, buf) \in Buffers
    BY <2>3, FilledType
  <2>5. Filled(f, last, Filled(f, last - BufferSize, buf)) \in Buffers
    BY <2>4, <1>2, FilledType
  <2> QED BY <2>5, <1>4 DEF AfterWholeFile
<1> QED BY <1>3, <1>4

\* The pages of the buffer up to the last one that was read are pages.
LEMMA BufferPageType ==
  ASSUME file_buffer \in Buffers, bytesread \in 0 .. BufferSize,
         bindex \in Nat, bindex % PageSize = 0, bindex < bytesread
  PROVE  BufferPage(bindex) \in Page /\ bindex + PageSize <= BufferSize
<1>1. bindex + PageSize <= BufferSize
  <2>1. PageSize \in Nat \ {0} /\ BufferSize \in Nat /\ BufferSize % PageSize = 0
    BY GeometryAssumption, EepromAssumption
  <2>2. bindex < BufferSize
    BY <2>1
  <2> QED BY <2>1, <2>2, MultiplesApart
<1>2. ASSUME NEW k \in 0 .. PageSize - 1
      PROVE  file_buffer[bindex + k] \in Bytes
  BY <1>1, GeometryAssumption, EepromAssumption DEF Buffers, BufferIndex
<1> QED BY <1>1, <1>2 DEF BufferPage, Page

\* The address a command starts at is a cell of the chip, at a page.
LEMMA StartAddressType ==
  ASSUME NEW b \in Boards, NEW fallback \in BOOLEAN
  PROVE  StartAddress(b, fallback) \in Addresses
  BY Geometry, EepromAssumption, GeometryAssumption
     DEF StartAddress, Addresses, BoardRecords

-----------------------------------------------------------------------------
(* The inductive invariant *)

\* A page is handled only below what the last fread returned.
PageBounds == pc \in {"programPage", "comparePage"} => bindex < bytesread

\* Which commands reach which part of the program.
Stages ==
  /\ pc \in {"write", "restore", "checkBoot", "eraseBoot", "writeBoot", "recheckBoot",
             "startProgramming", "erase", "program", "programPage"}
       => cmd.op # "verify"
  /\ pc = "reload" => cmd.op = "write"

\* How far into the file the comparison has come.
Compared == IF pc = "comparePage" THEN fpos - bytesread + bindex ELSE fpos

\* While files and flash are compared: the bytes compared so far agree, the
\* buffer holds the bytes of the file around the cursor, and addr is the
\* address of the next one, unless the whole file has been read.
Comparing ==
  LET f == cmd.file  offset == VerifyOffset(f) IN
  pc \in {"compare", "comparePage"} =>
    /\ offset \in Nat
    /\ start_address = VerifyStart(board, cmd)
    /\ HasBootBlock(board) /\ ~WholeFlash(f) => BootBlockOK(flash)
    /\ eof => fpos = Size(f)
    /\ ~eof => addr = start_address + (Compared - offset)
    /\ offset <= Compared
    /\ \A i \in 0 .. Compared - offset - 1 :
         flash[Decode(start_address + i)] = Byte(f, offset + i)
    /\ pc = "comparePage" =>
         /\ addr = start_address + (Compared - offset)
         /\ offset <= fpos - bytesread
         /\ ~eof => bytesread = BufferSize
         /\ \A j \in 0 .. bytesread - 1 :
              file_buffer[j] = Byte(f, fpos - bytesread + j)

TypeInv == TypeOK /\ PageBounds

IInv == TypeInv /\ Stages /\ Comparing /\ SuccessMeansImage /\ ReloadsOnlyImage

-----------------------------------------------------------------------------
(* Types *)

\* The fields of the command line and of the board.
LEMMA CommandType ==
  ASSUME TypeOK
  PROVE  /\ cmd \in CommandRecords /\ cmd.file \in Files
         /\ cmd.fallback \in BOOLEAN /\ cmd.verify \in BOOLEAN
         /\ cmd.op \in {"write", "verify", "restore"}
         /\ board \in BoardRecords
  BY EepromAssumption DEF TypeOK, CommandRecords

\* The types hold when the first run starts.
LEMMA TypeInit == Init => TypeInv
<1> SUFFICES ASSUME Init PROVE TypeInv
  OBVIOUS
<1>1. flash \in Memory
  BY BytesType DEF Init, FlashInit, Memory, Addresses
<1>2. file_buffer \in Buffers
  BY BytesType DEF Init, ZeroBuffer, Buffers
<1>3. cmd \in CommandRecords /\ Size(cmd.file) \in Nat
  BY EepromAssumption, FileType DEF Init, CommandRecords
<1>4. 0 \in Addresses
  BY Geometry DEF Addresses
<1>5. 0 % PageSize = 0 /\ 0 \in 0 .. BufferSize
  BY GeometryAssumption, EepromAssumption
<1>6. 1 \in 1 .. MaxSessions /\ 0 \in 0 .. MaxFaults
  BY EepromAssumption
<1>7. cmd.op \in {"write", "verify", "restore"} /\ 0 \in 0 .. Size(cmd.file)
  BY <1>3 DEF CommandRecords
<1>8. TypeOK
  BY <1>1, <1>2, <1>4, <1>5, <1>6, <1>7 DEF Init, TypeOK, Buffers
<1>9. PageBounds
  BY <1>7 DEF Init, PageBounds
<1> QED BY <1>8, <1>9 DEF TypeInv

\* A process that is gone leaves variables of their types.
LEMMA GoneType ==
  ASSUME ProcessGone, NEW f \in Files
  PROVE  /\ ret' \in {0, -1} /\ file_buffer' \in Buffers
         /\ start_address' \in Addresses /\ addr' \in Nat
         /\ sector' \in Nat /\ esectors' \in Nat
         /\ fpos' \in 0 .. Size(f) /\ eof' \in BOOLEAN
         /\ bytesread' \in 0 .. BufferSize
         /\ bindex' \in Nat /\ bindex' % PageSize = 0
<1>1. 0 \in Addresses
  BY Geometry DEF Addresses
<1>2. 0 % PageSize = 0 /\ 0 \in 0 .. BufferSize
  BY GeometryAssumption, EepromAssumption
<1>3. 0 \in 0 .. Size(f)
  BY FileType
<1>4. ZeroBuffer \in Buffers
  BY BytesType DEF ZeroBuffer, Buffers
<1> QED
  BY <1>1, <1>2, <1>3, <1>4 DEF ProcessGone

\* An operation of the chip, done or not, leaves memory and counter in type.
LEMMA OperateType ==
  ASSUME TypeOK, NEW done \in Memory, NEW failures \in SUBSET Memory,
         Operate(done, failures)
  PROVE  flash' \in Memory /\ faults' \in 0 .. MaxFaults
  BY EepromAssumption DEF TypeOK, Operate

\* The first page of the buffer, where write_boot puts the boot block.
LEMMA FirstPageType ==
  ASSUME file_buffer \in Buffers
  PROVE  BufferPage(0) \in Page
<1>1. PageSize <= BufferSize
  <2>1. PageSize \in Nat \ {0} /\ BufferSize \in Nat \ {0}
        /\ BufferSize % PageSize = 0 /\ 0 % PageSize = 0
    BY GeometryAssumption, EepromAssumption
  <2>2. 0 + PageSize <= BufferSize
    BY <2>1, MultiplesApart
  <2> QED BY <2>1, <2>2
<1>2. ASSUME NEW k \in 0 .. PageSize - 1 PROVE file_buffer[0 + k] \in Bytes
  BY <1>1, GeometryAssumption, EepromAssumption DEF Buffers, BufferIndex
<1> QED BY <1>2 DEF BufferPage, Page

\* What is left of an operation cut short is a memory.
LEMMA CutShortType ==
  ASSUME TypeOK, NEW a \in Int
  PROVE  /\ PartlyErased(a) \subseteq Memory
         /\ \A page \in Page : PartlyProgrammed(a, page) \subseteq Memory
<1>1. flash \in Memory
  BY DEF TypeOK
<1>2. SectorErased(flash, a) \in Memory
  BY <1>1, MemoryType
<1>3. \A page \in Page : PageProgrammed(flash, a, page) \in Memory
  BY <1>1, MemoryType
<1> QED BY <1>1, <1>2, <1>3, PartlyType DEF PartlyErased, PartlyProgrammed

\* erase_sector keeps the types of the chip.
LEMMA EraseType ==
  ASSUME TypeOK, NEW a \in Int, EraseSector(a)
  PROVE  flash' \in Memory /\ faults' \in 0 .. MaxFaults
<1>1. flash \in Memory
  BY DEF TypeOK
<1>2. PartlyErased(a) \subseteq Memory
  BY CutShortType
<1> QED BY <1>1, <1>2, MemoryType, OperateType DEF EraseSector

\* So does write_page with any page.
LEMMA WriteType ==
  ASSUME TypeOK, NEW a \in Int, NEW page \in Page, WritePage(a, page)
  PROVE  flash' \in Memory /\ faults' \in 0 .. MaxFaults
<1>1. flash \in Memory
  BY DEF TypeOK
<1>2. PartlyProgrammed(a, page) \subseteq Memory
  BY CutShortType
<1> QED BY <1>1, <1>2, MemoryType, OperateType DEF WritePage

\* fread keeps the types of the file variables and of the buffer.
LEMMA FreadType ==
  ASSUME TypeOK, Fread
  PROVE  /\ fpos' \in 0 .. Size(cmd.file) /\ eof' \in BOOLEAN
         /\ bytesread' \in 0 .. BufferSize
         /\ bindex' = 0 /\ bindex' % PageSize = 0
         /\ file_buffer' \in Buffers
<1>1. cmd.file \in Files /\ fpos \in Nat /\ file_buffer \in Buffers
  BY CommandType, FileType DEF TypeOK, Buffers
<1>2. 0 % PageSize = 0
  BY GeometryAssumption
<1> QED
  BY <1>1, <1>2, AvailableType, FilledType DEF Fread, TypeOK

\* Every step keeps the types.
LEMMA TypeNext == TypeInv /\ [Next]_vars => TypeInv'
<1> SUFFICES ASSUME TypeInv, [Next]_vars PROVE TypeInv'
  OBVIOUS
<1> USE DEF TypeInv, TypeOK, PageBounds, Goto, Exit, chipVars, runVars,
            addrVars, fileVars
<1>f. cmd.file \in Files /\ cmd.op \in {"write", "verify", "restore"}
  BY CommandType
<1>1. CASE StartSession
  <2>1. cmd' \in CommandRecords
    BY <1>1, EepromAssumption DEF StartSession
  <2>2. cmd'.file \in Files /\ cmd'.op \in {"write", "verify", "restore"}
    BY <2>1 DEF CommandRecords
  <2>3. sessions' \in 1 .. MaxSessions
    BY <1>1, EepromAssumption DEF StartSession
  <2>4. PageBounds'
    BY <1>1, <2>2 DEF StartSession
  <2>5. /\ ProcessGone /\ board' = board /\ flash' = flash /\ faults' = faults
        /\ cmd' \in Commands /\ pc' = cmd'.op
    BY <1>1 DEF StartSession
  <2>6. TypeOK'
    BY <2>2, <2>3, <2>5, GoneType DEF Buffers
  <2> QED BY <2>4, <2>6
<1>2. CASE Crash
  <2>1. flash' \in Memory
    <3>1. flash' \in InFlight
      BY <1>2 DEF Crash
    <3>2. CASE pc \in {"eraseBoot", "erase"}
      <4>1. PartlyErased(0) \subseteq Memory /\ PartlyErased(addr) \subseteq Memory
        BY CutShortType, 0 \in Int DEF TypeInv, TypeOK
      <4> QED BY <3>1, <3>2, <4>1 DEF InFlight
    <3>3. CASE pc = "writeBoot"
      <4>1. PartlyProgrammed(0, BufferPage(0)) \subseteq Memory
        BY FirstPageType, CutShortType, 0 \in Int DEF Buffers
      <4> QED BY <3>1, <3>3, <4>1 DEF InFlight
    <3>5. CASE pc = "programPage"
      <4>1. BufferPage(bindex) \in Page
        BY <3>5, BufferPageType DEF Buffers
      <4>2. PartlyProgrammed(addr, BufferPage(bindex)) \subseteq Memory
        BY <4>1, CutShortType DEF TypeInv, TypeOK
      <4> QED BY <3>1, <3>5, <4>2 DEF InFlight
    <3>4. CASE pc \notin {"eraseBoot", "erase", "writeBoot", "programPage"}
      BY <1>2, <3>4 DEF Crash, InFlight, TypeInv, TypeOK
    <3> QED BY <3>2, <3>3, <3>4, <3>5
  <2> QED
    BY <1>2, <2>1, <1>f, GoneType DEF Crash, Buffers
<1>3. CASE OpenForWrite
  <2>1. start_address' \in Addresses
    BY <1>3, CommandType, StartAddressType DEF OpenForWrite
  <2>2. file_buffer' \in Buffers
    BY <1>3, <1>f, AfterWholeFileType DEF OpenForWrite, Buffers
  <2>3. ~WriteRefused(board, cmd) => Header(cmd.file) \in 0 .. Size(cmd.file)
    BY <1>f, FileType DEF WriteRefused
  <2> QED
    BY <1>3, <2>1, <2>2, <2>3 DEF OpenForWrite, Buffers
<1>4. CASE CheckBoot
  BY <1>4 DEF CheckBoot
<1>5. CASE EraseBoot
  <2>1. flash' \in Memory /\ faults' \in 0 .. MaxFaults
    BY <1>5, EraseType DEF EraseBoot
  <2>2. file_buffer' \in Buffers
    BY <1>5, BytesType, GeometryAssumption, EepromAssumption
       DEF EraseBoot, BootPage, Buffers, BufferIndex
  <2> QED
    BY <1>5, <2>1, <2>2 DEF EraseBoot, Buffers
<1>6. CASE WriteBoot
  <2>1. BufferPage(0) \in Page
    BY FirstPageType DEF Buffers
  <2>2. flash' \in Memory /\ faults' \in 0 .. MaxFaults
    BY <1>6, <2>1, WriteType DEF WriteBoot
  <2> QED
    BY <1>6, <2>2 DEF WriteBoot
<1>7. CASE RecheckBoot
  BY <1>7 DEF RecheckBoot
<1>8. CASE StartProgramming
  <2>1. LastSector(Size(cmd.file)) \in Nat
    BY <1>f, FileType, GeometryAssumption DEF LastSector
  <2> QED
    BY <1>8, <2>1, Geometry DEF StartProgramming, Addresses
<1>9. CASE EraseNext
  <2>1. flash' \in Memory /\ faults' \in 0 .. MaxFaults
    BY <1>9, EraseType DEF EraseNext
  <2>2. addr' \in Nat /\ sector' \in Nat
    BY <1>9, Geometry, GeometryAssumption DEF EraseNext, Addresses
  <2> QED
    BY <1>9, <2>1, <2>2 DEF EraseNext
<1>10. CASE ReadToProgram
  BY <1>10, FreadType DEF ReadToProgram, Buffers
<1>11. CASE ProgramNext
  <2>1. BufferPage(bindex) \in Page
    BY <1>11, BufferPageType DEF ProgramNext, Buffers
  <2>2. flash' \in Memory /\ faults' \in 0 .. MaxFaults
    BY <1>11, <2>1, WriteType DEF ProgramNext
  <2>3. bindex' \in Nat /\ bindex' % PageSize = 0 /\ addr' \in Nat
    BY <1>11, NextMultiple, GeometryAssumption DEF ProgramNext
  <2> QED
    BY <1>11, <2>2, <2>3 DEF ProgramNext
<1>12. CASE ProgrammingDone
  BY <1>12 DEF ProgrammingDone, AfterProgramming
<1>13. CASE OpenForVerify
  <2>1. VerifyStart(board, cmd) \in Addresses
    BY CommandType, StartAddressType, Geometry DEF VerifyStart, Addresses
  <2>2. ~VerifyRefused(board, cmd.file)
          => VerifyOffset(cmd.file) \in 0 .. Size(cmd.file)
    BY <1>f, FileType DEF VerifyRefused, VerifyOffset
  <2>3. 0 % PageSize = 0 /\ 0 \in 0 .. BufferSize
    BY GeometryAssumption, EepromAssumption
  <2>4. CASE VerifyRefused(board, cmd.file)
    BY <1>13, <2>4 DEF OpenForVerify
  <2>5. CASE ~VerifyRefused(board, cmd.file)
    <3>1. addr' \in Nat /\ start_address' \in Addresses
      BY <1>13, <2>1, <2>5, Geometry DEF OpenForVerify, Addresses
    <3>2. /\ fpos' \in 0 .. Size(cmd.file) /\ eof' = FALSE
          /\ bytesread' = 0 /\ bindex' = 0 /\ pc' = "compare" /\ ret' = ret
          /\ UNCHANGED <<runVars, chipVars, file_buffer, sector, esectors>>
      BY <1>13, <2>2, <2>5 DEF OpenForVerify
    <3>3. bytesread' \in 0 .. BufferSize /\ bindex' % PageSize = 0
      BY <2>3, <3>2
    <3> QED
      BY <3>1, <3>2, <3>3
  <2> QED BY <2>4, <2>5
<1>14. CASE ReadToCompare
  BY <1>14, FreadType DEF ReadToCompare, Buffers
<1>15. CASE CompareNext
  <2>1. (bindex + PageSize) \in Nat /\ (bindex + PageSize) % PageSize = 0
        /\ (addr + PageSize) \in Nat
    BY NextMultiple, GeometryAssumption
  <2> QED
    BY <1>15, <2>1 DEF CompareNext
<1>16. CASE VerificationDone
  BY <1>16 DEF VerificationDone, AfterVerification
<1>17. CASE OpenForRestore
  <2>1. file_buffer' \in Buffers
    BY <1>17, <1>f, AfterWholeFileType DEF OpenForRestore, Buffers
  <2>2. FlashSectors - 1 \in Nat
    BY GeometryAssumption
  <2> QED
    BY <1>17, <2>1, <2>2 DEF OpenForRestore, Buffers
<1>18. CASE Reload
  BY <1>18 DEF Reload
<1>19. CASE UNCHANGED vars
  BY <1>19 DEF vars
<1> QED
  BY <1>1, <1>2, <1>3, <1>4, <1>5, <1>6, <1>7, <1>8, <1>9, <1>10, <1>11, <1>12,
     <1>13, <1>14, <1>15, <1>16, <1>17, <1>18, <1>19 DEF Next, Step

\* Every variable keeps its type, fread never returns more than it was asked
\* for, and the cursor in file_buffer is always at a page (eeprom.c:321-328).
THEOREM TypeCorrect == Spec => []TypeOK
<1>1. TypeInv => TypeOK
  BY DEF TypeInv
<1> QED BY TypeInit, TypeNext, <1>1, PTL DEF Spec

-----------------------------------------------------------------------------
(* The image *)

\* The inductive invariant holds when the first run starts.
LEMMA MainInit == Init => IInv
<1> SUFFICES ASSUME Init PROVE IInv
  OBVIOUS
<1>1. TypeInv
  BY TypeInit
<1>2. pc = cmd.op /\ cmd.op \in {"write", "verify", "restore"}
  BY <1>1, CommandType DEF Init, TypeInv
<1> QED
  BY <1>1, <1>2
     DEF IInv, Stages, Comparing, SuccessMeansImage, Verified, ReloadsOnlyImage

\* The steps of a run come in the order of its command.
LEMMA StagesNext == TypeInv /\ Stages /\ [Next]_vars => Stages'
<1> SUFFICES ASSUME TypeInv, Stages, [Next]_vars PROVE Stages'
  OBVIOUS
<1> USE DEF Stages, Goto, Exit, runVars
<1>f. cmd.op \in {"write", "verify", "restore"}
  BY CommandType DEF TypeInv
<1>1. CASE StartSession
  <2>1. cmd' \in CommandRecords /\ pc' = cmd'.op
    BY <1>1, EepromAssumption DEF StartSession
  <2> QED BY <2>1 DEF CommandRecords
<1>2. CASE Crash
  BY <1>2 DEF Crash
<1>3. CASE OpenForWrite \/ CheckBoot \/ EraseBoot \/ WriteBoot \/ RecheckBoot
  BY <1>3 DEF OpenForWrite, CheckBoot, EraseBoot, WriteBoot, RecheckBoot
<1>4. CASE StartProgramming \/ EraseNext \/ ReadToProgram \/ ProgramNext
  BY <1>4 DEF StartProgramming, EraseNext, ReadToProgram, ProgramNext
<1>5. CASE ProgrammingDone
  BY <1>5 DEF ProgrammingDone, AfterProgramming
<1>6. CASE OpenForVerify \/ ReadToCompare \/ CompareNext
  BY <1>6 DEF OpenForVerify, ReadToCompare, CompareNext
<1>7. CASE VerificationDone
  BY <1>7 DEF VerificationDone, AfterVerification
<1>8. CASE OpenForRestore \/ Reload
  BY <1>8 DEF OpenForRestore, Reload
<1>9. CASE UNCHANGED vars
  BY <1>9 DEF vars
<1> QED
  BY <1>1, <1>2, <1>3, <1>4, <1>5, <1>6, <1>7, <1>8, <1>9 DEF Next, Step

\* A step to a state in which nothing is claimed about the flash.
LEMMA NothingClaimed ==
  ASSUME pc' \notin {"compare", "comparePage", "reload"},
         pc' = "exit" => ret' = -1
  PROVE  Comparing' /\ SuccessMeansImage' /\ ReloadsOnlyImage'
  BY DEF Comparing, SuccessMeansImage, Verified, ReloadsOnlyImage

\* The comparison has only just begun.
LEMMA OpenForVerifyStep ==
  ASSUME TypeInv, OpenForVerify, ~VerifyRefused(board, cmd.file)
  PROVE  Comparing' /\ pc' = "compare"
<1> DEFINE offset == VerifyOffset(cmd.file)
<1>1. cmd.file \in Files
  BY CommandType DEF TypeInv
<1>2. offset \in Nat /\ offset' = offset
  <2>1. cmd' = cmd
    BY DEF OpenForVerify, runVars
  <2>2. offset \in Nat
    BY <1>1, FileType DEF VerifyRefused, VerifyOffset
  <2> QED BY <2>1, <2>2
<1>3. /\ pc' = "compare" /\ cmd' = cmd /\ board' = board /\ flash' = flash
      /\ start_address' = VerifyStart(board, cmd) /\ addr' = start_address'
      /\ fpos' = offset /\ eof' = FALSE
  BY DEF OpenForVerify, runVars, chipVars, Goto
<1>4. VerifyStart(board, cmd) \in Nat
  BY CommandType, StartAddressType, Geometry
     DEF TypeInv, TypeOK, VerifyStart, Addresses
<1>5. HasBootBlock(board) /\ ~WholeFlash(cmd.file) => BootBlockOK(flash)
  BY DEF VerifyRefused
<1>6. Compared' = offset
  BY <1>3 DEF Compared
<1> HIDE DEF offset
<1>7. addr' = start_address' + (offset - offset) /\ offset <= offset
  BY <1>2, <1>3, <1>4
<1>8. 0 .. offset - offset - 1 = {}
  BY <1>2
<1> QED
  BY <1>2, <1>3, <1>5, <1>6, <1>7, <1>8 DEF Comparing, offset

\* The buffer is filled from where the comparison stands.
LEMMA ReadToCompareStep ==
  ASSUME TypeInv, Comparing, ReadToCompare
  PROVE  Comparing' /\ pc' \in {"compare", "comparePage"}
<1> DEFINE f == cmd.file  offset == VerifyOffset(f)  n == Available(f, fpos)
<1>1. f \in Files /\ fpos \in 0 .. Size(f) /\ BufferSize \in Nat \ {0}
  BY CommandType, EepromAssumption DEF TypeInv, TypeOK
<1>2. /\ n \in 0 .. BufferSize /\ fpos + n \in 0 .. Size(f)
      /\ n < BufferSize => fpos + n = Size(f)
  BY <1>1, AvailableType
<1>3. /\ cmd' = cmd /\ board' = board /\ flash' = flash
      /\ start_address' = start_address /\ addr' = addr
      /\ fpos' = fpos + n /\ eof' = (n < BufferSize) /\ bytesread' = n
      /\ bindex' = 0 /\ pc = "compare" /\ ~eof
      /\ pc' = IF n > 0 THEN "comparePage" ELSE "compare"
      /\ file_buffer' = Filled(f, fpos, file_buffer)
  BY DEF ReadToCompare, Fread, Goto, runVars, chipVars, addrVars
<1>4. /\ offset \in Nat /\ offset <= fpos
      /\ start_address = VerifyStart(board, cmd)
      /\ HasBootBlock(board) /\ ~WholeFlash(f) => BootBlockOK(flash)
      /\ addr = start_address + (fpos - offset)
      /\ \A i \in 0 .. fpos - offset - 1 :
           flash[Decode(start_address + i)] = Byte(f, offset + i)
  BY <1>3 DEF Comparing, Compared
<1>5. \A j \in 0 .. n - 1 : file_buffer'[j] = Byte(f, fpos + j)
  <2> TAKE j \in 0 .. n - 1
  <2>1. j \in BufferIndex /\ j < n
    BY <1>1, <1>2 DEF BufferIndex
  <2> QED BY <1>3, <2>1 DEF Filled
<1>6. Compared' = fpos
  <2> HIDE DEF n, f
  <2> QED BY <1>1, <1>2, <1>3 DEF Compared
<1>7. n = 0 => fpos' = fpos /\ fpos = Size(f)
  <2> HIDE DEF n, f
  <2> QED BY <1>1, <1>2, <1>3
<1>8. n > 0 => fpos' - bytesread' = fpos
  <2> HIDE DEF n, f
  <2> QED BY <1>1, <1>2, <1>3
<1>9. eof' => fpos' = Size(f)
  BY <1>2, <1>3
<1>10. ~eof' => bytesread' = BufferSize
  <2>1. ~eof' => ~(n < BufferSize)
    BY <1>3
  <2>2. ~(n < BufferSize) => n = BufferSize
    <3> HIDE DEF n, f
    <3> QED BY <1>1, <1>2
  <2> QED BY <2>1, <2>2, <1>3
<1>11. offset' = offset /\ f' = f
  BY <1>3
<1> HIDE DEF n, f, offset
<1> QED
  BY <1>3, <1>4, <1>5, <1>6, <1>8, <1>9, <1>10, <1>11 DEF Comparing, f, offset

\* One more page of the flash is the file's.
LEMMA CompareNextStep ==
  ASSUME TypeInv, Comparing, CompareNext, PageMatches, pc' # "exit"
  PROVE  Comparing' /\ pc' \in {"compare", "comparePage"}
<1> DEFINE f == cmd.file  offset == VerifyOffset(f)
           base == fpos - bytesread
<1>1. /\ f \in Files /\ fpos \in Nat /\ bytesread \in 0 .. BufferSize
      /\ bindex \in Nat /\ addr \in Nat /\ bindex % PageSize = 0
      /\ start_address \in Addresses /\ BufferSize \in Nat \ {0}
      /\ PageSize \in Nat \ {0}
  BY CommandType, FileType, EepromAssumption, GeometryAssumption DEF TypeInv, TypeOK
<1>2. pc = "comparePage" /\ bindex < bytesread
  BY DEF CompareNext, TypeInv, PageBounds
<1>3. bindex + PageSize <= BufferSize
  BY <1>1, <1>2, BufferPageType DEF TypeInv, TypeOK, Buffers
<1>4. /\ cmd' = cmd /\ board' = board /\ flash' = flash
      /\ start_address' = start_address /\ file_buffer' = file_buffer
      /\ fpos' = fpos /\ eof' = eof /\ bytesread' = bytesread
      /\ bindex' = bindex + PageSize /\ addr' = addr + PageSize
      /\ pc' = IF bindex + PageSize < bytesread THEN "comparePage" ELSE "compare"
  BY DEF CompareNext, Goto, runVars, chipVars
<1>5. /\ offset \in Nat /\ start_address = VerifyStart(board, cmd)
      /\ HasBootBlock(board) /\ ~WholeFlash(f) => BootBlockOK(flash)
      /\ eof => fpos = Size(f)
      /\ offset <= base
      /\ addr = start_address + (base + bindex - offset)
      /\ ~eof => bytesread = BufferSize
      /\ \A i \in 0 .. base + bindex - offset - 1 :
           flash[Decode(start_address + i)] = Byte(f, offset + i)
      /\ \A j \in 0 .. bytesread - 1 : file_buffer[j] = Byte(f, base + j)
  <2>1. Compared = base + bindex
    BY <1>2 DEF Compared
  <2>2. /\ offset \in Nat /\ start_address = VerifyStart(board, cmd)
        /\ HasBootBlock(board) /\ ~WholeFlash(f) => BootBlockOK(flash)
        /\ eof => fpos = Size(f)
    BY <1>2 DEF Comparing
  <2>3. offset <= base /\ addr = start_address + (base + bindex - offset)
    BY <1>1, <1>2, <2>1, <2>2 DEF Comparing
  <2>4. ~eof => bytesread = BufferSize
    BY <1>2 DEF Comparing
  <2>5. \A i \in 0 .. base + bindex - offset - 1 :
          flash[Decode(start_address + i)] = Byte(f, offset + i)
    BY <1>1, <1>2, <2>1, <2>2 DEF Comparing
  <2>6. \A j \in 0 .. bytesread - 1 : file_buffer[j] = Byte(f, base + j)
    BY <1>2 DEF Comparing
  <2> QED BY <2>2, <2>3, <2>4, <2>5, <2>6
<1>6. base \in Nat /\ start_address \in Nat
  BY <1>1, <1>5, Geometry DEF Addresses
<1>7. ASSUME NEW k \in 0 .. PageSize - 1, bindex + k < bytesread
      PROVE  flash[Decode(addr + k)] = Byte(f, base + (bindex + k))
  <2>1. PageAt(flash, addr)[k] = BufferPage(bindex)[k]
    BY DEF PageMatches
  <2>2. flash[Decode(addr + k)] = file_buffer[bindex + k]
    BY <2>1 DEF PageAt, BufferPage
  <2>3. bindex + k \in 0 .. bytesread - 1
    BY <1>1, <1>7
  <2> QED BY <2>2, <2>3, <1>5
<1>8. /\ Compared' = IF bindex + PageSize < bytesread
                       THEN base + bindex + PageSize ELSE fpos
      /\ fpos = base + bytesread
  <2> HIDE DEF f, offset
  <2>1. fpos - bytesread + (bindex + PageSize) = base + bindex + PageSize
    BY <1>1
  <2>2. fpos = base + bytesread
    BY <1>1
  <2> QED BY <1>4, <2>1, <2>2 DEF Compared
<1> HIDE DEF f, offset, base
<1>9. ASSUME NEW i \in 0 .. Compared' - offset - 1
      PROVE  flash[Decode(start_address + i)] = Byte(f, offset + i)
  <2>1. CASE i <= base + bindex - offset - 1
    <3>1. i \in 0 .. base + bindex - offset - 1
      BY <2>1, <1>1, <1>5, <1>6
    <3> QED BY <3>1, <1>5
  <2>2. CASE i > base + bindex - offset - 1
    <3> DEFINE k == i - (base + bindex - offset)
    <3>1. k \in 0 .. PageSize - 1 /\ bindex + k < bytesread
      BY <2>2, <1>1, <1>5, <1>6, <1>8
    <3>2. addr + k = start_address + i /\ base + (bindex + k) = offset + i
      BY <2>2, <1>1, <1>5, <1>6
    <3> HIDE DEF k
    <3>3. flash[Decode(addr + k)] = Byte(f, base + (bindex + k))
      BY <3>1, <1>7
    <3> QED BY <3>2, <3>3
  <2>3. i \in Int /\ base + bindex - offset - 1 \in Int
    BY <1>1, <1>5, <1>6, <1>8
  <2> QED BY <2>1, <2>2, <2>3
<1>10. offset <= Compared'
  BY <1>1, <1>5, <1>6, <1>8
<1>11. ~eof => addr' = start_address + (Compared' - offset)
  BY <1>1, <1>3, <1>4, <1>5, <1>6, <1>8
<1>12. pc' = "comparePage" => addr' = start_address + (Compared' - offset)
  BY <1>1, <1>4, <1>5, <1>6, <1>8
<1>13. offset' = offset /\ f' = f /\ base' = base
  BY <1>4 DEF f, offset, base
<1> QED
  BY <1>4, <1>5, <1>9, <1>10, <1>11, <1>12, <1>13
     DEF Comparing, f, offset, base

\* When the file has been read to its end, the flash holds all of it.
LEMMA ComparedAll ==
  ASSUME TypeInv, Comparing, pc = "compare", eof
  PROVE  ImageInFlash
<1>1. Compared = Size(cmd.file)
  BY DEF Comparing, Compared
<1>2. Holds(flash, VerifyStart(board, cmd), cmd.file, VerifyOffset(cmd.file))
  BY <1>1 DEF Comparing, Holds
<1>3. ImageIn(board, cmd, flash)
  BY <1>2 DEF ImageIn, IsDump, VerifyStart, VerifyOffset, WholeFlash
<1> QED BY <1>3 DEF Comparing, ImageInFlash, Achieved, IsDump, WholeFlash

\* Every step keeps the inductive invariant.
LEMMA MainNext == IInv /\ [Next]_vars => IInv'
<1> SUFFICES ASSUME IInv, [Next]_vars PROVE IInv'
  OBVIOUS
<1> USE DEF IInv
<1>t. TypeInv' /\ Stages'
  BY TypeNext, StagesNext
<1>s. SUFFICES Comparing' /\ SuccessMeansImage' /\ ReloadsOnlyImage'
  BY <1>t
<1>f. cmd.op \in {"write", "verify", "restore"}
  BY CommandType DEF TypeInv
<1>1. CASE StartSession
  <2>1. pc' \in {"write", "verify", "restore"}
    BY <1>1, EepromAssumption DEF StartSession, CommandRecords
  <2> QED BY <2>1, NothingClaimed
<1>2. CASE Crash
  <2>1. pc' = "idle"
    BY <1>2 DEF Crash
  <2> QED BY <2>1, NothingClaimed
<1>3. CASE OpenForWrite \/ CheckBoot \/ EraseBoot \/ WriteBoot \/ RecheckBoot
  <2>1. pc' \notin {"compare", "comparePage", "reload"} /\ (pc' = "exit" => ret' = -1)
    BY <1>3 DEF OpenForWrite, CheckBoot, EraseBoot, WriteBoot, RecheckBoot, Goto, Exit
  <2> QED BY <2>1, NothingClaimed
<1>4. CASE StartProgramming \/ EraseNext \/ ReadToProgram \/ ProgramNext \/ OpenForRestore
  <2>1. pc' \notin {"compare", "comparePage", "reload"} /\ (pc' = "exit" => ret' = -1)
    BY <1>4 DEF StartProgramming, EraseNext, ReadToProgram, ProgramNext,
                OpenForRestore, Goto, Exit
  <2> QED BY <2>1, NothingClaimed
<1>5. CASE ProgrammingDone
  <2>1. cmd' = cmd /\ pc' \in {"verify", "reload", "exit"}
        /\ (pc' # "verify" => ~cmd.verify /\ cmd.op # "verify")
    BY <1>5 DEF ProgrammingDone, AfterProgramming, Goto, Exit, runVars, Stages
  <2> QED
    BY <2>1 DEF Comparing, SuccessMeansImage, Verified, ReloadsOnlyImage
<1>6. CASE OpenForVerify
  <2>1. CASE VerifyRefused(board, cmd.file)
    <3>1. pc' = "exit" /\ ret' = -1
      BY <1>6, <2>1 DEF OpenForVerify, Exit
    <3> QED BY <3>1, NothingClaimed
  <2>2. CASE ~VerifyRefused(board, cmd.file)
    BY <1>6, <2>2, OpenForVerifyStep
       DEF SuccessMeansImage, Verified, ReloadsOnlyImage
  <2> QED BY <2>1, <2>2
<1>7. CASE ReadToCompare
  BY <1>7, ReadToCompareStep DEF SuccessMeansImage, Verified, ReloadsOnlyImage
<1>8. CASE CompareNext
  <2>1. CASE pc' = "exit"
    <3>1. ret' = -1
      BY <1>8, <2>1 DEF CompareNext, Exit, Goto
    <3> QED BY <2>1, <3>1, NothingClaimed
  <2>2. CASE pc' # "exit"
    <3>1. PageMatches
      BY <1>8, <2>2 DEF CompareNext, Exit
    <3> QED
      BY <1>8, <2>2, <3>1, CompareNextStep
         DEF SuccessMeansImage, Verified, ReloadsOnlyImage
  <2> QED BY <2>1, <2>2
<1>9. CASE VerificationDone
  <2>1. ImageInFlash
    BY <1>9, ComparedAll DEF VerificationDone
  <2>2. ImageInFlash' /\ pc' \in {"reload", "exit"}
    BY <1>9, <2>1 DEF VerificationDone, AfterVerification, Goto, Exit, runVars,
                      chipVars, ImageInFlash, Achieved, ImageIn, IsDump,
                      Holds, BootBlockOK
  <2> QED BY <2>2 DEF Comparing, SuccessMeansImage, ReloadsOnlyImage
<1>10. CASE Reload
  <2>1. /\ pc' = "exit" /\ cmd' = cmd /\ board' = board /\ flash' = flash
        /\ cmd.op = "write"
    BY <1>10 DEF Reload, Exit, runVars, chipVars, Stages
  <2>2. cmd.verify => ImageInFlash'
    BY <1>10, <2>1 DEF Reload, ReloadsOnlyImage, ImageInFlash, Achieved, ImageIn, IsDump,
                      Holds, BootBlockOK
  <2> QED BY <2>1, <2>2 DEF Comparing, SuccessMeansImage, Verified, ReloadsOnlyImage
<1>11. CASE UNCHANGED vars
  BY <1>11 DEF vars, chipVars, runVars, addrVars, fileVars, Comparing, Compared,
     SuccessMeansImage, Verified, ReloadsOnlyImage, ImageInFlash, Achieved, ImageIn, IsDump,
                      Holds, BootBlockOK
<1> QED
  BY <1>1, <1>2, <1>3, <1>4, <1>5, <1>6, <1>7, <1>8, <1>9, <1>10, <1>11 DEF Next, Step

\* Whatever the chip failed to do and wherever earlier runs were cut short, a
\* verification that finds no difference and lets main return 0 has seen the
\* whole file in its place (eeprom_verify, eeprom.c:344-426).
THEOREM SuccessIsImage == Spec => []SuccessMeansImage
<1>1. IInv => SuccessMeansImage
  BY DEF IInv
<1> QED BY MainInit, MainNext, <1>1, PTL DEF Spec

\* A board is never told to load an image that was to be verified and is not
\* in its flash (main, mesaflash.c:557-564).
THEOREM ReloadIsImage == Spec => []ReloadsOnlyImage
<1>1. IInv => ReloadsOnlyImage
  BY DEF IInv
<1> QED BY MainInit, MainNext, <1>1, PTL DEF Spec

-----------------------------------------------------------------------------
(* The refinement *)

\* main returns without touching the flash, and a run that starts finds the
\* flash that the last one left.
LEMMA QuietEnds ==
  ASSUME TypeInv, Next
  PROVE  /\ pc' = "exit" => flash' = flash
         /\ pc \in {"idle", "exit"} => flash' = flash /\ pc' \notin {"idle", "exit"}
         /\ pc \notin {"idle", "exit"} => cmd' = cmd /\ board' = board
<1> USE DEF Goto, Exit, runVars, chipVars
<1>1. CASE StartSession
  <2>1. cmd' \in CommandRecords /\ pc' = cmd'.op /\ pc \in {"idle", "exit"}
        /\ flash' = flash
    BY <1>1, EepromAssumption DEF StartSession
  <2> QED BY <2>1 DEF CommandRecords
<1>2. CASE Crash
  BY <1>2 DEF Crash
<1>3. CASE OpenForWrite \/ CheckBoot \/ EraseBoot \/ WriteBoot \/ RecheckBoot
  BY <1>3 DEF OpenForWrite, CheckBoot, EraseBoot, WriteBoot, RecheckBoot
<1>4. CASE StartProgramming \/ EraseNext \/ ReadToProgram \/ ProgramNext
  BY <1>4 DEF StartProgramming, EraseNext, ReadToProgram, ProgramNext
<1>5. CASE ProgrammingDone
  BY <1>5 DEF ProgrammingDone, AfterProgramming
<1>6. CASE OpenForVerify \/ ReadToCompare \/ CompareNext
  BY <1>6 DEF OpenForVerify, ReadToCompare, CompareNext
<1>7. CASE VerificationDone
  BY <1>7 DEF VerificationDone, AfterVerification
<1>8. CASE OpenForRestore \/ Reload
  BY <1>8 DEF OpenForRestore, Reload
<1> QED
  BY <1>1, <1>2, <1>3, <1>4, <1>5, <1>6, <1>7, <1>8 DEF Next, Step

\* A step of the program, the user or the power is a step of an update.
LEMMA UpdateNext ==
  IInv /\ IInv' /\ [Next]_vars => [Update!Next]_(Update!vars)
<1> SUFFICES ASSUME IInv, IInv', [Next]_vars PROVE [Update!Next]_(Update!vars)
  OBVIOUS
<1>1. CASE UNCHANGED vars
  <2>1. <<flash, <<board, cmd>>, Outcome>>' = <<flash, <<board, cmd>>, Outcome>>
    BY <1>1 DEF vars, chipVars, runVars, Outcome, Verified
  <2> QED BY <2>1 DEF Update!vars
<1>2. CASE Next /\ pc \in {"idle", "exit"}
  <2>1. flash' = flash /\ pc' \notin {"idle", "exit"}
    BY <1>2, QuietEnds DEF IInv
  <2>2. Outcome # "running" /\ Outcome' = "running"
    BY <1>2, <2>1 DEF Outcome, Verified
  <2> QED BY <2>1, <2>2 DEF Update!Next, Update!Begin
<1>3. CASE Next /\ pc \notin {"idle", "exit"}
  <2>1. cmd' = cmd /\ board' = board /\ (pc' = "exit" => flash' = flash)
    BY <1>3, QuietEnds DEF IInv
  <2>2. Outcome = "running"
    BY <1>3 DEF Outcome, Verified
  <2>3. CASE Verified'
    <3>1. Outcome' = "verified" /\ flash' = flash
      BY <2>1, <2>3 DEF Outcome, Verified
    <3>2. ImageInFlash'
      BY <2>3 DEF IInv, SuccessMeansImage
    <3>3. Achieved(<<board, cmd>>, flash)
      BY <2>1, <3>1, <3>2
         DEF ImageInFlash, Achieved, ImageIn, IsDump, Holds, BootBlockOK
    <3> QED BY <2>1, <2>2, <3>1, <3>3 DEF Update!Next, Update!Succeed
  <2>4. CASE ~Verified' /\ pc' \in {"idle", "exit"}
    <3>1. Outcome' = "stopped"
      BY <2>4 DEF Outcome
    <3> QED BY <2>1, <2>2, <3>1 DEF Update!Next, Update!Stop
  <2>5. CASE ~Verified' /\ pc' \notin {"idle", "exit"}
    <3>1. Outcome' = "running"
      BY <2>5 DEF Outcome
    <3> QED BY <2>1, <2>2, <3>1 DEF Update!Next, Update!Work
  <2> QED BY <2>3, <2>4, <2>5
<1> QED BY <1>1, <1>2, <1>3

\* Any number of runs of the program, cut short and with a failing chip, are
\* updates of the flash as FlashUpdate promises them (mesaflash.c:555-584).
THEOREM EepromImplementsUpdate == Spec => ImplementsUpdate
<1>1. Init => Update!Init
  <2> SUFFICES ASSUME Init PROVE Update!Init
    OBVIOUS
  <2>1. pc \notin {"idle", "exit"}
    BY EepromAssumption DEF Init, CommandRecords
  <2> QED BY <2>1 DEF Update!Init, Outcome, Verified
<1> QED
  BY <1>1, MainInit, MainNext, UpdateNext, PTL DEF Spec, ImplementsUpdate, Update!Spec
=============================================================================
