------------------------------- MODULE Eeprom -------------------------------
(***************************************************************************)
(* Updating the configuration flash of a board: the flash commands of      *)
(* mesaflash.c's main (--write, --verify, --restore-flash, --reload after  *)
(* a write), the address choice of anyio.c and the algorithms of eeprom.c. *)
(*                                                                         *)
(* One session is one run of the program on one command line.  The flash   *)
(* survives sessions; the program's buffers do not.  A session can be cut  *)
(* short between any two steps, or inside an erase or a program operation  *)
(* (Crash), and the chip can fail to do an operation (a step with a        *)
(* fault), which no function of eeprom_access reports to its caller.       *)
(***************************************************************************)
EXTENDS SpiFlash, Sequences, FiniteSets

CONSTANTS
  BufferSize,   \* bytes of one fread: 8192
  BootSize,     \* BOOT_BLOCK_SIZE, 64
  EraseUnit,    \* bytes that an erase cut short leaves alike; 1 on the chip
  FileInfo,     \* Files -> [size, header, part, sha]; header = -1: none found
  Boards,       \* records [fpga, fallback, recover, part]
  Commands,     \* records [op, file, fallback, fix, sha, verify, reload]
  MaxFaults,    \* bound on operations the chip fails to do
  MaxSessions   \* bound on runs of the program

NoHeader == -1
AnyPart  == "any"   \* a part number with a '|': not compared with the file's

FileRecords == [size : Nat \ {0}, header : Nat \cup {NoHeader},
                part : STRING, sha : BOOLEAN]

BoardRecords == [fpga : {"xilinx", "efinix"}, fallback : BOOLEAN,
                 recover : BOOLEAN, part : STRING]

CommandRecords == [op : {"write", "verify", "restore"}, file : Files,
                   fallback : BOOLEAN, fix : BOOLEAN, sha : BOOLEAN,
                   verify : BOOLEAN, reload : BOOLEAN]

ASSUME EepromAssumption ==
  /\ BootSize \in 1 .. PageSize
  /\ EraseUnit \in Nat \ {0}
  /\ BufferSize \in Nat \ {0}
  /\ BufferSize % PageSize = 0
  /\ FlashSectors % 2 = 0
  /\ Files \cap {"erased", "zero", "junk", "boot", "old"} = {}
  /\ FileInfo \in [Files -> FileRecords]
  /\ \A f \in Files : FileInfo[f].header <= FileInfo[f].size
  /\ Boards \subseteq BoardRecords
  /\ \A b \in Boards : b.fpga = "efinix" => b.fallback
  /\ Commands \subseteq CommandRecords
  /\ MaxFaults \in Nat
  /\ MaxSessions \in Nat \ {0}

VARIABLES
  board,          \* the board_t found on the bus; never changes
  flash,          \* the chip
  sessions,       \* runs started so far
  faults,         \* operations the chip failed to do
  cmd,            \* the command line of this run
  pc,             \* where this run is
  ret,            \* what main returns; meaningful at "exit"
  file_buffer,    \* eeprom.c:48
  start_address,  \* where the write, verification or restore starts
  addr,           \* sec_addr, then eeprom_addr
  sector,         \* sectors erased so far
  esectors,       \* index of the last sector to erase
  fpos,           \* position of fp in the file
  eof,            \* feof(fp)
  bytesread,      \* what the last fread returned
  bindex          \* cursor in file_buffer (i in the write loops)

chipVars == <<flash, faults>>
runVars  == <<board, sessions, cmd>>
addrVars == <<start_address, addr, sector, esectors>>
fileVars == <<fpos, eof, bytesread, bindex>>
vars == <<chipVars, runVars, pc, ret, file_buffer, addrVars, fileVars>>

-----------------------------------------------------------------------------
(* Geometry *)

UserSpace == FlashSize \div 2   \* eeprom_calc_user_space, every known flash_id

\* Where a command starts in the flash (flash_start_address of the open
\* functions, and the fallback addresses of anyio.c).
StartAddress(b, fallback) ==
  CASE fallback /\ b.fpga = "efinix" -> 0
    [] fallback /\ b.fpga = "xilinx" -> SectorSize
    [] OTHER -> IF b.fallback THEN UserSpace ELSE 0

\* The capacity start_programming compares a file with.
MaxSectors(b, start) ==
  CASE b.fpga = "efinix" -> UserSpace \div SectorSize
    [] b.fpga = "xilinx" /\ b.fallback /\ start = SectorSize ->
         UserSpace \div SectorSize - 1
    [] b.fpga = "xilinx" /\ b.fallback /\ start # SectorSize ->
         UserSpace \div SectorSize
    [] OTHER -> FlashSize \div SectorSize

LastSectorRoundedUp(fsize) == fsize \div SectorSize   \* a slip: one too many
LastSector(fsize) == (fsize - 1) \div SectorSize

TooLarge(b, start, fsize) == LastSector(fsize) > MaxSectors(b, start)

-----------------------------------------------------------------------------
(* Files and buffers *)

Size(f)   == FileInfo[f].size
Header(f) == FileInfo[f].header

BufferIndex == 0 .. BufferSize - 1
ZeroBuffer  == [j \in BufferIndex |-> Zero]

\* fread(&file_buffer, 1, 8192, fp) at position pos: the bytes past the end of
\* the file keep what the buffer held before.
AvailableUncapped(f, pos) == Size(f) - pos   \* a slip: more than asked for
Available(f, pos) ==
  IF Size(f) - pos < BufferSize THEN Size(f) - pos ELSE BufferSize

Filled(f, pos, buf) ==
  [j \in BufferIndex |-> IF j < Available(f, pos) THEN Byte(f, pos + j) ELSE buf[j]]

\* The buffer after the whole file went through it from its first byte
\* (sha256_verify): its last, short read over the full read before it.
AfterWholeFile(f, buf) ==
  LET last == (Size(f) \div BufferSize) * BufferSize IN
  Filled(f, last, IF last = 0 THEN buf ELSE Filled(f, last - BufferSize, buf))

BufferPage(i) == [k \in 0 .. PageSize - 1 |-> file_buffer[i + k]]

\* write_boot's buffer: zeros over one page, then the boot block.
BootPage ==
  [k \in 0 .. PageSize - 1 |-> IF k < BootSize THEN Byte("boot", k) ELSE Zero]

\* check_boot
BootBlockOK(mem) == \A k \in 0 .. BootSize - 1 : mem[k] = Byte("boot", k)

HasBootBlock(b) == b.fallback /\ b.fpga = "xilinx"

WrongPart(b, f) == b.part # AnyPart /\ FileInfo[f].part # b.part

-----------------------------------------------------------------------------
(* The chip: an operation does what it should, or is a fault *)

\* What may be left of an erase, or of the programming of a page.
PartlyErased(a) ==
  Partly(flash, SectorErased(flash, a), SectorOf(a), EraseUnit)
PartlyProgrammed(a, page) ==
  Partly(flash, PageProgrammed(flash, a, page), PageCells(a), 1)

Operate(done, failures) ==
  \/ /\ flash' = done
     /\ UNCHANGED faults
  \/ /\ faults < MaxFaults
     /\ faults' = faults + 1
     /\ flash' \in failures

EraseSector(a) == Operate(SectorErased(flash, a), PartlyErased(a))

WritePage(a, page) ==
  Operate(PageProgrammed(flash, a, page), PartlyProgrammed(a, page))

-----------------------------------------------------------------------------
FlashInit(b) ==
  \* A board with a boot block, or one whose boot sector holds something else.
  \E boot \in {"boot", "old"} :
     flash = [x \in Addresses |->
                IF HasBootBlock(b) /\ x < BootSize THEN Byte(boot, x)
                                                   ELSE Byte("old", x)]

Init ==
  /\ board \in Boards
  /\ FlashInit(board)
  /\ cmd \in Commands
  /\ sessions = 1 /\ faults = 0
  /\ pc = cmd.op /\ ret = 0
  /\ file_buffer = ZeroBuffer
  /\ start_address = 0 /\ addr = 0 /\ sector = 0 /\ esectors = 0
  /\ fpos = 0 /\ eof = FALSE /\ bytesread = 0 /\ bindex = 0

\* Nothing of a process outlives it.
ProcessGone ==
  /\ ret' = 0
  /\ file_buffer' = ZeroBuffer
  /\ start_address' = 0 /\ addr' = 0 /\ sector' = 0 /\ esectors' = 0
  /\ fpos' = 0 /\ eof' = FALSE /\ bytesread' = 0 /\ bindex' = 0

\* The program is started on a command line: its static data is zero again.
StartSession ==
  /\ pc \in {"idle", "exit"}
  /\ sessions < MaxSessions
  /\ sessions' = sessions + 1
  /\ cmd' \in Commands
  /\ pc' = cmd'.op
  /\ ProcessGone
  /\ UNCHANGED <<board, chipVars>>

\* main returns r
Exit(r) == pc' = "exit" /\ ret' = r

Goto(label) == pc' = label /\ UNCHANGED ret

\* What main does once writing or restoring has returned 0 ...
AfterProgrammingUnverified ==   \* a slip: the verification comes too late
  IF cmd.op = "write" /\ cmd.reload THEN Goto("reload")
  ELSE IF cmd.verify THEN Goto("verify") ELSE Exit(0)

AfterProgramming ==
  CASE cmd.verify -> Goto("verify")
    [] ~cmd.verify /\ cmd.op = "write" /\ cmd.reload -> Goto("reload")
    [] OTHER -> Exit(0)

\* ... and once the verification has.
AfterVerification ==
  IF cmd.op = "write" /\ cmd.reload THEN Goto("reload") ELSE Exit(0)

-----------------------------------------------------------------------------
(* eeprom_write *)

\* The checks on the file and its board, up to the boot block's.
WriteRefused(b, c) ==
  \/ c.sha /\ ~FileInfo[c.file].sha
  \/ Header(c.file) = NoHeader
  \/ ~b.recover /\ WrongPart(b, c.file)

OpenForWrite ==
  /\ pc = "write"
  /\ start_address' = StartAddress(board, cmd.fallback)
  /\ file_buffer' = IF cmd.sha THEN AfterWholeFile(cmd.file, file_buffer)
                               ELSE file_buffer
  /\ \/ /\ WriteRefused(board, cmd)
        /\ Exit(-1)
        /\ UNCHANGED fileVars
     \/ /\ ~WriteRefused(board, cmd)
        /\ fpos' = Header(cmd.file)
        /\ Goto(IF HasBootBlock(board) THEN "checkBoot" ELSE "startProgramming")
        /\ UNCHANGED <<eof, bytesread, bindex>>
  /\ UNCHANGED <<runVars, chipVars, addr, sector, esectors>>

CheckBootEager ==   \* a slip: --fix-boot-block without looking
  /\ pc = "checkBoot"
  /\ \/ cmd.fix /\ Goto("eraseBoot")
     \/ BootBlockOK(flash) /\ ~cmd.fix /\ Goto("startProgramming")
     \/ ~BootBlockOK(flash) /\ ~cmd.fix /\ Exit(-1)
  /\ UNCHANGED <<runVars, chipVars, file_buffer, addrVars, fileVars>>

CheckBoot ==
  /\ pc = "checkBoot"
  /\ \/ BootBlockOK(flash) /\ Goto("startProgramming")
     \/ ~BootBlockOK(flash) /\ cmd.fix /\ Goto("eraseBoot")
     \/ ~BootBlockOK(flash) /\ ~cmd.fix /\ Exit(-1)
  /\ UNCHANGED <<runVars, chipVars, file_buffer, addrVars, fileVars>>

\* write_boot, in two steps: there is no boot block between them.
EraseBoot ==
  /\ pc = "eraseBoot"
  /\ EraseSector(0)
  /\ file_buffer' = [j \in BufferIndex |->
                       IF j < PageSize THEN BootPage[j] ELSE file_buffer[j]]
  /\ Goto("writeBoot")
  /\ UNCHANGED <<runVars, addrVars, fileVars>>

WriteBoot ==
  /\ pc = "writeBoot"
  /\ WritePage(0, BufferPage(0))
  /\ Goto("recheckBoot")
  /\ UNCHANGED <<runVars, file_buffer, addrVars, fileVars>>

RecheckBoot ==
  /\ pc = "recheckBoot"
  /\ IF BootBlockOK(flash) THEN Goto("startProgramming") ELSE Exit(-1)
  /\ UNCHANGED <<runVars, chipVars, file_buffer, addrVars, fileVars>>

\* start_programming up to its erase loop
StartProgramming ==
  /\ pc = "startProgramming"
  /\ \/ /\ TooLarge(board, start_address, Size(cmd.file))
        /\ Exit(-1)
        /\ UNCHANGED addrVars
     \/ /\ ~TooLarge(board, start_address, Size(cmd.file))
        /\ esectors' = LastSector(Size(cmd.file))
        /\ sector' = 0
        /\ addr' = start_address
        /\ Goto("erase")
        /\ UNCHANGED start_address
  /\ UNCHANGED <<runVars, chipVars, file_buffer, fileVars>>

MoreToEraseShort == sector + 1 < esectors   \* a slip: the last sector left out
MoreToErase == sector < esectors

\* One turn of the erase loop (of start_programming and of flash_erase).
EraseNext ==
  /\ pc = "erase"
  /\ EraseSector(addr)
  /\ sector' = sector + 1
  /\ IF MoreToErase
       THEN addr' = addr + SectorSize /\ Goto("erase")
       ELSE addr' = start_address /\ Goto("program")
  /\ UNCHANGED <<runVars, file_buffer, start_address, esectors, fileVars>>

\* The head of the programming loop: while (!feof(fp)) fread
Fread ==
  /\ fpos' = fpos + Available(cmd.file, fpos)
  /\ eof' = (Available(cmd.file, fpos) < BufferSize)
  /\ bytesread' = Available(cmd.file, fpos)
  /\ bindex' = 0
  /\ file_buffer' = Filled(cmd.file, fpos, file_buffer)

ReadToProgram ==
  /\ pc = "program"
  /\ ~eof
  /\ Fread
  /\ Goto(IF bytesread' > 0 THEN "programPage" ELSE "program")
  /\ UNCHANGED <<runVars, chipVars, addrVars>>

ProgramNext ==
  /\ pc = "programPage"
  /\ WritePage(addr, BufferPage(bindex))
  /\ bindex' = bindex + PageSize
  /\ addr' = addr + PageSize
  /\ Goto(IF bindex' < bytesread THEN "programPage" ELSE "program")
  /\ UNCHANGED <<runVars, file_buffer, start_address, sector, esectors,
                 fpos, eof, bytesread>>

ProgrammingDoneShort ==   \* a slip: a last read of nothing never ends the loop
  /\ pc = "program"
  /\ eof /\ bytesread > 0
  /\ AfterProgramming
  /\ UNCHANGED <<runVars, chipVars, file_buffer, addrVars, fileVars>>

ProgrammingDone ==
  /\ pc = "program"
  /\ eof
  /\ AfterProgramming
  /\ UNCHANGED <<runVars, chipVars, file_buffer, addrVars, fileVars>>

-----------------------------------------------------------------------------
(* eeprom_verify *)

\* A file of the chip's size is a dump: it is compared from address 0.
WholeFlash(f) == Size(f) = FlashSize

VerifyRefused(b, f) ==
  /\ ~WholeFlash(f)
  /\ \/ Header(f) = NoHeader
     \/ WrongPart(b, f)
     \/ HasBootBlock(b) /\ ~BootBlockOK(flash)

VerifyStartUser(b, c) ==   \* a slip: --fallback forgotten
  IF WholeFlash(c.file) THEN 0 ELSE StartAddress(b, FALSE)
VerifyStart(b, c) ==
  IF WholeFlash(c.file) THEN 0 ELSE StartAddress(b, c.fallback)

VerifyOffsetZero(f) == 0   \* a slip: the header compared as data
VerifyOffset(f) == IF WholeFlash(f) THEN 0 ELSE Header(f)

OpenForVerify ==
  /\ pc = "verify"
  /\ \/ /\ VerifyRefused(board, cmd.file)
        /\ Exit(-1)
        /\ UNCHANGED <<start_address, addr, fileVars>>
     \/ /\ ~VerifyRefused(board, cmd.file)
        /\ start_address' = VerifyStart(board, cmd)
        /\ addr' = start_address'
        /\ fpos' = VerifyOffset(cmd.file)
        /\ eof' = FALSE
        /\ bytesread' = 0 /\ bindex' = 0
        /\ Goto("compare")
  /\ UNCHANGED <<runVars, chipVars, file_buffer, sector, esectors>>

ReadToCompare ==
  /\ pc = "compare"
  /\ ~eof
  /\ Fread
  /\ Goto(IF bytesread' > 0 THEN "comparePage" ELSE "compare")
  /\ UNCHANGED <<runVars, chipVars, addrVars>>

\* All the bytes of the page are compared, those past bytesread too.
PageMatchesHead == flash[Decode(addr)] = file_buffer[bindex]   \* a slip: one byte
PageMatches == PageAt(flash, addr) = BufferPage(bindex)

CompareNext ==
  /\ pc = "comparePage"
  /\ \/ /\ PageMatches
        /\ bindex' = bindex + PageSize
        /\ addr' = addr + PageSize
        /\ Goto(IF bindex' < bytesread THEN "comparePage" ELSE "compare")
     \/ /\ ~PageMatches
        /\ Exit(-1)
        /\ UNCHANGED <<bindex, addr>>
  /\ UNCHANGED <<runVars, chipVars, file_buffer, start_address, sector, esectors,
                 fpos, eof, bytesread>>

VerificationDone ==
  /\ pc = "compare"
  /\ eof
  /\ AfterVerification
  /\ UNCHANGED <<runVars, chipVars, file_buffer, addrVars, fileVars>>

-----------------------------------------------------------------------------
(* flash_restore, whose loops are those above from address 0 *)

\* The recovery board has no restore_flash: main gets -EINVAL.
RestoreRefused(b, f) == b.recover \/ ~FileInfo[f].sha \/ Size(f) # FlashSize

OpenForRestore ==
  /\ pc = "restore"
  /\ file_buffer' = AfterWholeFile(cmd.file, file_buffer)
  /\ \/ /\ RestoreRefused(board, cmd.file)
        /\ Exit(-1)
        /\ UNCHANGED esectors
     \/ /\ ~RestoreRefused(board, cmd.file)
        /\ esectors' = FlashSectors - 1
        /\ Goto("erase")
  /\ UNCHANGED <<runVars, chipVars, start_address, addr, sector, fileVars>>

\* anyio_dev_reload: the board loads its configuration from the flash; what
\* the reload function returns, 0 or an error, is main's result.
Reload ==
  /\ pc = "reload"
  /\ \E r \in {0, -1} : Exit(r)
  /\ UNCHANGED <<runVars, chipVars, file_buffer, addrVars, fileVars>>

-----------------------------------------------------------------------------
\* The program or the board's power is cut, possibly inside an operation: the
\* chip has programmed some of the bytes that it was sent, or does so once the
\* next process moves its pins.  (Not here: a process that is killed between a
\* command and its page number, which the next one's bytes would complete.)
InFlight ==
  CASE pc = "eraseBoot"   -> PartlyErased(0)
    [] pc = "erase"       -> PartlyErased(addr)
    [] pc = "writeBoot"   -> PartlyProgrammed(0, BufferPage(0))
    [] pc = "programPage" -> PartlyProgrammed(addr, BufferPage(bindex))
    [] OTHER -> {flash}

Crash ==
  /\ pc \notin {"idle", "exit"}
  /\ flash' \in InFlight
  /\ pc' = "idle"
  /\ ProcessGone
  /\ UNCHANGED <<runVars, faults>>

Step ==
  \/ OpenForWrite \/ CheckBoot \/ EraseBoot \/ WriteBoot \/ RecheckBoot
  \/ StartProgramming \/ EraseNext \/ ReadToProgram \/ ProgramNext
  \/ ProgrammingDone
  \/ OpenForVerify \/ ReadToCompare \/ CompareNext \/ VerificationDone
  \/ OpenForRestore \/ Reload

Next == StartSession \/ Step \/ Crash

Spec     == Init /\ [][Next]_vars
FairSpec == Spec /\ WF_vars(Step)

-----------------------------------------------------------------------------
(* Properties *)

TypeOK ==
  /\ board \in Boards
  /\ flash \in Memory
  /\ sessions \in 1 .. MaxSessions
  /\ faults \in 0 .. MaxFaults
  /\ cmd \in Commands
  /\ pc \in {"idle", "exit", "write", "verify", "restore", "checkBoot",
             "eraseBoot", "writeBoot", "recheckBoot", "startProgramming",
             "erase", "program", "programPage", "compare", "comparePage",
             "reload"}
  /\ ret \in {0, -1}
  /\ file_buffer \in [BufferIndex -> Bytes]
  /\ start_address \in Addresses
  /\ addr \in Nat
  /\ sector \in Nat
  /\ esectors \in Nat
  /\ fpos \in 0 .. Size(cmd.file)
  /\ eof \in BOOLEAN
  /\ bytesread \in 0 .. BufferSize
  /\ bindex \in Nat
  /\ bindex % PageSize = 0

\* mem holds, from address start on, the bytes of file f from offset.
Holds(mem, start, f, offset) ==
  \A i \in 0 .. Size(f) - offset - 1 : mem[Decode(start + i)] = Byte(f, offset + i)

\* What a command line asks for: a dump at address 0 and from its first byte,
\* any other file at the start of its area and without its header.
IsDump(c) == Size(c.file) = FlashSize

ImageIn(b, c, mem) ==
  IF IsDump(c) THEN Holds(mem, 0, c.file, 0)
  ELSE Holds(mem, StartAddress(b, c.fallback), c.file, Header(c.file))

\* goal = <<board, command line>>
Achieved(goal, mem) ==
  /\ ImageIn(goal[1], goal[2], mem)
  /\ HasBootBlock(goal[1]) /\ ~IsDump(goal[2]) => BootBlockOK(mem)

ImageInFlash == Achieved(<<board, cmd>>, flash)

\* The run whose result main took from a verification that found no difference.
Verified == pc = "exit" /\ ret = 0 /\ (cmd.op = "verify" \/ cmd.verify)

Outcome ==
  IF Verified THEN "verified"
  ELSE IF pc \in {"idle", "exit"} THEN "stopped" ELSE "running"

Update == INSTANCE FlashUpdate WITH goal <- <<board, cmd>>, outcome <- Outcome

\* Every run is an update of the flash: what it says last is not undone by a
\* step of its own, a crash or a failing chip, and the next run starts with
\* the flash as this one left it (main, mesaflash.c:555-584, and eeprom.c).
ImplementsUpdate == Update!Spec

\* Exit status 0 after a verification means that the area holds the file byte
\* for byte, behind a valid boot block, whatever operations of the chip failed
\* before (eeprom_verify, eeprom.c:344-426, and main, mesaflash.c:555-584).
SuccessMeansImage == Verified => ImageInFlash

\* A board is told to load its new configuration only when the flash holds it
\* (main, mesaflash.c:557-564), unless the user asked for no verification.
ReloadsOnlyImage == pc = "reload" /\ cmd.verify => ImageInFlash

\* Past the area of a command: the end of the fallback half or of the chip.
AreaEnd(b, fallback) == IF b.fallback /\ fallback THEN UserSpace ELSE FlashSize

Fits == StartAddress(board, cmd.fallback) + Size(cmd.file)
          <= AreaEnd(board, cmd.fallback)

Area == {x \in Addresses : /\ StartAddress(board, cmd.fallback) <= x
                           /\ x < AreaEnd(board, cmd.fallback)}

\* Writing a file that fits changes nothing outside its own area, except for
\* sector 0 when the boot block is being repaired: a crash or a failing chip
\* in the middle leaves the other configuration as it was
\* (start_programming and eeprom_write, eeprom.c:121-164 and 293-331).
WriteConfined ==
  [][ cmd.op = "write" /\ Fits =>
        \A x \in Addresses \ Area :
          flash'[x] # flash[x] =>
            cmd.fix /\ ~BootBlockOK(flash) /\ HasBootBlock(board) /\ x < SectorSize ]_vars

\* No page is programmed over bytes that were not erased: the sectors counted
\* from the file's size cover the pages counted from its bytes after the
\* header, also when an earlier run was cut short (eeprom.c:127, 150, 321-328).
ErasedBeforeProgrammed ==
  pc = "programPage" /\ faults = 0 /\ (cmd.op = "write" => Fits) =>
    \A x \in PageCells(addr) : flash[x] = Erased

\* Writing never loses a valid boot block, at any step or crash
\* (check_boot before write_boot, eeprom.c:293-310).
ValidBootKept ==
  [][ cmd.op = "write" /\ Fits /\ HasBootBlock(board) /\ BootBlockOK(flash)
        => BootBlockOK(flash') ]_vars

\* The comparison of a page says that it differs from the file.
Mismatch == pc = "comparePage" /\ pc' = "exit"

\* The verification that follows a write or a restore finds no difference
\* when the chip did all it was told: writing and comparing agree on the
\* address, on the offset in the file and on what is in the buffer past the
\* end of the file (eeprom.c:321-328 and 396-408).  Not so for a file that has
\* a header and the size of the chip: it is written from behind its header,
\* and compared from its first byte, as a dump (eeprom.c:362, 384-387).
AutoVerifyAgrees ==
  [][ faults = 0 /\ cmd.op # "verify"
        /\ (cmd.op = "write" => Fits /\ (IsDump(cmd) => Header(cmd.file) = 0))
        => ~Mismatch ]_vars

\* A later --verify of a file of more than one read finds a difference only
\* where there is one, or in what follows the file's end in its last page,
\* which is compared too (eeprom.c:396-408): a write cut short in the middle of
\* that page may have left all of the file and not all of the page.
PaddingCut ==
  \E k \in bytesread - bindex .. PageSize - 1 : flash[Decode(addr + k)] \in {Erased, Junk}

NoSpuriousMismatch ==
  [][ Mismatch /\ faults = 0
        /\ Size(cmd.file) - Header(cmd.file) > BufferSize
        => ~ImageIn(board, cmd, flash) \/ PaddingCut ]_vars

\* A run ends: in particular no read of a file of any length keeps a loop of
\* eeprom.c going (while (!feof(fp)), eeprom.c:321, 396, 609).
SessionEnds == pc \notin {"idle", "exit"} ~> pc \in {"idle", "exit"}

-----------------------------------------------------------------------------
(* What the program's own words say, and the code does not do *)

\* "File Size too large to fit" (eeprom.c:142): a file of more sectors than
\* its area has is refused before anything is erased.
OversizeRefused ==
  [][ cmd.op = "write" /\ ~Fits /\ pc = "erase" => flash' = flash ]_vars

\* "Use --recover --device recover --write." (mesaflash.c:171): such a write,
\* with a chip that does what it is told, is not refused by its verification.
RecoverWriteVerifies ==
  [][ board.recover /\ cmd.op = "write" /\ Fits /\ faults = 0
        /\ pc = "verify" => pc' # "exit" ]_vars
=============================================================================
