---------------------------- MODULE RemoteFlash ----------------------------
(***************************************************************************)
(* A write with its verification on an Ethernet board: the scan and the    *)
(* opening of eth_boards.c, and the three flash operations that            *)
(* eeprom_remote.c gives eeprom.c, as LBP16 datagrams.  There are no       *)
(* sequence numbers, no timeouts and no retries: an answer is told from    *)
(* another by its length alone, and only where it is checked.              *)
(*                                                                         *)
(* Each direction of the network keeps the order of its datagrams and may  *)
(* lose one or deliver one twice.  The board is external: it serves one    *)
(* datagram at a time and keeps one flash address register, of which it is *)
(* not known whether a transfer advances it.                               *)
(*                                                                         *)
(* A cell of the flash stands for a page here.                             *)
(***************************************************************************)
EXTENDS SpiFlash, Sequences

CONSTANTS
  Image,             \* the pages of the file after its header
  FilePages,         \* pages of the whole file, its header included
  DefaultUserSpace,  \* user area of a flash whose id is not known: 0x80000
  Setups,            \* records [efinix, fallback, fix, boot]
  MaxLost,           \* bound on datagrams the network loses
  MaxRepeated        \* bound on datagrams it delivers twice

SetupRecords == [efinix : BOOLEAN, fallback : BOOLEAN, fix : BOOLEAN,
                 boot : BOOLEAN]

ASSUME RemoteAssumption ==
  /\ PageSize = 1
  /\ FlashSectors % 2 = 0
  /\ Image \in Seq([src : Files, off : Nat]) /\ Image # <<>>
  /\ Files \cap {"erased", "zero", "junk", "boot", "old"} = {}
  /\ FilePages \in {Len(Image), Len(Image) + 1}
  /\ DefaultUserSpace \in Nat \ {0}
  /\ DefaultUserSpace % SectorSize = 0
  /\ Setups \subseteq SetupRecords
  /\ MaxLost \in Nat /\ MaxRepeated \in Nat

VARIABLES
  setup,     \* the board's family, the options, a valid boot block at first?
  pc,        \* the call that is made or awaited, or how the run ended
  awaiting,  \* the call's datagrams are sent, its answer is not received
  index,     \* sectors erased, pages programmed or pages compared so far
  flash_id,  \* what opening the board got as the flash's id
  toBoard, toHost,    \* datagrams on their way
  reg,                \* the board's FLASH_ADDR_REG
  flash,              \* its chip
  lost, repeated      \* how much the network did wrong

hostVars == <<pc, awaiting, index, flash_id>>
boardVars == <<reg, flash>>
wireVars == <<lost, repeated>>
vars == <<setup, hostVars, toBoard, toHost, boardVars, wireVars>>

-----------------------------------------------------------------------------
(* What the program works out from the id it got *)

UserSpace == FlashSize \div 2

UserSpaceOf(id) == IF id = "right" THEN UserSpace ELSE DefaultUserSpace

\* The boot block jumps to the user area (eeprom_prepare_boot_block).
BootPage(id) == Byte("boot", UserSpaceOf(id))

HasBootBlock(s) == ~s.efinix

StartAddress(s, id) ==
  CASE s.fallback /\ s.efinix -> 0
    [] s.fallback /\ ~s.efinix -> SectorSize
    [] OTHER -> UserSpaceOf(id)

MaxSectors(id) ==
  IF HasBootBlock(setup) /\ StartAddress(setup, id) = SectorSize
    THEN UserSpaceOf(id) \div SectorSize - 1
    ELSE UserSpaceOf(id) \div SectorSize

LastSector == (FilePages - 1) \div SectorSize

-----------------------------------------------------------------------------
(* Datagrams *)

Request(op, at, page) == [op |-> op, at |-> at, page |-> page]
Order(op) == Request(op, 0, Erased)

Requests == [op : {"readCookie", "readName", "readId", "readAddr", "readPage",
                   "setAddr", "erase", "program"},
             at : Nat, page : Bytes]

Answer(kind, page) == [kind |-> kind, page |-> page]

Answers == [kind : {"cookie", "name", "id", "addr", "page"}, page : Bytes]

Length(answer) ==
  CASE answer.kind = "page" -> 256 [] answer.kind = "name" -> 16 [] OTHER -> 4

\* read_page, write_page and erase_sector of eeprom_remote.c, without the
\* receptions that end them
ReadPage(a) == <<Request("setAddr", a, Erased), Order("readPage")>>

WritePageNoAddress(a, p) ==   \* a slip: counts on the register to advance
  <<Request("program", 0, p), Order("readAddr")>>
WritePageNoRead(a, p) ==   \* a slip: no read for syncing
  <<Request("setAddr", a, Erased), Request("program", 0, p)>>
WritePage(a, p) ==
  <<Request("setAddr", a, Erased), Request("program", 0, p), Order("readAddr")>>

EraseSectorAddressLast(a) ==   \* a slip: the address follows the erase
  <<Order("erase"), Request("setAddr", a, Erased), Order("readAddr")>>
EraseSector(a) ==
  <<Request("setAddr", a, Erased), Order("erase"), Order("readAddr")>>

Start == StartAddress(setup, flash_id)

Datagrams ==
  CASE pc = "scan" -> <<Order("readCookie")>>
    [] pc = "name" -> <<Order("readName")>>
    [] pc = "id"   -> <<Order("readId")>>
    [] pc \in {"checkBoot", "recheckBoot", "verifyBoot"} -> ReadPage(0)
    [] pc = "eraseBoot" -> EraseSector(0)
    [] pc = "writeBoot" -> WritePage(0, BootPage(flash_id))
    [] pc = "erase"   -> EraseSector(Start + index * SectorSize)
    [] pc = "program" -> WritePage(Start + index, Image[index + 1])
    [] pc = "compare" -> ReadPage(Start + index)

Final == {"verified", "failed", "aborted", "notFound"}

-----------------------------------------------------------------------------
Init ==
  /\ setup \in Setups
  /\ pc = "scan" /\ awaiting = FALSE /\ index = 0 /\ flash_id = "unread"
  /\ toBoard = <<>> /\ toHost = <<>>
  /\ reg \in Addresses
  /\ flash = [x \in Addresses |-> IF x = 0 /\ HasBootBlock(setup) /\ setup.boot
                                    THEN BootPage("right") ELSE Byte("old", x)]
  /\ lost = 0 /\ repeated = 0

-----------------------------------------------------------------------------
(* The program *)

\* A call sends all its datagrams, then waits for one answer.
Send ==
  /\ pc \notin Final
  /\ ~awaiting
  /\ toBoard' = toBoard \o Datagrams
  /\ awaiting' = TRUE
  /\ UNCHANGED <<setup, pc, index, flash_id, toHost, boardVars, wireVars>>

\* recvfrom: whatever answer comes first.
Receive ==
  /\ awaiting
  /\ toHost # <<>>
  /\ toHost' = Tail(toHost)
  /\ awaiting' = FALSE
  /\ UNCHANGED <<setup, toBoard, boardVars, wireVars>>

\* A longer answer is cut to the size that was asked for; only a shorter one
\* is seen by lbp16_recv_packet_checked, which aborts.
TooShort(size) == Length(Head(toHost)) < size

\* eth_scan_one_addr: the socket does not block, and 2 ms are what there is.
ScanTimeout ==
  /\ pc = "scan" /\ awaiting /\ toHost = <<>>
  /\ pc' = "notFound"
  /\ awaiting' = FALSE
  /\ UNCHANGED <<setup, index, flash_id, toBoard, toHost, boardVars, wireVars>>

ReceiveCookie ==
  /\ pc = "scan"
  /\ Receive
  /\ pc' = IF Head(toHost).kind = "cookie" THEN "name" ELSE "notFound"
  /\ UNCHANGED <<index, flash_id>>

ReceiveName ==
  /\ pc = "name"
  /\ Receive
  /\ pc' = CASE TooShort(16) -> "aborted"
             [] Head(toHost).kind = "name" -> "id"
             [] OTHER -> "notFound"
  /\ UNCHANGED <<index, flash_id>>

\* start_programming up to its first erase
Programming(id) == IF LastSector > MaxSectors(id) THEN "failed" ELSE "erase"

\* eth_board_open: lbp16_read takes any answer for the id.
ReceiveId ==
  /\ pc = "id"
  /\ Receive
  /\ flash_id' = IF Head(toHost).kind = "id" THEN "right" ELSE "wrong"
  /\ pc' = IF HasBootBlock(setup) THEN "checkBoot" ELSE Programming(flash_id')
  /\ UNCHANGED index

\* check_boot, in eeprom_write and in eeprom_verify
BootPageOKUnchecked == TRUE   \* a slip: the answer not compared
BootPageOK == Head(toHost).page = BootPage(flash_id)

ReceiveBootPage ==
  /\ pc \in {"checkBoot", "recheckBoot", "verifyBoot"}
  /\ Receive
  /\ pc' = CASE TooShort(256) -> "aborted"
             [] ~TooShort(256) /\ BootPageOK /\ pc # "verifyBoot" ->
                  Programming(flash_id)
             [] ~TooShort(256) /\ BootPageOK /\ pc = "verifyBoot" -> "compare"
             [] ~TooShort(256) /\ ~BootPageOK /\ pc = "checkBoot" /\ setup.fix ->
                  "eraseBoot"
             [] OTHER -> "failed"
  /\ UNCHANGED <<index, flash_id>>

\* The answer that write_page and erase_sector wait for "for board syncing":
\* its length and its contents are ignored.
Synchronise(next, nextIndex) ==
  /\ Receive
  /\ pc' = next
  /\ index' = nextIndex
  /\ UNCHANGED flash_id

BootErased  == pc = "eraseBoot" /\ Synchronise("writeBoot", index)
BootWritten == pc = "writeBoot" /\ Synchronise("recheckBoot", index)

MoreSectorsOneTooMany == index <= LastSector   \* a slip: < for the next index
MoreSectors == index < LastSector

SectorDoneUnread ==   \* a slip: the answer for syncing is not received
  /\ pc = "erase"
  /\ awaiting /\ awaiting' = FALSE
  /\ IF MoreSectors THEN pc' = "erase" /\ index' = index + 1
                    ELSE pc' = "program" /\ index' = 0
  /\ UNCHANGED <<setup, flash_id, toBoard, toHost, boardVars, wireVars>>

SectorDone ==
  /\ pc = "erase"
  /\ IF MoreSectors THEN Synchronise("erase", index + 1)
                    ELSE Synchronise("program", 0)

PageDone ==
  /\ pc = "program"
  /\ IF index + 1 < Len(Image) THEN Synchronise("program", index + 1)
     ELSE Synchronise(IF HasBootBlock(setup) THEN "verifyBoot" ELSE "compare", 0)

\* The comparison of one page in eeprom_verify
PageEqualLength == Length(Head(toHost)) = 256   \* a slip: any page will do
PageEqual == Head(toHost).page = Image[index + 1]

ReceivePage ==
  /\ pc = "compare"
  /\ Receive
  /\ pc' = CASE TooShort(256) -> "aborted"
             [] ~TooShort(256) /\ PageEqual ->
                  IF index + 1 < Len(Image) THEN "compare" ELSE "verified"
             [] OTHER -> "failed"
  /\ index' = index + 1
  /\ UNCHANGED flash_id

Host ==
  \/ Send \/ ScanTimeout \/ ReceiveCookie \/ ReceiveName \/ ReceiveId
  \/ ReceiveBootPage \/ BootErased \/ BootWritten \/ SectorDone \/ PageDone
  \/ ReceivePage

-----------------------------------------------------------------------------
(* The board *)

Serve(op) ==
  /\ toBoard # <<>>
  /\ Head(toBoard).op = op
  /\ toBoard' = Tail(toBoard)
  /\ UNCHANGED <<setup, hostVars, wireVars>>

SetAddress ==
  /\ Serve("setAddr")
  /\ reg' = Decode(Head(toBoard).at)
  /\ UNCHANGED <<toHost, flash>>

Erase ==
  /\ Serve("erase")
  /\ flash' = SectorErased(flash, reg)
  /\ UNCHANGED <<toHost, reg>>

AfterTransfer == {reg, Decode(reg + 1)}

ProgramPage ==
  /\ Serve("program")
  /\ flash' = [flash EXCEPT ![reg] = Program(@, Head(toBoard).page)]
  /\ reg' \in AfterTransfer
  /\ UNCHANGED toHost

SendPage ==
  /\ Serve("readPage")
  /\ toHost' = Append(toHost, Answer("page", flash[reg]))
  /\ reg' \in AfterTransfer
  /\ UNCHANGED flash

Reply(op, kind) ==
  /\ Serve(op)
  /\ toHost' = Append(toHost, Answer(kind, Erased))
  /\ UNCHANGED boardVars

Board ==
  \/ SetAddress \/ Erase \/ ProgramPage \/ SendPage
  \/ Reply("readCookie", "cookie") \/ Reply("readName", "name")
  \/ Reply("readId", "id") \/ Reply("readAddr", "addr")

-----------------------------------------------------------------------------
(* The network *)

Lose ==
  /\ lost < MaxLost
  /\ lost' = lost + 1
  /\ \/ toBoard # <<>> /\ toBoard' = Tail(toBoard) /\ UNCHANGED toHost
     \/ toHost # <<>> /\ toHost' = Tail(toHost) /\ UNCHANGED toBoard
  /\ UNCHANGED <<setup, hostVars, boardVars, repeated>>

Twice(queue) == <<Head(queue)>> \o queue

Repeat ==
  /\ repeated < MaxRepeated
  /\ repeated' = repeated + 1
  /\ \/ toBoard # <<>> /\ toBoard' = Twice(toBoard) /\ UNCHANGED toHost
     \/ toHost # <<>> /\ toHost' = Twice(toHost) /\ UNCHANGED toBoard
  /\ UNCHANGED <<setup, hostVars, boardVars, lost>>

Next == Host \/ Board \/ Lose \/ Repeat

Spec == Init /\ [][Next]_vars

\* A process and a board that run; nothing is asked of the network.
FairSpec == Spec /\ WF_vars(Host) /\ WF_vars(Board)

-----------------------------------------------------------------------------
(* Properties *)

TypeOK ==
  /\ setup \in Setups
  /\ pc \in {"scan", "name", "id", "checkBoot", "eraseBoot", "writeBoot",
             "recheckBoot", "erase", "program", "verifyBoot", "compare"} \cup Final
  /\ awaiting \in BOOLEAN
  /\ index \in Nat
  /\ pc = "erase" => index <= LastSector
  /\ pc \in {"program", "compare"} => index < Len(Image)
  /\ flash_id \in {"unread", "right", "wrong"}
  /\ toBoard \in Seq(Requests)
  /\ toHost \in Seq(Answers)
  /\ reg \in Addresses
  /\ flash \in Memory
  /\ lost \in 0 .. MaxLost
  /\ repeated \in 0 .. MaxRepeated

\* goal = <<setup, id>>: what the flash is to hold by the program's options and
\* a flash id, the file from the start of its area and a Xilinx boot block.
HoldsPages(pages, goal, mem) ==
  /\ \A i \in pages : mem[Decode(StartAddress(goal[1], goal[2]) + i - 1)] = Image[i]
  /\ HasBootBlock(goal[1]) => mem[0] = BootPage(goal[2])

\* Pages that are like neither the page before them nor the one after.
OwnContents ==
  {i \in DOMAIN Image : \A j \in {i - 1, i + 1} \cap DOMAIN Image : Image[j] # Image[i]}

Achieved(goal, mem) == HoldsPages(OwnContents, goal, mem)

\* Verified, and the network did not lose more than one datagram: one that is
\* lost in the write and one in the verification can hide each other, and what
\* such a run says counts for no more than what a run says that goes on.
Trusted == pc = "verified" /\ lost <= 1

Outcome ==
  CASE Trusted -> "verified"
    [] pc \in {"scan", "name", "id", "failed", "aborted", "notFound"} -> "stopped"
    [] OTHER -> "running"

Update == INSTANCE FlashUpdate WITH goal <- <<setup, flash_id>>, outcome <- Outcome

\* From the opening of the board on, the write over the network is an update
\* of the flash: with one datagram lost and any delivered twice, its
\* verification succeeds only when every page that differs from its neighbours
\* is in place, although no answer names the request it belongs to, and nothing
\* is programmed after it (eeprom_remote.c:38-82, eeprom.c:312-331, 396-408).
ImplementsRemoteUpdate == Update!Spec

\* Of two equal pages in a row, as configuration files have, one can answer
\* for the other: they are all in place when the network lost nothing, however
\* often answers came twice, or did nothing wrong but to lose one datagram
\* (eeprom_remote.c:38-45 and 57-66, eeprom.c:396-408).
VerifiedMeansAll ==
  pc = "verified" /\ (lost = 0 \/ lost + repeated = 1)
    => HoldsPages(DOMAIN Image, <<setup, flash_id>>, flash)

\* Without losses, and on a board whose boot block is looked at first or whose
\* answers come once, writing one configuration leaves the rest of the flash
\* alone: no page or sector goes to an address that an earlier call left in
\* the register, and a page that came twice goes at most to the next address
\* (eeprom_remote.c:57-63 and 74-79, eth_boards.c:124-127).
Reached(first, cells) ==
  {x \in Addresses : \E i \in 0 .. cells - 1 : x = Decode(first + i)}
OwnSectors == Reached(StartAddress(setup, "right"), (LastSector + 1) * SectorSize)
OwnPages   == Reached(StartAddress(setup, "right"), Len(Image) + repeated)
BootCells  == IF setup.fix /\ ~setup.boot
                THEN Reached(0, SectorSize) \cup Reached(0, 1 + repeated) ELSE {}

OthersKept ==
  [][ lost = 0 /\ (HasBootBlock(setup) \/ repeated = 0)
        => \A x \in Addresses \ (OwnSectors \cup OwnPages \cup BootCells) :
             flash'[x] = flash[x] ]_vars

\* No user area is erased elsewhere than where it is, for a flash whose id was
\* misread, on a board with a boot block that is not to be repaired: the boot
\* block prepared for another area differs from the one on the board
\* (eeprom.c:77-86 and 293-307).
RightIdBeforeErase ==
  pc \in {"erase", "program"} /\ HasBootBlock(setup) /\ ~setup.fix
    => UserSpaceOf(flash_id) = UserSpace

\* As long as no answer came twice, the program and the board are in step:
\* between two calls nothing is on its way (lbp16_read "for board syncing").
InStep ==
  repeated = 0 /\ ~awaiting /\ pc \notin Final => toBoard = <<>> /\ toHost = <<>>

\* The run fails only when the network did: a board that answers everything
\* once is written and verified (eeprom_write and eeprom_verify over
\* eeprom_remote.c), unless its boot block is bad and not to be repaired, the
\* file is too long, or the scan did not wait long enough.
FileFits == LastSector < MaxSectors("right")
FailsOnlyWithNetwork ==
  pc \in {"failed", "aborted"} /\ lost + repeated = 0 /\ FileFits
    => HasBootBlock(setup) /\ ~setup.boot /\ ~setup.fix

\* The program ends, or the network lost something that it waits for without
\* a timeout (recvfrom on a blocking socket, eth_boards.c:63-65).
EndsUnlessLost == <>(pc \in Final \/ lost > 0)

-----------------------------------------------------------------------------
(* What the program's own words say, and the code does not do *)

\* "packet read for board syncing" (eeprom_remote.c:64 and 80): when
\* write_page or erase_sector returns, the board has done it.
SyncMeansDone ==
  ~awaiting => \A i \in DOMAIN toBoard : toBoard[i].op \notin {"erase", "program"}

\* "Board configuration verified successfully." (eeprom.c:423)
VerifiedMeansHeld ==
  pc = "verified" => HoldsPages(DOMAIN Image, <<setup, "right">>, flash)
=============================================================================
