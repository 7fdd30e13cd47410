---------------------------- MODULE DeviceSearch ----------------------------
(***************************************************************************)
(* What mesaflash knows of the boards: the table of names (anyio.c) and,   *)
(* for each bus, the board_t that its scan fills in.  A board_t is reduced *)
(* to its name, its bus and the functions it is given; the counts of       *)
(* connectors and LEDs, the names of connectors and parts are left out.    *)
(***************************************************************************)
EXTENDS Integers, SequencesExt

CONSTANT LongNames   \* which entry of supported_boards a longer name begins with

NULL == "NULL"

\* memset by board_init_struct.
NoBoard ==
  [bus |-> NULL, name |-> NULL, mode |-> "CPLD", fpga |-> "XILINX", flash |-> "NONE",
   fallback |-> FALSE, recover |-> FALSE, mem |-> FALSE,
   life |-> FALSE,             \* open, close and print_info
   io |-> FALSE,               \* llio.read and llio.write
   flashOps |-> {},            \* of write, verify, backup and restore
   program |-> NULL, reset |-> NULL, reload |-> NULL]

WriteVerify == {"write", "verify"}
AllFlashOps == {"write", "verify", "backup", "restore"}

-----------------------------------------------------------------------------
(* supported_boards *)

EthNames ==
  {"7I92", "7I92T", "7I93", "7I94", "7I94T", "7I95", "7I95T", "7I96", "7I96S", "7I97",
   "7I97T", "7I98", "7I80HD-16", "7I80HD-25", "7I80DB-16", "7I80DB-25", "7I80HDT",
   "7I76E", "7I76EU", "LITEHM2"}
PciNames ==
  {"4I74", "5I24", "5I25", "6I24", "6I25", "5I20", "RECOVER", "4I65", "4I68", "5I21",
   "5I22", "5I23", "4I69", "3X20"}
Multi ==
  [n \in {"7C80", "7C81", "7I43", "7I90HD", "7I64", "AUTO"} |->
     CASE n \in {"7C80", "7C81"} -> {"EPP", "SPI"}
       [] n = "7I43" -> {"EPP", "USB"}
       [] n = "7I90HD" -> {"EPP", "SPI", "SER"}
       [] n = "7I64" -> {"USB", "SPI"}
       [] n = "AUTO" -> {"USB", "EPP", "SPI", "SER", "PCI"}]

supported_boards ==
  [n \in EthNames \cup {"ETHER", "SPI"} \cup PciNames \cup DOMAIN Multi |->
     CASE n \in EthNames \cup {"ETHER"} -> {"ETH"}
       [] n \in PciNames -> {"PCI"}
       [] n = "SPI" -> {"SPI"}
       [] n \in DOMAIN Multi -> Multi[n]]

WildcardNames == {"ETHER", "SPI", "AUTO"}

\* strncmp over the length of the entry: a name also matches an entry that it
\* only begins with, 5I25T for one, which has no entry of its own, but ETHERNET
\* and AUTO1 too.  A name that is an entry may begin with another one before it,
\* as 7I92T does: those are for the same bus.
ASSUME NamesAssumption ==
  /\ LongNames \in [DOMAIN LongNames -> DOMAIN supported_boards]
  /\ DOMAIN LongNames \cap DOMAIN supported_boards = {}

Entry(name) ==
  CASE name \in DOMAIN supported_boards -> name
    [] name \in DOMAIN LongNames -> LongNames[name]
    [] OTHER -> NULL

-----------------------------------------------------------------------------
(* Ethernet: the board that answers with a name *)

EthBoard(name, fpga) ==
  [NoBoard EXCEPT !.bus = "ETH", !.name = name, !.fpga = fpga, !.io = TRUE,
     !.flashOps = AllFlashOps, !.reset = "lbp16_board_reset",
     !.reload = "lbp16_board_reload", !.life = TRUE, !.flash = "REMOTE", !.fallback = TRUE]

FpgaOf(name, efinix) == IF name \in efinix THEN "EFINIX" ELSE "XILINX"

EthBoards80 ==
  [n \in {"7I80DB-16", "7I80DB-25", "7I80HD-16", "7I80HD-25", "7I80HDT"} |->
     EthBoard(n, FpgaOf(n, {"7I80HDT"}))]
EthBoards76 ==
  [n \in {"7I76E-16", "7I76EU", "7I92", "7I92T", "7I93"} |->
     EthBoard(IF n = "7I76E-16" THEN "7I76E" ELSE n, FpgaOf(n, {"7I76EU", "7I92T"}))]
EthBoards94 ==
  [n \in {"7I94", "7I94T", "7I95", "7I95T", "7I96"} |->
     EthBoard(n, FpgaOf(n, {"7I94T", "7I95T"}))]
EthBoards96 ==
  [n \in {"7I96S", "7I97", "7I97T", "7I98", "litehm2"} |->
     EthBoard(IF n = "litehm2" THEN "LITEHM2" ELSE n, FpgaOf(n, {"7I96S", "7I97T"}))]
EthBoards ==
  [n \in UNION {DOMAIN EthBoards80, DOMAIN EthBoards76, DOMAIN EthBoards94,
                DOMAIN EthBoards96} |->
     CASE n \in DOMAIN EthBoards80 -> EthBoards80[n]
       [] n \in DOMAIN EthBoards76 -> EthBoards76[n]
       [] n \in DOMAIN EthBoards94 -> EthBoards94[n]
       [] n \in DOMAIN EthBoards96 -> EthBoards96[n]]

\* What eth_boards_scan adds for what answers at the address, and its result:
\* "none" does not answer or is no HostMot2 board.
EthScan(answers, addressGiven) ==
  IF addressGiven /\ answers \in DOMAIN EthBoards
    THEN [found |-> <<EthBoards[answers]>>, ret |-> 0]
    ELSE [found |-> <<>>, ret |-> -1]

-----------------------------------------------------------------------------
(* PCI *)

PciBoard(name) == [NoBoard EXCEPT !.bus = "PCI", !.name = name, !.life = TRUE]

PciFlashBoard(name, reload, fpga) ==
  [PciBoard(name) EXCEPT !.io = TRUE, !.flashOps = AllFlashOps, !.reload = reload,
     !.mem = TRUE, !.fpga = fpga, !.flash = "HM2", !.fallback = TRUE]

PciLoadBoard(name, program, reset) ==
  [PciBoard(name) EXCEPT !.io = TRUE, !.program = program, !.reset = reset, !.mem = TRUE]

PciMesa2 ==
  [n \in {"4I74", "5I24", "5I25"} |->
     PciFlashBoard(n, IF n = "4I74" THEN NULL ELSE "pci_board_reload", "XILINX")]
PciMesa6 ==
  [n \in {"5I25T", "6I24", "6I25"} |->
     IF n = "5I25T" THEN PciFlashBoard(n, "pci_efx_board_reload", "EFINIX")
                    ELSE PciFlashBoard(n, "pci_board_reload", "XILINX")]
PciPlx9030 ==
  [n \in {"5I20", "4I65"} |-> PciLoadBoard(n, "plx9030_program_fpga", "plx9030_reset")]
PciPlx9054 ==
  [n \in {"4I68", "5I21", "5I22", "5I23", "4I69"} |->
     PciLoadBoard(n, "plx905x_program_fpga", "plx905x_reset")]
PciPlx9056 ==
  [n \in {"3X20"} |->
     [PciLoadBoard(n, "plx905x_program_fpga", "plx905x_reset")
        EXCEPT !.flashOps = WriteVerify, !.flash = "IO"]]
PciPlx8112 == [n \in {"PLX8112"} |-> PciBoard("5I71")]
PciBoards ==
  [n \in UNION {DOMAIN PciMesa2, DOMAIN PciMesa6, DOMAIN PciPlx9030, DOMAIN PciPlx9054,
                DOMAIN PciPlx9056, DOMAIN PciPlx8112} |->
     CASE n \in DOMAIN PciMesa2 -> PciMesa2[n]
       [] n \in DOMAIN PciMesa6 -> PciMesa6[n]
       [] n \in DOMAIN PciPlx9030 -> PciPlx9030[n]
       [] n \in DOMAIN PciPlx9054 -> PciPlx9054[n]
       [] n \in DOMAIN PciPlx9056 -> PciPlx9056[n]
       [] n \in DOMAIN PciPlx8112 -> PciPlx8112[n]]

RecoverBoard ==
  [PciBoard("RECOVER") EXCEPT !.flashOps = WriteVerify, !.flash = "GPIO", !.fallback = TRUE,
     !.recover = TRUE]

\* What one device of the bus adds to the boards.
PciFound(device, recover) ==
  CASE recover /\ device = "XIO2001" -> <<RecoverBoard>>
    [] ~recover /\ device \in DOMAIN PciBoards -> <<PciBoards[device]>>
    [] OTHER -> <<>>

-----------------------------------------------------------------------------
(* The buses on which one address is asked: what is there is given a name *)

EppBoard(name) == [NoBoard EXCEPT !.bus = "EPP", !.name = name, !.life = TRUE]
EppHm2Board(name) == [EppBoard(name) EXCEPT !.mode = "FPGA", !.io = TRUE, !.flash = "HM2"]
EppHm2Boards ==
  [n \in {"7I90HD", "7I43", "7C81"} |->
     CASE n = "7I90HD" ->
            [EppHm2Board(n) EXCEPT !.flashOps = WriteVerify, !.fallback = TRUE]
       [] n = "7I43" ->
            [EppHm2Board(n) EXCEPT !.program = "epp_program_fpga", !.reset = "epp_reset"]
       [] n = "7C81" ->
            [EppHm2Board(n) EXCEPT !.flashOps = WriteVerify, !.reset = "epp_reset",
                                   !.fallback = TRUE]]

EppioBoard ==
  [EppBoard("7I43") EXCEPT !.mode = "FPGA", !.io = TRUE, !.flashOps = WriteVerify,
     !.program = "epp_program_fpga", !.flash = "EPP"]

EppCpldBoard ==
  [EppBoard("7I43") EXCEPT !.program = "epp_program_fpga", !.reset = "epp_reset"]

\* Whatever shows neither cookie, an empty port included, is taken for a 7I43
\* under control of its CPLD.  "hm2" is HostMot2 on a board of another name.
EppFound(there) ==
  CASE there \in DOMAIN EppHm2Boards -> <<EppHm2Boards[there]>>
    [] there = "hm2" -> <<>>
    [] there = "eppio" -> <<EppioBoard>>
    [] OTHER -> <<EppCpldBoard>>

UsbBoard(name) == [NoBoard EXCEPT !.bus = "USB", !.name = name]
UsbBoards ==
  [n \in {"7I64", "7I43"} |->
     IF n = "7I64" THEN UsbBoard(n)
     ELSE [UsbBoard(n) EXCEPT !.mode = "FPGA", !.io = TRUE, !.life = TRUE]]
UsbCpldBoard ==
  [UsbBoard("7I43") EXCEPT !.program = "usb_program_fpga", !.life = TRUE]

UsbFound(there) ==
  CASE there \in DOMAIN UsbBoards -> <<UsbBoards[there]>>
    [] there = "cpld" -> <<UsbCpldBoard>>
    [] OTHER -> <<>>

SpiBoards ==
  [n \in {"7I90HD", "7C80", "7C81"} |->
     [NoBoard EXCEPT !.bus = "SPI", !.name = n, !.io = TRUE, !.flashOps = AllFlashOps,
        !.reload = "spi_board_reload", !.life = TRUE, !.flash = "HM2", !.fallback = TRUE]]
SpiFound(there) == IF there \in DOMAIN SpiBoards THEN <<SpiBoards[there]>> ELSE <<>>

SerialBoard ==
  [NoBoard EXCEPT !.bus = "SER", !.name = "7I90HD", !.io = TRUE, !.flashOps = WriteVerify,
     !.reset = "lbp16_board_reset", !.reload = "lbp16_board_reload", !.life = TRUE,
     !.flash = "REMOTE", !.fallback = TRUE]
SerialFound(there) == IF there = "7I90HD" THEN <<SerialBoard>> ELSE <<>>

-----------------------------------------------------------------------------
(* anyio_get_dev: the first of the boards with the name, or any of them *)

NameMatchesBeginning(device, board) ==   \* a slip: strncmp without the lengths
  \/ device = board.name
  \/ device = "5I25" /\ board.name = "5I25T"
NameMatches(device, board) == device = board.name

anyio_get_dev(boards, device, wildcard) ==
  LET mine == {i \in DOMAIN boards : wildcard \/ NameMatches(device, boards[i])}
  IN IF mine = {} THEN NoBoard
     ELSE boards[CHOOSE i \in mine : \A j \in mine : i <= j]
=============================================================================
