------------------------------ MODULE MCEeprom ------------------------------
(***************************************************************************)
(* Instances of Eeprom for TLC: a chip of four sectors of eight bytes (for *)
(* runs that follow one another, of four), pages of two bytes, reads of    *)
(* two pages, a boot block of one byte.                                    *)
(***************************************************************************)
EXTENDS Eeprom

Info(size, header, part, sha) ==
  [size |-> size, header |-> header, part |-> part, sha |-> sha]

\* The user area has 16 bytes, the fallback area of a Xilinx board 8.
MCFileInfo ==
  [full   |-> Info(16, 1, "p", TRUE),    \* fills the user area; short last read
   even   |-> Info(9, 1, "p", TRUE),     \* reads that end at the end of the file
   short  |-> Info(7, 2, "p", TRUE),     \* fits the fallback area; half a page
   tiny   |-> Info(4, 1, "p", TRUE),     \* one short read
   large  |-> Info(27, 1, "p", TRUE),    \* too large for half of a chip
   nosum  |-> Info(8, 2, "p", FALSE),
   other  |-> Info(8, 2, "q", TRUE),
   dump   |-> Info(32, NoHeader, "p", TRUE),
   whole  |-> Info(32, 1, "p", TRUE)]     \* the size of the chip, with a header

\* One byte more than the user area has.
OversizeInfo == [over |-> Info(17, 1, "p", TRUE)]

\* The like for sectors of four bytes.
CrashFileInfo ==
  [full   |-> Info(8, 1, "p", TRUE),     \* fills the user area
   short  |-> Info(4, 1, "p", TRUE),     \* fills the fallback area
   dump   |-> Info(16, NoHeader, "p", TRUE)]

CrashFiles == DOMAIN CrashFileInfo
MCFiles == DOMAIN MCFileInfo
OversizeFiles == DOMAIN OversizeInfo

Board(fpga, fallback, recover, part) ==
  [fpga |-> fpga, fallback |-> fallback, recover |-> recover, part |-> part]

XilinxBoard  == Board("xilinx", TRUE, FALSE, "p")
EfinixBoard  == Board("efinix", TRUE, FALSE, AnyPart)
LegacyBoard  == Board("xilinx", FALSE, FALSE, "p")
RecoverBoard == Board("xilinx", TRUE, TRUE, "Unknown")

FallbackBoards == {XilinxBoard, EfinixBoard}
XilinxBoards == {XilinxBoard}
RecoverBoards == {RecoverBoard}
AllBoards == {XilinxBoard, EfinixBoard, LegacyBoard, RecoverBoard}

Cmd(op, file, fallback, fix, sha, verify, reload) ==
  [op |-> op, file |-> file, fallback |-> fallback, fix |-> fix, sha |-> sha,
   verify |-> verify, reload |-> reload]

\* Every command line of interest, for one run of the program.
AllCommands ==
  {Cmd("write", f, fb, fix, fix, TRUE, TRUE) :
     f \in {"full", "even", "short", "tiny"}, fb \in BOOLEAN, fix \in BOOLEAN}
  \cup {Cmd("write", f, FALSE, TRUE, TRUE, TRUE, TRUE) : f \in MCFiles}
  \cup {Cmd("write", "short", FALSE, FALSE, FALSE, FALSE, r) : r \in BOOLEAN}
  \cup {Cmd("verify", f, fb, FALSE, FALSE, FALSE, FALSE) : f \in MCFiles, fb \in BOOLEAN}
  \cup {Cmd("restore", f, FALSE, FALSE, FALSE, TRUE, FALSE) : f \in {"dump", "full"}}

PlainWrites == {Cmd("write", f, FALSE, FALSE, FALSE, TRUE, TRUE) : f \in Files}

\* A few, for runs that follow one another.
SomeCommands ==
  {Cmd("write", "full", FALSE, fix, TRUE, TRUE, FALSE) : fix \in BOOLEAN}
  \cup {Cmd("write", "short", fb, TRUE, TRUE, TRUE, FALSE) : fb \in BOOLEAN}
  \cup {Cmd("verify", f, FALSE, FALSE, FALSE, FALSE, FALSE) : f \in {"full", "short"}}
  \cup {Cmd("verify", "short", TRUE, FALSE, FALSE, FALSE, FALSE),
        Cmd("restore", "dump", FALSE, FALSE, FALSE, TRUE, FALSE)}
=============================================================================
