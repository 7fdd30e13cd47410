------------------------------- MODULE Session -------------------------------
(***************************************************************************)
(* A run of mesaflash, and the runs after it: the options one at a time,   *)
(* the search of the buses, the choice of the board, the one command that  *)
(* main gives it, and the functions of the board that this calls, with the *)
(* hardware that every run leaves to the next one.  What the functions for *)
(* flash memory do is the matter of Eeprom and RemoteFlash: here they fail *)
(* or succeed.                                                             *)
(***************************************************************************)
EXTENDS DeviceSearch, FpgaLoad

CONSTANTS
  Benches,      \* what is connected, and the command lines given there
  MaxSessions,  \* bound: runs
  MaxKills      \* bound: runs killed from outside

ASSUME SessionAssumption ==
  MaxSessions \in Nat /\ MaxKills \in Nat

FileOptions == {"write", "verify", "program", "backup-flash", "restore-flash", "info"}

Given(l, name) == \E i \in DOMAIN l : l[i].name = name
HasPlx9030(b) == \E i \in DOMAIN b.pci : b.pci[i] \in DOMAIN PciPlx9030

\* A board whose outputs, configuration or ICAP main may write to.
Drives(b) == b.reset # NULL \/ b.reload # NULL
NamedAs(name, found) == \A i \in DOMAIN found : Drives(found[i]) => found[i].name = name

\* What may show on the EPP port, and what the scans other than EPP find.
EppMayShow(b) == IF b.epp = "7I43" THEN {"7I43", "cpld"} ELSE {b.epp}
FoundOn(b) ==
  {PciFound(b.pci[i], FALSE) : i \in DOMAIN b.pci} \cup
  {EthScan(b.eth, TRUE).found, UsbFound(b.usb), SpiFound(b.spi), SerialFound(b.ser)}

\* Only the bridges PLX905x have outputs to be enabled, and only the PLX9030
\* has a /WRITE: the line of a CPLD is as if that were low for ever.  There is
\* one FPGA on a bench: what can be driven has the name of its holder.
ASSUME BenchAssumption ==
  \A b \in Benches :
    /\ b.line \in [PROGRAM : 0 .. 1, WRITE : 0 .. 1, enabled : BOOLEAN]
    /\ b.pci \in Seq(STRING)
    /\ b.lines \subseteq Seq([name : STRING, arg : STRING])
    /\ HasPlx9030(b) => b.line.enabled
    /\ \A found \in FoundOn(b) : NamedAs(b.holder, found)
    /\ \A l \in b.lines :
         /\ Given(l, "epp") => b.line.enabled /\ b.line.WRITE = 0 /\ ~HasPlx9030(b)
         /\ Given(l, "epp") /\ b.root =>
              \A there \in EppMayShow(b) : NamedAs(b.holder, EppFound(there))
         /\ \A i \in DOMAIN l :
              l[i].name \in FileOptions => l[i].arg \in Files \cup {"toolong"}

VARIABLES
  bench,         \* pci, epp, usb, spi, ser, eth, root; holder of the FPGA; its line; lines
  args,          \* options that getopt_long has not returned yet
  access,        \* board_access_t
  flags,         \* the *_flag variables that are set
  bitfile_name,
  pc,
  buses,         \* buses that anyio_find_dev has still to scan
  devices,       \* devices that pci_boards_scan has still to look at
  boards,
  board,         \* the board_t that main got
  ret,           \* main's ret; the exit status
  called,        \* what the functions of the board returned, in order
  ended,         \* how the last run ended
  null,          \* a run ended in a call of NULL
  enabled,       \* the enable count of the PCI card
  sessions, kills

mainVars == <<args, access, flags, bitfile_name, buses, devices, boards, board, ret,
              called>>
worldVars == <<bench, ended, null, enabled, sessions, kills>>
vars == <<mainVars, worldVars, pc, loadVars>>

NoAccess == [device |-> NULL, type |-> "ANY", recover |-> FALSE, address |-> FALSE,
             open_iface |-> {}]

Steps == {"off", "options", "main", "search", "open", "command", "verify", "reload",
          "programming", "resetting", "reloading", "only resetting", "close", "cleanup",
          "unanswered"}

\* The FPGA of a board that is loaded by mesaflash is empty, the others boot.
SessionInit ==
  /\ bench \in Benches
  /\ args = <<>> /\ access = NoAccess /\ flags = {} /\ bitfile_name = Nothing
  /\ pc = "off" /\ buses = {} /\ devices = <<>>
  /\ boards = <<>> /\ board = NoBoard
  /\ ret = 0 /\ called = <<>> /\ ended = "exit" /\ null = FALSE /\ enabled = 0
  /\ sessions = 0 /\ kills = 0
  /\ broken \in {"init", "done", Nothing}
  /\ old \in BOOLEAN
  /\ line = bench.line
  /\ fpga = IF bench.empty THEN [Cleared EXCEPT !.state = "clearing"]
            ELSE [Cleared EXCEPT !.state = "running", !.runs = "user"]

Init == LoadInit /\ SessionInit

-----------------------------------------------------------------------------
(* The process *)

Start ==
  /\ pc = "off" /\ sessions < MaxSessions
  /\ fpga.state # "startup"
  /\ sessions' = sessions + 1
  /\ args' \in bench.lines
  /\ access' = NoAccess /\ flags' = {} /\ bitfile_name' = Nothing
  /\ buses' = {} /\ devices' = <<>> /\ boards' = <<>> /\ board' = NoBoard
  /\ ret' = 0 /\ called' = <<>>
  /\ pc' = "options" /\ null' = FALSE
  /\ UNCHANGED <<bench, ended, enabled, kills, loadVars>>

Exit(status) ==
  /\ pc' = "off" /\ ended' = "exit" /\ ret' = status
  /\ UNCHANGED null

Dies(byNull) ==
  /\ pc' = "off" /\ ended' = "killed" /\ null' = byNull
  /\ UNCHANGED ret

Kill ==
  /\ pc # "off" /\ kills < MaxKills
  /\ kills' = kills + 1
  /\ Dies(FALSE)
  /\ routine' = Idle /\ at' = Idle
  /\ UNCHANGED <<args, access, flags, bitfile_name, buses, devices, boards, board,
                 called, bench, enabled, sessions, file, fallback, left, count, saved, result,
                 boardVars, broken, old, faults>>

GoOn(next) == pc' = next /\ UNCHANGED <<ended, null>>

-----------------------------------------------------------------------------
(* process_cmd_line *)

ValueOptions == {"device", "addr", "rpo", "wpo", "set"} \cup FileOptions
Flags == {"fix-boot-block", "no-auto-verify", "fallback", "recover", "readhmid", "print-pd",
          "print-lio", "sserial", "reload", "reset", "enable-all-mod", "safe-io", "verbose",
          "epp", "usb", "spi", "serial"}

option == Head(args)

RestUnchanged == UNCHANGED <<buses, devices, boards, board, called, bench, enabled,
                             sessions, kills, loadVars>>

\* An option that keeps what it is given: which of access and bitfile_name.
SetsValue(newAccess, newFile, names) ==
  /\ access' = newAccess /\ bitfile_name' = newFile
  /\ flags' = flags \cup names
  /\ GoOn("options")
  /\ UNCHANGED ret

Refused(status) == Exit(status) /\ UNCHANGED <<access, bitfile_name, flags>>

OptionOnce ==
  \/ option.name \in Flags /\ SetsValue(access, bitfile_name, {option.name})
  \/ option.name \in ValueOptions \cap flags /\ Refused(-1)
  \/ /\ option.name \in {"device"} \ flags
     /\ SetsValue([access EXCEPT !.device = option.arg], bitfile_name, {"device"})
  \/ /\ option.name \in {"addr", "rpo", "wpo"} \ flags
     /\ SetsValue(access, bitfile_name, {option.name})
  \/ /\ option.name \in {"set"} \ flags
     /\ IF option.arg \in {"ip", "ledmode"}
          THEN SetsValue(access, bitfile_name, {"set", option.arg})
          ELSE Refused(-1)
  \/ option.name \in FileOptions \ flags /\ SetsValue(access, option.arg, {option.name})
  \/ /\ option.name = "dbname"
     /\ IF option.arg = "known" THEN SetsValue(access, bitfile_name, {}) ELSE Refused(-1)
  \/ option.name \in {"help", "version"} /\ Refused(0)
  \/ /\ option.name \notin Flags \cup ValueOptions \cup {"dbname", "help", "version"}
     /\ Refused(-1)

\* A file name that does not fit ends process_cmd_line with 1: main goes on
\* with what there is, and without access.type.
NameTooLong ==
  option.name \in FileOptions \ flags /\ option.arg = "toolong"

GetOption ==
  /\ pc = "options" /\ args # <<>>
  /\ args' = Tail(args)
  /\ IF NameTooLong
       THEN GoOn("main") /\ UNCHANGED <<access, bitfile_name, flags, ret>>
       ELSE OptionOnce
  /\ RestUnchanged

\* The type of access is that of a transport only when one was asked for.
TypeAsked ==
  CASE flags \cap {"epp", "usb", "spi", "serial"} = {"epp"} -> "EPP"
    [] flags \cap {"epp", "usb", "spi", "serial"} = {"usb"} -> "USB"
    [] flags \cap {"epp", "usb", "spi", "serial"} = {"spi"} -> "SPI"
    [] flags \cap {"epp", "usb", "spi", "serial"} = {"serial"} -> "SER"
    [] OTHER -> "ANY"

EndOfOptions ==
  /\ pc = "options" /\ args = <<>>
  /\ access' = [access EXCEPT !.type = TypeAsked]
  /\ GoOn("main")
  /\ UNCHANGED <<args, flags, bitfile_name, ret>>
  /\ RestUnchanged

-----------------------------------------------------------------------------
(* anyio_find_dev *)

BusOrder == <<"ETH", "PCI", "EPP", "USB", "SPI", "SER">>

\* main up to the first scan: --info, no device, a device without an entry or
\* with several transports and none asked for.
Main ==
  LET type == access.type
      entry == Entry(access.device)
      refused == \/ entry = NULL
                 \/ type = "ANY" /\ entry \in DOMAIN Multi
      asked == IF type = "ANY" THEN supported_boards[entry] ELSE {type}
  IN /\ pc = "main"
     /\ \/ /\ "info" \in flags \/ "device" \notin flags
           /\ Exit(0) /\ UNCHANGED <<access, buses>>
        \/ /\ "info" \notin flags /\ "device" \in flags /\ refused
           /\ Exit(-1) /\ UNCHANGED <<access, buses>>
        \/ /\ "info" \notin flags /\ "device" \in flags /\ ~refused
           /\ access' = [access EXCEPT !.recover = "recover" \in flags,
                                       !.address = "addr" \in flags,
                                       !.open_iface = {"WILDCARD" : n \in {entry}
                                                                    \cap WildcardNames}]
           /\ buses' = asked
           /\ GoOn("search")
           /\ UNCHANGED ret
     /\ UNCHANGED <<args, flags, bitfile_name, devices, boards, board, called, bench,
                    enabled, sessions, kills, loadVars>>

\* What shows on the EPP port of a 7I43: its FPGA while that runs, or its CPLD.
EppShows ==
  IF bench.epp # "7I43" THEN bench.epp
  ELSE IF fpga.state = "running" THEN "7I43" ELSE "cpld"

Found(found) ==
  /\ boards' = boards \o found
  /\ GoOn("search")
  /\ UNCHANGED ret

NothingFound(how) == how /\ UNCHANGED boards

\* All but PCI ask at one address.  USB and serial: with no device of that
\* address the first byte to send is the last act of the process.
Scan(bus) ==
  LET at1(there) == IF access.address THEN there ELSE "none"
      eth == EthScan(bench.eth, access.address)
  IN \/ /\ bus = "ETH"
        /\ IF eth.ret < 0 THEN NothingFound(Exit(-1)) ELSE Found(eth.found)
     \/ /\ bus = "PCI" /\ bench.root
        /\ NothingFound(GoOn("search") /\ UNCHANGED ret)
     \/ bus = "EPP" /\ bench.root /\ Found(EppFound(EppShows))
     \/ bus \in {"PCI", "EPP"} /\ ~bench.root /\ NothingFound(Exit(-1))
     \/ /\ bus = "USB"
        /\ IF at1(bench.usb) = "none" THEN NothingFound(Dies(FALSE))
                                      ELSE Found(UsbFound(bench.usb))
     \/ bus = "SPI" /\ Found(SpiFound(at1(bench.spi)))
     \/ /\ bus = "SER"
        /\ IF at1(bench.ser) = "none" THEN NothingFound(Dies(FALSE))
                                      ELSE Found(SerialFound(bench.ser))

NextBus == BusOrder[CHOOSE i \in DOMAIN BusOrder :
                      BusOrder[i] \in buses /\ \A j \in 1 .. i - 1 : BusOrder[j] \notin buses]

ScanBus ==
  /\ pc = "search" /\ buses # {} /\ devices = <<>>
  /\ buses' = buses \ {NextBus}
  /\ Scan(NextBus)
  /\ devices' = IF NextBus = "PCI" /\ bench.root THEN bench.pci ELSE <<>>
  /\ access' = [access EXCEPT !.open_iface = @ \cup {NextBus}]
  /\ timeout' = IF NextBus = "EPP" THEN FALSE ELSE timeout
  /\ UNCHANGED <<args, flags, bitfile_name, board, called, bench, enabled, sessions, kills,
                 codeVars, line, cfg, fpga, icap, broken, old, faults>>

\* pci_boards_scan looks at one device after another; with --recover at none
\* after the first bridge of a 6I24 or 6I25.
ScanDevice ==
  /\ pc = "search" /\ devices # <<>>
  /\ LET found == PciFound(Head(devices), access.recover)
     IN /\ Found(found)
        /\ devices' = IF access.recover /\ found # <<>> THEN <<>> ELSE Tail(devices)
  /\ UNCHANGED <<args, access, flags, bitfile_name, buses, board, called, bench, enabled,
                 sessions, kills, loadVars>>

-----------------------------------------------------------------------------
(* main: the board, and its command *)

MainStep == UNCHANGED <<args, access, flags, bitfile_name, buses, devices, boards,
                        bench, sessions, kills>>

GetDev ==
  /\ pc = "search" /\ buses = {} /\ devices = <<>>
  /\ board' = anyio_get_dev(boards, access.device, "WILDCARD" \in access.open_iface)
  /\ IF board'.name = NULL THEN Exit(-1) ELSE GoOn("open") /\ UNCHANGED ret
  /\ UNCHANGED <<called, enabled, loadVars>>
  /\ MainStep

Open ==
  /\ pc = "open"
  /\ IF board.life THEN GoOn("command") /\ UNCHANGED ret ELSE Dies(TRUE)
  /\ enabled' = IF board.mem THEN enabled + 1 ELSE enabled
  /\ UNCHANGED <<board, called, loadVars>>
  /\ MainStep

Registers == <<"readhmid", "print-pd", "print-lio", "sserial", "rpo", "wpo", "enable-all-mod",
               "safe-io">>
CommandOrder == SubSeq(Registers, 1, 6) \o <<"ip", "ledmode">> \o SubSeq(Registers, 7, 8)
                  \o <<"write", "verify", "backup-flash", "restore-flash", "program",
                       "reload", "reset">>

\* The first of the commands given, and none after it.
CommandOf(names) ==
  LET given == SelectSeq(CommandOrder, LAMBDA c : c \in names)
  IN IF given = <<>> THEN "print_info" ELSE given[1]
command == CommandOf(flags)

\* A function of the board has returned v, and main's ret with it.
Called(function, v) == called' = Append(called, [of |-> function, ret |-> v])

EPERM == 1
EINVAL == 22

\* The commands that read and write registers, and print_info.
AccessRegisters ==
  /\ pc = "command" /\ command \in ToSet(Registers) \cup {"print_info"}
  /\ IF board.io \/ command = "print_info" THEN GoOn("close") /\ UNCHANGED ret ELSE Dies(TRUE)
  /\ UNCHANGED <<board, called, enabled, loadVars>>
  /\ MainStep

SetRemote ==
  /\ pc = "command" /\ command \in {"ip", "ledmode"}
  /\ ret' \in IF board.bus = "ETH" THEN {0, -1} ELSE {-EPERM}
  /\ GoOn("close")
  /\ UNCHANGED <<board, called, enabled, loadVars>>
  /\ MainStep

AfterWrite == IF "no-auto-verify" \in flags THEN "reload" ELSE "verify"
AfterVerify == IF command = "write" THEN "reload" ELSE "close"

NextWhatever(function, v) ==   \* a slip: main does not look at the result of write
  CASE function = "write" -> AfterWrite
    [] function = "verify" -> AfterVerify
    [] OTHER -> "close"

\* Where main goes on when function has returned v.
NextAfter(function, v) ==
  CASE function = "write" -> IF v = 0 THEN AfterWrite ELSE "close"
    [] function = "restore-flash" /\ v = 0 /\ "no-auto-verify" \notin flags -> "verify"
    [] function = "verify" /\ v = 0 -> AfterVerify
    [] OTHER -> "close"

OpOf ==
  [c \in {"write", "verify", "backup-flash", "restore-flash"} |->
     CASE c = "backup-flash" -> "backup" [] c = "restore-flash" -> "restore" [] OTHER -> c]

\* anyio_dev_write_flash and its like: a board without the function refuses.
CallFlash(function) ==
  /\ \E v \in IF OpOf[function] \in board.flashOps THEN {0, -1} ELSE {-EINVAL} :
       ret' = v /\ Called(function, v) /\ GoOn(NextAfter(function, v))
  /\ UNCHANGED <<board, enabled, loadVars>>
  /\ MainStep

FlashCommand == pc = "command" /\ command \in DOMAIN OpOf /\ CallFlash(command)
Verify == pc = "verify" /\ CallFlash("verify")

\* A function that the board does not have, or that has returned: v goes to
\* main's ret if that is kept, and the board is closed.
Finish(v) ==
  /\ ret' = v
  /\ GoOn("close")

CallsBoard(function, f, next) ==
  IF function = NULL THEN Dies(TRUE) /\ UNCHANGED loadVars
  ELSE /\ CallRoutine(function, f, "fallback" \in flags)
       /\ GoOn(next)
       /\ UNCHANGED <<ret, boardVars, broken, old, faults>>

Refuses(v) == Finish(v) /\ UNCHANGED loadVars

HasReset == board.reset # NULL
ProgramBlind == board.program # NULL   \* a slip: a board without reset goes on
CanProgram == HasReset /\ board.program # NULL

\* anyio_dev_program_fpga resets, and loads when that returned 0; what the
\* loading returns is not looked at.
ProgramFpga ==
  /\ pc = "command" /\ command = "program"
  /\ IF ~CanProgram THEN Refuses(-EINVAL)
     ELSE CallsBoard(board.reset, bitfile_name, "resetting")
  /\ UNCHANGED <<board, called, enabled>>
  /\ MainStep

Returned(where) == pc = where /\ routine = Idle

ResetReturns ==
  /\ Returned("resetting")
  /\ Called("reset", result.ret)
  /\ IF result.ret # 0 THEN Refuses(result.ret)
     ELSE CallsBoard(board.program, bitfile_name, "programming")
  /\ UNCHANGED <<board, enabled>>
  /\ MainStep

ProgramReturns ==
  /\ Returned("programming")
  /\ Called("program", result.ret)
  /\ Finish(0)
  /\ UNCHANGED <<board, enabled, loadVars>>
  /\ MainStep

\* After a write, where its result counts, or as the command.
Reload ==
  /\ \/ pc = "command" /\ command = "reload"
     \/ pc = "reload" /\ "reload" \in flags
  /\ IF board.reload = NULL THEN Refuses(IF pc = "reload" THEN -EINVAL ELSE ret)
     ELSE CallsBoard(board.reload, bitfile_name, "reloading")
  /\ UNCHANGED <<board, called, enabled>>
  /\ MainStep

NoReload ==
  /\ pc = "reload" /\ "reload" \notin flags
  /\ GoOn("close")
  /\ UNCHANGED <<ret, board, called, enabled, loadVars>>
  /\ MainStep

ReloadReturns ==
  /\ Returned("reloading")
  /\ Called("reload", result.ret)
  /\ Finish(IF command = "write" THEN result.ret ELSE ret)
  /\ UNCHANGED <<board, enabled, loadVars>>
  /\ MainStep

Reset ==
  /\ pc = "command" /\ command = "reset"
  /\ IF ~HasReset THEN Refuses(ret)
     ELSE CallsBoard(board.reset, bitfile_name, "only resetting")
  /\ UNCHANGED <<board, called, enabled>>
  /\ MainStep

OnlyResetReturns ==
  /\ Returned("only resetting")
  /\ Called("reset", result.ret)
  /\ Finish(ret)
  /\ UNCHANGED <<board, enabled, loadVars>>
  /\ MainStep

EnabledLessAlways == enabled - 1   \* a slip: base is not looked at
EnabledKept == enabled   \* a slip: the card stays enabled
EnabledLess == IF board.mem THEN enabled - 1 ELSE enabled

Close ==
  /\ pc = "close"
  /\ enabled' = EnabledLess
  /\ GoOn("cleanup")
  /\ UNCHANGED <<ret, board, called, loadVars>>
  /\ MainStep

\* anyio_cleanup, and main returns.
Cleanup ==
  /\ pc = "cleanup"
  /\ access' = [access EXCEPT !.open_iface = {}]
  /\ Exit(ret)
  /\ UNCHANGED <<args, flags, bitfile_name, buses, devices, boards, board, called,
                 bench, enabled, sessions, kills, loadVars>>

-----------------------------------------------------------------------------
(* Lost answers *)

BusToScan(bus) == pc = "search" /\ buses # {} /\ devices = <<>> /\ NextBus = bus
Answers(there) == access.address /\ there # "none"

\* print_info asks the board only with --verbose; a write of one register does not.
PrintsMore == pc = "command" /\ command = "print_info" /\ "verbose" \in flags
AsksVersion == pc = "reloading" /\ InRoutine("lbp16_board_reload", "version")

\* lbp16_read and lbp16_recv_packet_checked over Ethernet, after the cookie:
\* recvfrom, which has no timeout.
EthernetAsked ==
  \/ BusToScan("ETH") /\ EthScan(bench.eth, access.address).found # <<>>
  \/ /\ board.bus = "ETH"
     /\ \/ pc \in {"open", "verify"}
        \/ pc = "command" /\ command \in (ToSet(Registers) \ {"wpo"}) \cup DOMAIN OpOf
        \/ PrintsMore
        \/ AsksVersion

\* lbp16_recv_packet_checked over the serial line: five timeouts, and abort.
SerialAsked ==
  \/ BusToScan("SER") /\ Answers(bench.ser)
  \/ board.bus = "SER" /\ (PrintsMore \/ AsksVersion)

\* The answer to what has just been asked is lost.  To the cookie's nobody waits:
\* there is no board.
AnswerLost ==
  /\ faults < MaxFaults /\ faults' = faults + 1
  /\ \/ EthernetAsked /\ GoOn("unanswered") /\ UNCHANGED ret
     \/ BusToScan("ETH") /\ Answers(bench.eth) /\ Exit(-1)
     \/ SerialAsked /\ Dies(FALSE)
  /\ routine' = Idle /\ at' = Idle
  /\ UNCHANGED <<args, access, flags, bitfile_name, buses, devices, boards, board, called,
                 bench, enabled, sessions, kills, file, fallback, left, count, saved, result,
                 boardVars, broken, old>>

-----------------------------------------------------------------------------

InBoard == RoutineStep \/ FaultStep
Chip == FpgaStep

Process ==
  \/ GetOption \/ EndOfOptions \/ Main \/ ScanBus \/ ScanDevice \/ GetDev \/ Open
  \/ AccessRegisters \/ SetRemote \/ FlashCommand \/ Verify
  \/ ProgramFpga \/ ResetReturns \/ ProgramReturns \/ Reload \/ NoReload \/ ReloadReturns
  \/ Reset \/ OnlyResetReturns \/ Close \/ Cleanup

Next ==
  \/ Start \/ Kill \/ AnswerLost \/ Process
  \/ (InBoard \/ Chip) /\ UNCHANGED <<mainVars, worldVars, pc>>

\* The process runs as long as it has something to do, and an FPGA that works
\* comes out of its reset and starts; nobody has to start mesaflash again.
Spec ==
  /\ Init /\ [][Next]_vars
  /\ WF_vars(Process)
  /\ WF_vars(RoutineStep /\ UNCHANGED <<mainVars, worldVars, pc>>)
  /\ WF_vars(Chip /\ UNCHANGED <<mainVars, worldVars, pc>>)

-----------------------------------------------------------------------------
(* Properties *)

\* Every variable keeps to its values, and a function of a board runs only
\* while main waits for it.
TypeOK ==
  /\ LoadTypeOK
  /\ bench \in Benches /\ pc \in Steps
  /\ flags \subseteq Flags \cup ValueOptions \cup {"ip", "ledmode"}
  /\ bitfile_name \in Files \cup {Nothing}
  /\ access.type \in {"ANY", "EPP", "USB", "SPI", "SER"}
  /\ ret \in {0, -1, -EPERM, -EIO, -EINVAL}
  /\ enabled \in Nat /\ sessions \in 0 .. MaxSessions /\ kills \in 0 .. MaxKills
  /\ routine # Idle => pc \in {"resetting", "programming", "reloading", "only resetting"}

\* anyio_get_dev: the outputs of bridge and CPLD, the configuration of the
\* card and ICAP change only in a run whose --device is the whole name of the
\* board that they are on, or begins with ETHER, SPI or AUTO: anyio_find_dev
\* takes every such name for any board, ETHERNET and AUTO1 as well.
NamesHolder == access.device = bench.holder \/ Entry(access.device) \in WildcardNames
OnlyNamedIsDriven ==
  [][line' # line \/ cfg' # cfg \/ icap' # icap \/ fpga'.took # fpga.took => NamesHolder]_vars

\* A NULL function is called only for the boards that have no registers or, a
\* 7I64 on USB, no functions at all: the functions that a command needs are
\* looked at before the call.
NullOnlyWithoutRegisters ==
  null => ~board.life \/ (~board.io /\ command \in ToSet(Registers))

\* main: what an exit status of 0 says of the flash memory, once there is a
\* board.  If the first command of the line in main's order is one for the
\* flash memory, it was done with all that belongs to it: the verification of
\* what was written or restored unless --no-auto-verify, the reload after a
\* write if --reload was given, each with success.  If it is any other command,
\* as with --readhmid --write FILE, or if the name of the file was refused, the
\* flash memory was not touched, and a 0 says nothing of what was asked besides.
Ok(function) == [of |-> function, ret |-> 0]
WithVerify(function) ==
  IF "no-auto-verify" \in flags THEN <<Ok(function)>>
                                ELSE Append(<<Ok(function)>>, Ok("verify"))
AllAsked ==
  CASE command = "write" /\ "reload" \in flags -> Append(WithVerify("write"), Ok("reload"))
    [] command = "write" /\ "reload" \notin flags -> WithVerify("write")
    [] command = "restore-flash" -> WithVerify("restore-flash")
    [] OTHER -> <<Ok(command)>>
FlashUntouched == \A i \in DOMAIN called : called[i].of \notin DOMAIN OpOf
FlashStatusTrue ==
  pc = "off" /\ ended = "exit" /\ ret = 0 /\ board.name # NULL =>
    IF command \in DOMAIN OpOf THEN called = AllAsked ELSE FlashUntouched

\* plx9030_program_fpga, plx905x_program_fpga and epp_program_fpga: they return
\* 0 through a PLX bridge only when the FPGA runs the file, whatever an earlier
\* run left in it, and through the CPLD only when an FPGA that was reset has
\* taken every chunk of the file.
LoadReported ==
  routine = Idle /\ result.of \in Programs /\ result.ret = 0 =>
    IF result.of = "epp_program_fpga"
      THEN broken = Nothing => fpga.of = result.file /\ fpga.took = CHUNKS
      ELSE fpga.runs = result.file /\ result.file = "good"

\* plx9030_reset and plx9030_program_fpga: whatever they return, /WRITE is high
\* again, so that nothing on the bus is taken for configuration data, and a
\* loading that failed after its start leaves the FPGA in reset.
BridgeIdle ==
  routine = Idle /\ result.of \in {"plx9030_reset", "plx9030_program_fpga"} =>
    /\ line.WRITE = 1
    /\ result.of = "plx9030_program_fpga" /\ result.ret = -EIO => Held

\* pci_board_reload, pci_efx_board_reload: a card is without its configuration
\* only while it is being reloaded, or after a run was killed: no sequence of
\* reloads, commands and failures leaves it so.
ConfigKept ==
  kills = 0 /\ routine \notin PciReloads => cfg = "set"

\* The reload functions over PCI and SPI: 0 means that the FPGA has booted the
\* area that --fallback selects, also when an earlier run was killed between
\* two words for ICAP.  An Efinix card that has lost its configuration to a
\* killed run is not looked at before it is written to.
BootsAsked ==
  /\ routine = Idle /\ result.ret = 0
  /\ result.of \in PciReloads \cup {"spi_board_reload"}
  /\ ~(result.of = "pci_efx_board_reload" /\ saved = "lost")
  => fpga.runs = result.area

\* pci_board_open, pci_board_close: a card is left enabled only by runs that
\* were killed.
EnableBalanced == pc = "off" => enabled <= kills

\* A run of mesaflash ends, whatever is connected and broken, unless an answer
\* of an Ethernet board is lost: for that it waits until it is killed.
SessionEnds == pc # "off" ~> pc \in {"off", "unanswered"}

\* "programming not completed": --program ends with 0 only when the FPGA runs
\* the file.
ProgramStatusTrue ==
  pc = "off" /\ ended = "exit" /\ ret = 0 /\ board.name # NULL /\ command = "program" =>
    fpga.runs = bitfile_name

\* "FPGA did not come out of /INIT": plx9030_reset returns 0 only when the FPGA
\* is out of its clearing.
ResetMeansReady ==
  routine = Idle /\ result.of = "plx9030_reset" /\ result.ret = 0 /\ pc = "resetting" =>
    fpga.state # "clearing"
=============================================================================
