# Mesaflash in TLA+

Mesaflash is the command-line tool that writes configurations into the flash of
Mesa Electronics' FPGA boards, and reads, resets and inspects those boards over
PCI, EPP, Ethernet, serial, USB and SPI. This directory models the program in
TLA+, checks the models with TLC and proves their main invariants with TLAPS.

A wrong step of this program can leave a machine controller that no longer
starts. The models are therefore about what is in the flash after which
sequence of steps, failures and answers, and what the program says about it.

## Inventory

| component | source | state it keeps | operations | what makes it correct |
|---|---|---|---|---|
| flash update | `eeprom.c` | `file_buffer`, `page_buffer`, `boot_block`, the table `eeprom_access`; the chip itself | `eeprom_write`, `eeprom_verify`, `flash_restore`, `flash_erase`, `flash_backup`, `start_programming`, `check_boot`, `write_boot`, `sha256_verify` | success only with the image in place; nothing else changed; a valid boot block never lost; every run ends |
| command line | `mesaflash.c` | option flags, `bitfile_name`, `access` | `process_cmd_line`, `main` | no reload of an image whose verification failed; the result of the command is main's result; every run ends |
| board access | `anyio.c`, `boards.h` | `boards`, `boards_count`, `access.open_iface` | `anyio_find_dev`, `anyio_get_dev`, `anyio_dev_*` | the board acted on is the one named; writing and verifying agree on the address |
| bit file headers | `bitfile.c` | none | `print_bitfile_header`, `bitfile_reverse_bits` | the position after the header and the part name |
| local SPI access | `eeprom_local.c` | `GPIO_reg_val`, chip select, one byte in the shift register | `read_page`, `write_page`, `erase_sector`, `read_flash_id`, `wait_for_write` over four kinds of port | a transfer is the bytes that were meant; no operation starts while one is running |
| remote flash | `eeprom_remote.c`, `lbp16.c`, `eth_boards.c` | socket mode, `dst_addr`, `src_addr`; the board's flash address register | the same three operations as datagrams, `lbp16_read`, `lbp16_write`, scan, reload | an answer is used for the request it belongs to |
| serial boards | `serial_boards.c` | the byte stream | `serial_send_packet`, `serial_recv_packet`, scan | bytes in order, once |
| LBP over USB | `lbp.c`, `usb_boards.c` | the byte stream | `lbp_read`, `lbp_write`, `usb_program_fpga`, scan | as above |
| EPP boards | `epp_boards.c` | the port's address and timeout bit | `epp_read`, `epp_write`, `epp_reset`, `epp_program_fpga`, scan | data of a timed-out cycle is not used |
| PCI boards | `pci_boards.c` | the bridge's control register, the card's PCI configuration | PLX reset and programming, reload, scan | a load that failed leaves the FPGA in reset and is reported |
| SPI boards | `spi_boards.c` | the spidev descriptor | read, write, reload, scan | a reload boots the area asked for |
| HostMot2 | `hostmot2.c` | pin and module tables, pin registers | pin source and direction, enable all, safe I/O | a change of one pin leaves the others |
| smart serial | `sserial_module.c` | command, data, CS and interface registers | handshake, discovery, walk of the remote's tables | no command before the last is complete; pins restored |
| encoder | `encoder_module.c` | last counts and timestamps | `encoder_init`, `encoder_read` | extension of 16-bit counters |
| platform | `common.c` | none | port I/O, delays | pure I/O |

`main` calls `anyio`, which searches the buses and fills in `boards`; a board's
record carries the functions of its transport (`llio`). The flash update runs
over `eeprom_access`, whose three operations are either local SPI transfers or
LBP16 packets. There are no threads: the other parties are the board, its flash
chip, the network or line between, and the power switch.

What is hard here is not in the program's own steps but between them: the chip
and the wire fail without telling (`write_page` returns nothing), datagrams are
lost, repeated and late, the process can be cut anywhere, and the state that
survives is the very flash the board starts from. `PROJECT.json` lists the
hazards at their lines.

## Modules

| module | what it is |
|---|---|
| `SpiFlash` | the flash chip, external: a function from addresses to cells, sector erase, page program, addresses that wrap at the end of the chip, operations cut short |
| `Eeprom` | one or more runs of the program with `--write`, `--verify` or `--restore-flash`: `main`, `anyio`'s choice of addresses, `eeprom.c` |
| `RemoteFlash` | a write and its verification on an Ethernet board: the scan, the opening of the board and the operations of `eeprom_remote.c` as datagrams that are lost, repeated and delayed; the board, external |
| `FlashUpdate` | abstract: what an update of the flash promises; `Eeprom` and `RemoteFlash` both implement it |
| `SpiPort` | the same flash operations one level down: each function of `eeprom_local.c` as its accesses of the board, over HostMot2 registers, the GPIO of an XIO2001, I/O ports or EPP; serializer and chip, external |
| `FlashCalls` | abstract: a flash call changes the contents once and returns the answer that they give; `SpiPort` implements it, `Eeprom` is written with it |
| `DeviceSearch` | `supported_boards`, the `board_t` that each scan fills in, `anyio_get_dev` |
| `FpgaLoad` | `llio.reset`, `llio.program_fpga` and `llio.reload` of every board, access by access, and the FPGA, external |
| `Session` | runs of mesaflash: `process_cmd_line`, `anyio_find_dev`, `main`, `anyio_dev_*`; composes `DeviceSearch` and `FpgaLoad` |
| `HostMot2`, `Encoder`, `Sserial` | pin registers of a card, encoder, catalogue of smart serial remotes |
| `CardJobs` | composes these three: one job on a card |
| `MCEeprom`, `MCRemoteFlash`, `MCSpiPort`, `MCSession`, `MCCardJobs` | files, boards, command lines and cards for TLC |
| `SpiFlashProofs`, `EepromProofs`, `EepromWriteProofs`, `RemoteFlashProofs`, `EncoderProofs`, `CardJobsProofs`, `SessionProofs`, `SpiPortProofs` | what TLAPS proves of them |

How the levels fit: `Session` decides which function of which board is called and
what main makes of its result, and takes a flash command as its result. `Eeprom`
and `RemoteFlash` are those flash commands, with the chip's operations as steps.
`SpiPort` is one such operation, with the accesses of the board as steps.

### SpiFlash

A cell does not hold a byte but where the byte came from: offset 5 of file `f`,
byte 0 of the boot block, erased, zero, junk. Two bytes that the real chip would
hold equal by coincidence are different here, so a comparison that succeeds in
the model is one that succeeds for every content of the file. Programming over a
cell that is not erased gives junk, unless it is the byte that is already there.

### Eeprom

| variable | in the code |
|---|---|
| `board` | the `board_t` found: FPGA family, fallback support, recovery, part number |
| `flash` | the chip |
| `cmd` | the command line: `--write`/`--verify`/`--restore-flash` with file, `--fallback`, `--fix-boot-block`, `--sha256-check`, `--no-auto-verify`, `--reload` |
| `pc`, `ret` | where the run is; what `main` returns |
| `file_buffer` | `file_buffer`, 8192 bytes of it; keeps what was there past a short read |
| `start_address`, `addr`, `sector`, `esectors` | the locals of `start_programming`, `flash_erase` and of the loops |
| `fpos`, `eof`, `bytesread`, `bindex` | the file position, `feof(fp)`, the last `fread` and the cursor in the buffer |
| `sessions`, `faults` | bounds: runs started, operations the chip failed to do |

One action is one operation of the chip with the code around it, or one read of
the file: `OpenForWrite` is `eeprom_write` up to its boot block, `CheckBoot`,
`EraseBoot`, `WriteBoot` and `RecheckBoot` its boot block, `StartProgramming` and
`EraseNext` are `start_programming`, `ReadToProgram`, `ProgramNext` and
`ProgrammingDone` its last loop; `OpenForVerify`, `ReadToCompare`, `CompareNext`
and `VerificationDone` are `eeprom_verify`; `OpenForRestore` is `flash_restore`,
whose loops are those of the write; `Reload` is `anyio_dev_reload`. `Crash` ends
the process between any two steps, or inside an erase or program operation: of a page
each byte is then as it was, as it was to be, or junk, and of a sector each `EraseUnit`
(`Partly`), because on the register, port and EPP accesses the chip programs the bytes that it got
before the kill. An operation may also fail and leave the like, with the program none the
wiser (`Operate`).

A file is its size, the length of its header (or none: `print_bitfile_header`
returns -1), the part it names and whether its checksum file agrees.

### RemoteFlash

| variable | in the code |
|---|---|
| `setup` | FPGA family, `--fallback`, `--fix-boot-block`, whether the board has a valid boot block |
| `pc`, `awaiting` | the call of `eeprom_access` (or of the scan and `eth_board_open`) that is being made; its datagrams are sent and `recvfrom` waits |
| `index` | the loop counters of `start_programming`, `eeprom_write` and `eeprom_verify` |
| `flash_id` | `board->flash_id`: the board's, or whatever another answer began with |
| `toBoard`, `toHost` | datagrams on their way, in order |
| `reg`, `flash` | the board's flash address register and its chip |
| `lost`, `repeated` | bounds: what the network did wrong |

`Send` sends all the datagrams of a call; one action per kind of call receives its
answer. `recvfrom` cuts a longer answer to the size asked for, so
`lbp16_recv_packet_checked` aborts only on a shorter one (`TooShort`), and
`lbp16_read`, which reads the flash id and the address "for board syncing", takes
anything. The board serves one datagram at a time. Nothing in the repository says
whether a transfer advances its address register: the model allows both, and any
contents of the register at first. A cell stands for a page here, a short file
for its pages. Chip failures and crashes are `Eeprom`'s subject and left out.

### FlashUpdate

An update runs, and stops or succeeds; it may succeed only when the flash holds
what was asked, and the flash is then left alone until the next begins. In
`Eeprom` what was asked is the board and the command line and an update is a run
of the program; in `RemoteFlash` it is the options with the flash id that the
program got, and the update begins when the board has been opened.

### SpiPort

A function of a port is a piece, a sequence of accesses (`PrefixGpio`, `SendByteGpio`
and so on, named after the functions), and a call a sequence of pieces (`ReadPage`, `WritePage`):
`todo` is the call under way, `piece` and `step` are where in it the process is.
An access is a write of chip select, of one GPIO line, of the shift register or of
the EPP address, a read of a bit or a byte, or a poll. `GPIO_reg_val` is the shadow
register of the code, `line` the real lines. The chip takes a command when it is
deselected after a whole number of bytes (`got`; `bits` and `part` are the byte it is getting), ignores all but a read of its status
while it is busy, and wraps inside the page. A byte that is written to the
serializer before the last is out is lost or replaces it. `WaitGivesUp` is a poll
that used up its 5000 turns, `CycleLost` an EPP cycle that timed out, `Crash` the
end of the process between any two accesses; the next process finds the chip as it
is, perhaps selected, perhaps busy.

`FlashCalls` says what the flash algorithms rely on: between its beginning and its
return a call changes the contents once, to what it is for, and returns the
answer of these contents. It promises nothing once a poll gave up, a cycle was
lost or a process was killed; `DamageConfined`, `IdRight` and `CallsEnd` say what
is left then.

### DeviceSearch, FpgaLoad and Session

| variable | in the code |
|---|---|
| `args`, `flags`, `bitfile_name`, `access` | the options still to come, the flags set, the one file name that all file options share, `board_access_t` |
| `buses`, `devices`, `boards` | scans still to come; what the scan of the PCI bus has still to look at; `boards` with `boards_count` as its length |
| `board`, `pc`, `ret`, `called` | the board found, where main is, its `ret`; history: what the board's functions returned |
| `routine`, `at`, `file`, `fallback`, `left`, `count`, `saved`, `result` | the function of the board that runs, where, its arguments and locals, and what it returned |
| `line`, `timeout`, `cfg`, `fpga`, `icap` | the bridge's or CPLD's outputs, the EPP timeout bit, the PCI configuration, the FPGA and its ICAP; they survive a run |
| `enabled`, `ended`, `null` | the card's enable count, how the last run ended, whether by a call of NULL |
| `bench`, `broken`, `old` | what is connected, what is wrong with its FPGA, firmware too old to reload |

A `board_t` keeps its name, its bus and which functions it has. Each board of each
scan is a record of `DeviceSearch`, so that what main calls is what that board
has. `GetOption` is one turn of the loop of `process_cmd_line`, `ScanBus` one scan, with
`ScanDevice` for each device on the PCI bus,
the other actions of `Session` one call of a function of the board; the steps of
`FpgaLoad` are single accesses of the bridge or the FPGA. `Kill` ends the process
anywhere. `AnswerLost` loses the answer to any question asked of an Ethernet or serial board: the
scan that asked for the cookie finds no board, a serial line gives up and aborts, and
everywhere else the program waits in `recvfrom`, at "unanswered", until it is killed. The boards' FPGA, raised from
reset, clears itself, takes the file in chunks, checks its CRC and starts, or stays in
/INIT or shows DONE.

`anyio_find_dev` takes the first entry of its table with which the name on the command
line begins. `LongNames` gives the names that are longer than their entry: 5I25T, and
ETHERNET, SPIDEV or AUTO1, which stand for any board like ETHER, SPI and AUTO.

There is one FPGA on a bench, and `BenchAssumption` says what follows for the
boards that the scans may find there: those that can be reset, loaded or reloaded
have the name of its holder. The holder is what the scans take it for: a port that
answers like a 7I43 is one.

### HostMot2, Encoder, Sserial and CardJobs

`ddr` and `alt` are the pin registers; `pin` is the loop over ports or pins. ALT_SOURCE
cannot be read, as the comment in the code says, and gives ones or zeros. A handshake of
`Sserial` is `Send`, the processor's `Execute` and `sslbp_wait_complete`; `entry`,
`channel` and `modes` are the loops. A remote whose non-volatile memory is selected
hides its list. A record is its kind: a revision, a non-volatile parameter known by name, one that only
`--verbose` reads (non-volatile, or in RAM), a software mode, or another. A mode whose name does not fit
ends the process in `abort()`. In `Encoder` the shaft turns in single counts and the clock runs,
between any two of which `encoder_read` may come; `position` and `edge` are what it
should find.

## Runs

The chip of the `eeprom` runs has four sectors of eight bytes and pages of two, `fread`
returns up to two pages, the boot block has one byte. So the user area is two
sectors, the fallback area of a Xilinx board one, and the files are chosen to
have a short last read, a read that ends exactly at the end, half a page at the
end, one read only, the size of the area, one byte more, and the size of the
chip with and without a header. A larger geometry only repeats turns of the same loops.
`eeprom_crash` has sectors of four bytes in two units, and files that fill their areas:
all ways in which a page of two bytes and a sector of two units can be left are there.

| run | what it asks | bounds |
|---|---|---|
| `eeprom_run` | every command on every kind of board (Xilinx and Efinix with fallback, Xilinx without, recovery): types, nothing outside the area changes (`WriteConfined`), no reload without the image (`ReloadsOnlyImage`), the run's own verification finds nothing when the chip did its work (`AutoVerifyAgrees`), the run ends (`SessionEnds`) | one run, one failure of the chip, a crash anywhere |
| `eeprom_crash` | two runs in a row: success means that the image is there (`SuccessMeansImage`), pages are only programmed over erased cells (`ErasedBeforeProgrammed`), every run is an update (`ImplementsUpdate`), a valid boot block is never lost (`ValidBootKept`), a later verification reports only real differences, in the file or behind its end in the last page (`NoSpuriousMismatch`) | two runs, one failure, a crash anywhere |
| `eeprom_oversize` | `OversizeRefused`, which the code violates: a file of one sector more than its area is let through by `esectors > max_sectors` | one run, no failure |
| `eeprom_recover` | `RecoverWriteVerifies`, which the code violates: the verification after a recovery write compares the part number with "Unknown" | one run, no failure |
| `remote_write` | every option on a Xilinx and an Efinix board: the write is an update, which succeeds only with every page in place that differs from its neighbours, if at most one datagram was lost (`ImplementsRemoteUpdate`), and with equal pages in place too if none was lost, or one and none repeated (`VerifiedMeansAll`); nothing is written under a misread id where the boot block would show it (`RightIdBeforeErase`), program and board are in step while nothing is repeated (`InStep`), the network alone makes a run fail (`FailsOnlyWithNetwork`), without a loss, only the sectors and pages of the file change, a boot block that is being repaired, and as many pages behind as there were repeats (`OthersKept`), only a loss keeps the program waiting (`EndsUnlessLost`) | two losses, two repeats, anywhere |
| `remote_sync` | `SyncMeansDone`, which the code violates: after one repeated answer the reads for syncing are satisfied by earlier ones | one repeat |
| `remote_area` | `VerifiedMeansHeld`, which the code violates: a misread flash id moves the write and its verification to another area of an Efinix board | one loss, one repeat |
| `spi_port` | three calls in a row on each kind of access: a call is what `FlashCalls` promises (`ImplementsCalls`), the id is the chip's (`IdRight`), no command goes to a busy chip (`IdleBeforeCommand`), an interrupted call damages its own page or sector only (`DamageConfined`), every call ends (`CallsEnd`) | bytes of three bits, two sectors of two pages of two bytes; two crashes and one give-up or lost cycle, anywhere |
| `session` | every command on boards of every bus: the board driven is the one named, unless the name begins with one for any board (`OnlyNamedIsDriven`), no NULL is called where the board has registers (`NullOnlyWithoutRegisters`), a run that ends with 0 did all that belongs to its first command if that is one for the flash, and did not touch the flash if it is not (`FlashStatusTrue`), loading functions report the truth (`LoadReported`) and leave the bridge idle (`BridgeIdle`), a reload boots the right area (`BootsAsked`), no sequence of runs without a kill leaves a card without its PCI configuration (`ConfigKept`), the enable count is balanced (`EnableBalanced`), every run ends or waits for an answer of an Ethernet board that was lost (`SessionEnds`) | 14 benches with their command lines; two runs, one kill anywhere, one lost EPP cycle, datagram or answer; three polls for /INIT, two for DONE, files of two chunks |
| `program_status` | `ProgramStatusTrue`, which the code violates: the result of `program_fpga` is dropped | the two PLX benches, one run |
| `reset_init` | `ResetMeansReady`, which the code violates: the test after the poll for /INIT is for 0 and the counter is at -1 | the same |
| `card_jobs` | each job leaves the pins as it promises (`PinsLeft`) and drives only outputs (`OnlyOutputsDriven`), the catalogue has every record that is to be read, the revisions from RAM and all others from non-volatile memory, and leaves RAM selected (`CatalogueComplete`), the encoder follows the shaft (`Follows`), the jobs end (`JobEnds`) | three ports of two pins, three channels with remotes of six and three records, one of which stops answering; a counter of six values |

`WriteConfined`, `ValidBootKept`, `ErasedBeforeProgrammed` and `AutoVerifyAgrees`
are stated for files that fit their area, because of the first finding.
`AutoVerifyAgrees` also leaves out a file that has the size of the chip and a header:
it is written from behind its header and compared from its first byte, as a dump
(`eeprom.c` 362, 384-387).
`NoSpuriousMismatch` is stated for files of more than one read: the tail of the
last page of a shorter file is compared with what the buffer held before, which
depends on the options of the run that wrote it. It also leaves out a last page that was cut
while the bytes behind the file's end were programmed (`PaddingCut`): all of the file is
there then, and the comparison of whole pages reports a difference all the same.
Deadlock is not checked: the program may stop.

The flash of the `remote` runs has eight sectors of two pages. The image of
`remote_write` has four pages, of which the second and third are equal: it takes two sectors, both
loops turn more than once, and a page that comes twice would go to the next sector.
In the two runs of findings it has three, all different. The user area is the upper half, and the one assumed for an
unknown id the second quarter.

`ImplementsRemoteUpdate` and `VerifiedMeansAll` say how far a verification over this
protocol can be trusted, and their conditions are needed. (a) Of two equal pages in a row, as configuration
files have, one can be missing: its data is lost in the write, and a repeat of the
answer to the page before stands in for its answer in the verification. So pages that are equal to
a neighbour are promised only when nothing was lost, or nothing but one datagram went wrong.
(b) With two losses nothing is promised (`Trusted`): when the header makes the file take one sector
more than its pages do, the first page can go to the start of that last sector, and be
found there when the address of its comparison is lost too. `OthersKept` fails under one loss: the
address of an erase is lost and the sector of an earlier call is erased.

Fairness: in `Eeprom`, `FairSpec` adds weak fairness of `Step`, the steps of the program
itself. It is one sequential process that nothing blocks: local files, and a
chip whose operations are assumed to end (`wait_for_write` polls without a
bound, which is listed as a hazard). Nothing is assumed of `Crash` or of
`StartSession`. In `RemoteFlash` the program and the board keep working, and
nothing is assumed of the network. In `SpiPort` the process goes on, the serializer
shifts and the chip gets done; polls that give up, lost cycles and crashes need not
happen. In `Session` the process runs as long as it has something to do, an FPGA that
works comes out of its clearing and starts, and nobody has to start mesaflash again; a program
that waits for a lost answer has nothing to do.
In `CardJobs` the process runs and the card's processor executes what it is told.

The bounds of the later runs: in `spi_port` a byte of three bits has a first, a middle
and a last bit, and the addresses need each of their three bytes; three calls are
enough for a write that follows an interrupted write, read or erase and is read back;
the second crash can fall right behind the first, on a chip that the first left deaf.
In `session` only the order of accesses, words and chunks matters, and two of each show
one that is missing, early or repeated. The counter of `card_jobs` wraps in both directions within the bounds
on position and time.

## Proofs

TLAPS proves for all values of the constants what a run shows for a few. Every
safety property of the passing runs is a theorem, except `NoSpuriousMismatch` and the
refinement of `FlashUpdate` by `RemoteFlash` with its `VerifiedMeansAll`.

| module | theorems | for every |
|---|---|---|
| `EepromProofs` | `TypeCorrect`, `SuccessIsImage`, `ReloadIsImage`, `EepromImplementsUpdate` (a refinement) | geometry in which sectors and reads are whole pages, set of files, boards and command lines; any number of runs, crashes and failures of the chip |
| `EepromWriteProofs` | `ProgramsErased`, `WriteIsConfined`, `BootBlockIsKept`, `VerificationAgrees` | the same |
| `RemoteFlashProofs` | `RemoteTypeCorrect`, `RemoteInStep`, `RemoteRightIdBeforeErase`, `RemoteFailsOnlyWithNetwork`, `RemoteOthersKept` | image, size of sectors and flash, set of boards and options; any number of losses and repeats |
| `EncoderProofs` | `EncoderFollows` | half range of the counter greater than the turn between two reads |
| `CardJobsProofs` | `CardTypeCorrect`, `CardOnlyOutputsDriven`, `CardPinsLeft`, `CardCatalogueComplete`, `CardFollows` | number of ports and pins, table of descriptors, set of remotes and lists |
| `SessionProofs` | `SessionTypeCorrect`, `SessionFlashStatusTrue`, `SessionNullOnlyWithoutRegisters`, `SessionConfigKept`, `SessionEnableBalanced`, `SessionBootsAsked`, `SessionBridgeIdle`, `SessionLoadReported`, `SessionOnlyNamedIsDriven` | set of benches, names and command lines; any number of runs, kills, lost answers and other faults; length of a file and of a wait |
| `SpiPortProofs` | `PortTypeCorrect`, `IdIsTheChips`, `NoCommandIgnored`, `CallsAreAtomic` (a refinement), `DamageStaysConfined` | width of a byte, geometry of the chip, contents, command codes; any number of calls and crashes |

`SpiFlashProofs` holds the lemmas on the chip that the two flash models share:
what an address decodes to, and what an erase or a page programs.

The assumptions are those of the modules, which TLC evaluates in the runs:
`GeometryAssumption` and `EepromAssumption` (the boot block fits a page, the buffer
is a multiple of the page, no file is named like a marker of `SpiFlash`, a header
is not longer than its file, Efinix boards have a fallback image),
`RemoteAssumption`, `EncoderAssumption`, `PinsAssumption`, `RemotesAssumption`,
`LoadAssumption`, `SessionAssumption`, `BenchAssumption` and `PortAssumption` (command codes
differ from each other and from what an undriven line reads, a page, the pages
of a sector and the sectors can be counted in a byte each, as `send_address` has it).

None of the properties is inductive by itself. What each needs:

**Eeprom, verifying.** `TypeOK` needs that the cursor stays inside the
buffer while pages are taken from it (`PageBounds`). The image needs `Stages`, that the
comparing steps are only reached after `OpenForVerify`
accepted the file, and `Comparing`, that everything before the cursor has been
compared: the flash holds the file up to `fpos` less what is left of the last
read, `addr` and `fpos` advance together, and the buffer holds the bytes of the
file from there. Then a page that matches extends what was compared by a page,
and at the end of the file the whole image has been seen. Nothing before the
verification matters, which is why the theorem holds whatever the chip did.
The refinement follows from the same invariant: a step to a verified exit leaves the
flash as it is (`QuietEnds`) and `SuccessMeansImage` holds after it, so what was
asked was in the flash when the update succeeded; every other step is a
beginning, a stop or work.

**Eeprom, writing.** `WriteInv`: a process starts with its variables zero (`Fresh`);
the loops start where the command says and the file after its header (`Aimed`); the
boot block is rewritten only when there is none (`Repairing`); the sectors before
`addr` are blank (`Erasing`); while programming, `addr` is the start plus what has
been taken of the file, and everything from there to the end of the erased
sectors is blank (`Programming`). That the sectors counted from the whole file
cover the pages counted from its bytes behind the header is arithmetic
on both loops' ends, and confinement is the same arithmetic with the
area's end. `VerificationAgrees` needs in addition what the pages hold *behind* the end of the
file (`CheckInv`): the bytes that the read before the last left in the buffer, which `Padded`
names, or what was in it before a file of one read. `Buffered` and `Stored`
say so of the buffer and of the flash, so the comparison, which reads the file the
same way, finds the same bytes.

**RemoteFlash.** While nothing came twice (`Lockstep`), what is on its way to the board
is the rest of the datagrams of the call that is under way, or its one answer is on its way back.
With neither loss nor repeat, `Progress` follows every call through the
board: what the register, the flash and the answer are when its datagrams have been served.
With repeats, the order of what is on its way is what remains: until the
boot block has been seen nothing that changes the flash was sent (`EarlyOnly`, `Untouched`), the id
comes before any page (`RightId`), and every erase and every page comes right behind its
address, except for datagrams that were repeated at the head of the queue (`AllAimed`).
`RemoteRightIdBeforeErase` holds under any losses too: a boot block prepared for
another area differs from the one on the board, which comes from no other area (`NoForeignBoot`).

**CardJobs.** `SsInv`: a command is pending only where the process waits for it, and is the one that
belongs there; non-volatile memory is selected exactly from the command that selects it to the
one that takes it back; the registers hold the answer to the last command; what was
found is what has been passed of the lists. `PinInv` says what each loop over ports or pins has done
so far. `CardOnlyOutputsDriven` needs only that nothing but these loops sets a direction.
`EncoderFollows`: the register holds `raw_counts` of the last read plus what the shaft has turned
since, modulo the range, and the stamp the time of the last count; a difference
smaller than half the range is then what `Unwrap` makes of the difference of the registers.
`CardFollows` carries this over to the composition.

**Session.** `MainInv` says at each
place of main what `called` must be by now (the calls of the first command in main's order, and none
of the flash functions before it), and that each
function a command calls was looked at or belongs to a board that was
opened. `SearchInv`: what the search puts into `boards` is a board of the tables that
this bench can show; it rests on an enumeration of all of them (`BoardOK`). On it rest:
`EnableInv` (between opening and closing, one more than the kills at most);
`RunsInv` (the function that runs is the one of the board that main waits for);
`BootsInv` (what ICAP holds after each of the fourteen words, whatever a run that was
killed left there, and that no FPGA that is starting starts after a reload);
`BridgeInv` (/WRITE high wherever a function of the PLX9030 may return);
`LoadInv` (what reset and loading have established after each access: an FPGA that a
reset took to /INIT runs nothing, so a DONE seen later means this file); `KeptInv` (without
a kill a reload starts on a card that is set up, saves that, and is the only place where
it is lost, until it puts it back: also when it fails); and `Named`, that the board main has got has
the name of `--device`, or that the name stands for any board.

**SpiPort.** A call is not looked at access by access but by place: `piece` is a place in
one of its commands (`Inside`, the `Pos`-th piece of it, which sends `Sending` and asks for `Ins` bytes)
or between two. Lemmas compute once what stands at each place (`CallLayout`, `Place`,
`Tables`), and `NextPlace` where the next access is. `PortInv` has three parts. `TypeInv`: the types, and how
far the answer is (`Answered`: each byte received has its place in `buff`, and the bits still to come
fit into it). `Wires`, without faults: chip select, clock, data line, EPP address and
serializer are a function of the place. `Track`, without faults and after a clean crash: the chip has heard the bytes
sent so far, as many as the place says (`Heard`, `RegTrack`; on gpio also the bits of the
next byte, `GpioTrack`), what came back is what the chip gives for them (`Told`), and the chip
is busy only where the call polls (`Polling`). That a poll goes back to the read of the status is
why the place, and not the number of accesses, must be what everything depends on.
For `CallsAreAtomic`, `Aim` follows the contents: until the command that changes them has been handed over
(`Changed`) the goal is what a change would make of them, and from then on they are the goal; between
the write enable and that command the latch is set. The command is handed over where chip select is
raised behind it (`Raising`), and what the chip heard there is the command, so that what the
chip makes of it is what the call is for (`PageWritten`, `SectorGone`).
`DamageStaysConfined` cannot use `Track`, which says nothing of a chip that a crash left in the middle of
a command. `Confined` takes its place. A gpio port raises chip select before a command, so that what an
interrupted process had sent either ends there, and reaches what its call was for, or is the
command itself (`Heeded`). On the other ports the next process goes on where the last stopped, and `Stream`, what the chip
has and is about to get, is one of three: the command of this process and no more; bytes of an earlier
process, at least three of them if they write or erase, which fix the page or sector (`Settled`) whatever follows;
or less than that, where `exposed` holds every cell.

### What the proofs found

Each of these was a proof that failed, then a state that TLC confirmed; the models
and properties are as they are because of them.

- A page datagram that is delivered twice may advance the board's address register
  twice: with an image that fills its sectors the last page goes one page behind them. The
  image of the run had left room there. `OthersKept` now names these pages.
- The verification of a file that has the size of the chip and a header compares
  another part of the file than was written (see `AutoVerifyAgrees` above). The run had
  no such file.
- `Session` has one FPGA, on which every board of a bench acts. Two benches of the run had boards
  of two names that can be loaded, so that naming either would have driven the other's FPGA had a
  command line named it. `BenchAssumption` now says whose FPGA it is.
- `IdleBeforeCommand` was an invariant of a run with one crash. After two it is false: a
  process that is killed right behind a crash leaves what the first left, with a `cut` that looks clean.
  It is a property of the step now, that gives the command to the chip, and the run has two crashes.
- Two arms of the register write of `SpiPort` overlapped, and an FPGA raised from reset kept its state
  until the next step; TLC took the first arm and never looked, a proof has to know.

### Only model-checked

- Liveness: `SessionEnds` of `Eeprom` and of `Session`, `EndsUnlessLost`, `CallsEnd`, `JobEnds`. Temporal
  reasoning about fairness is out of the prover's reach.
- `NoSpuriousMismatch`: it needs to know of every page in the flash which file and options it was
  programmed with, a history over all earlier runs.
- `ImplementsRemoteUpdate` and `VerifiedMeansAll`: they follow one loss and any number of repeats through
  a write and its verification, where the invariants of the other theorems follow either the calls
  without losses or only the order of the datagrams.
- The violated properties of the six runs of findings.


## Not modelled

- The byte stream of serial and USB boards (`serial_send_packet`, `serial_recv_packet`,
  `lbp_read`, `lbp_write`): short writes and timeouts meet a firmware that is not in
  the repository. `usb_program_fpga` is not reachable from main: a USB board has no
  `reset`, and `anyio_dev_program_fpga` refuses it.
- `flash_backup` and its checksum file; a flash whose id is not known
  (`eeprom_get_flash_size` is 0); a file that changes while it is read; read errors of
  files; the contents of headers.
- Setting the IP address and the LED mode beyond their result.
- `MAX_BOARDS`: nothing compares the number of boards with it (`pci_boards.c` 961), so there is no
  bound that a model could check. The lists of boards here have no bound, and the
  benches at most three boards.
- A process that is killed right after the command byte of an erase or a page, in `Eeprom`: the bytes of
  the next process complete the command at another address. `SpiPort` has it (`exposed`).
- The EEPROM of the PLX9030 bridge, which is read for printing, and the repair of its
  LASxBRD registers during the scan; the choice between a wide and a narrow EPP port.
- `sserial_init`, `sserial_write` and `sserial_cleanup`, used by an example only; the
  fields of the records and their printing. Velocity and position of the encoder in
  seconds and metres.
- `encoder_read` before `encoder_init`; printing and timing everywhere; Windows.
- A killed run that leaves a remote's non-volatile memory selected for the next run.

## Plan

What is left, in this order:

1. `NoSpuriousMismatch` as a theorem, from an invariant over the whole flash: a page that
   holds the last byte of a file, at its place in the page, ends in what the read before left.
2. `Backup`: `flash_backup` and its checksum file, cut short in between and restored later.
3. `SerialLink`: the serial packets under the remote flash operations, once the
   firmware's behaviour on repeated bytes is known.
