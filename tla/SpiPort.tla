------------------------------ MODULE SpiPort ------------------------------
(***************************************************************************)
(* The flash calls of eeprom_local.c down to the accesses of the board     *)
(* that carry them: through HostMot2 registers ("hm2"), the GPIO lines of  *)
(* an XIO2001 bridge ("gpio"), I/O ports ("io") or EPP cycles ("epp").  A  *)
(* C function is a sequence of accesses, done one at a time; the process   *)
(* can be cut between any two of them, a poll can give up and an EPP cycle *)
(* can time out, which no function reports.                                *)
(*                                                                         *)
(* External: the serializer behind the registers, and the chip, which acts *)
(* on a command when it is deselected after a whole number of bytes and    *)
(* ignores all but a read of its status while it is busy.                  *)
(***************************************************************************)
EXTENDS Integers, Sequences

CONSTANTS
  Ports,         \* kinds of access: a subset of {"hm2", "gpio", "io", "epp"}
  ByteBits,      \* CMD_LEN, DATA_LEN: 8
  PageSize, SectorPages, Sectors,   \* the chip
  READ, PAGE_WRITE, WRITE_ENABLE, READ_STATUS, READ_IDROM, SECTOR_ERASE,
  FlashId,       \* what READ_IDROM answers
  Pages,         \* contents that pages are written with
  FirstMemory,   \* the chip's contents at first
  MaxCalls, MaxCrashes, MaxFaults   \* bounds

TwoTo[n \in Nat] == IF n = 0 THEN 1 ELSE 2 * TwoTo[n - 1]

Byte == 0 .. TwoTo[ByteBits] - 1
Ones == TwoTo[ByteBits] - 1   \* what an undriven line reads
Addresses == 0 .. Sectors * SectorPages * PageSize - 1
Memory == [Addresses -> Byte]

Codes == <<READ, PAGE_WRITE, WRITE_ENABLE, READ_STATUS, READ_IDROM, SECTOR_ERASE>>

ASSUME PortAssumption ==
  /\ ByteBits \in Nat \ {0}
  /\ {PageSize, SectorPages, Sectors} \subseteq 1 .. TwoTo[ByteBits]
  /\ \A i \in DOMAIN Codes : /\ Codes[i] \in Byte \ {Ones}
                             /\ \A j \in DOMAIN Codes : Codes[i] = Codes[j] => i = j
  /\ Ports \subseteq {"hm2", "gpio", "io", "epp"}
  /\ FlashId \in Byte \ {Ones}
  /\ Pages \subseteq [0 .. PageSize - 1 -> Byte]
  /\ FirstMemory \in Memory
  /\ MaxCalls \in Nat /\ MaxCrashes \in Nat /\ MaxFaults \in Nat

VARIABLES
  port,       \* board->flash: never changes
  call,       \* the call being made, Off or Idle
  todo,       \* its accesses, in pieces
  piece, step,    \* the next one: a piece, and a step of the piece
  buff,       \* bytes received in this call
  id,         \* board->flash_id of this process
  GPIO_reg_val,   \* the shadow of the GPIO register, and the register:
  line,           \* chip select (for every port), data in, clock
  sel,        \* the EPP address register
  shift,      \* the byte the serializer is shifting, or Empty
  data,       \* the last byte it received
  got,        \* bytes the chip received since it was selected
  bits, part, \* how many bits of the next it has, and their value
  mem, wel, wip,   \* its contents, write enable latch, write in progress
  calls, crashes, faults,   \* bounds
  goal,       \* history: what the chip is to hold after this call
  cut,        \* history: how the last crash left the chip
  exposed     \* history: cells that an interrupted call may still change

progVars  == <<call, todo, piece, step, buff, id, GPIO_reg_val>>
portVars  == <<line, sel, shift, data>>
chipVars  == <<got, bits, part, mem, wel, wip>>
histVars  == <<goal, cut, exposed>>
vars == <<port, progVars, portVars, chipVars, calls, crashes, faults, histVars>>

Empty == -1
Unread == -1
NoCommand == -1
CS_REG == 0     \* EPP_SPI_CS_REG
SREG_REG == 1   \* EPP_SPI_SREG_REG

Op(op, at, page) == [op |-> op, at |-> at, page |-> page]
NoPage == [k \in 0 .. PageSize - 1 |-> 0]
Off  == Op("off", 0, NoPage)    \* no process
Idle == Op("idle", 0, NoPage)   \* a process between two calls

-----------------------------------------------------------------------------
(* Accesses: [what, v]; "poll" decides on the last byte received.  A piece  *)
(* of a call is a sequence of accesses, what one function of the port does. *)

Do(what, v) == [what |-> what, v |-> v]

Weight(i) == TwoTo[ByteBits - 1 - i]
Bit(b, i) == (b \div Weight(i)) % 2

\* HostMot2 registers and I/O ports: one write; EPP: the register first.
SetCsHm2(v) == <<Do("cs", v)>>
SetCsGpio(v) == <<Do("cs", v)>>
SetCsIo(v) == <<Do("cs", v)>>
SetCsEpp(v) == <<Do("select", CS_REG), Do("cs", v)>>
SetCs(v) ==
  CASE port = "hm2" -> SetCsHm2(v) [] port = "gpio" -> SetCsGpio(v)
    [] port = "io" -> SetCsIo(v)   [] port = "epp" -> SetCsEpp(v)

PrefixGpio == <<Do("cs", 1), Do("din", 0), Do("clk", 0), Do("cs", 0)>>
SuffixGpio == <<Do("cs", 1), Do("din", 0)>>

Prefix == IF port = "gpio" THEN PrefixGpio ELSE SetCs(0)
Suffix == IF port = "gpio" THEN SuffixGpio ELSE SetCs(1)

InitGpio == IF port = "gpio" THEN <<<<Do("init", 0)>>>> ELSE <<>>
RestoreGpio == IF port = "gpio" THEN <<<<Do("init", 0)>>>> ELSE <<>>

\* Most significant bit first; the chip takes a bit when the clock rises.
SendByteGpioClockFirst(b) ==   \* a slip: data set while the clock is high
  [i \in 1 .. 3 * ByteBits |->
     CASE i % 3 = 1 -> Do("clk", 1)
       [] i % 3 = 2 -> Do("din", Bit(b, (i - 1) \div 3))
       [] i % 3 = 0 -> Do("clk", 0)]
SendByteGpio(b) ==
  [i \in 1 .. 3 * ByteBits |->
     CASE i % 3 = 1 -> Do("din", Bit(b, (i - 1) \div 3))
       [] i % 3 = 2 -> Do("clk", 1)
       [] i % 3 = 0 -> Do("clk", 0)]

\* An access "bit" adds the bit that it reads to a byte, at the place v.
RecvByteGpio ==
  [i \in 1 .. 3 * ByteBits |->
     CASE i % 3 = 1 -> Do("bit", (i - 1) \div 3)
       [] i % 3 = 2 -> Do("clk", 1)
       [] i % 3 = 0 -> Do("clk", 0)]

\* Only the HostMot2 access waits for a byte that it sends.
SendByteHm2(b) == <<Do("shift", b), Do("wait", 0)>>
SendByteIo(b) == <<Do("shift", b)>>
SendByteEpp(b) == <<Do("select", SREG_REG), Do("shift", b)>>
SendByte(b) ==
  CASE port = "gpio" -> SendByteGpio(b) [] port = "hm2" -> SendByteHm2(b)
    [] port = "io" -> SendByteIo(b)     [] port = "epp" -> SendByteEpp(b)

RecvByteHm2 == <<Do("shift", 0), Do("wait", 0), Do("take", 0)>>
RecvByteIo == <<Do("shift", 0), Do("wait", 0), Do("take", 0)>>
WaitForDataEpp == <<Do("select", CS_REG), Do("wait", 0)>>
RecvByteEpp ==
  <<Do("select", SREG_REG), Do("shift", 0)>> \o WaitForDataEpp
    \o <<Do("select", SREG_REG), Do("take", 0)>>
RecvByte ==
  CASE port = "gpio" -> RecvByteGpio [] port = "hm2" -> RecvByteHm2
    [] port = "io" -> RecvByteIo     [] port = "epp" -> RecvByteEpp

-----------------------------------------------------------------------------
(* Calls: sequences of pieces *)

\* What every function below does: select, send, receive, deselect.
Command(bytes, n) ==
  <<Prefix>> \o [i \in 1 .. Len(bytes) |-> SendByte(bytes[i])]
    \o [i \in 1 .. n |-> RecvByte] \o <<Suffix>>

SendAddressLowFirst(a) ==   \* a slip: the bytes in the other order
  <<a % PageSize, (a \div PageSize) % SectorPages, a \div (SectorPages * PageSize)>>

\* send_address: three bytes, sector, page and offset (a byte each, of which
\* the chip uses what it needs)
SendAddress(a) ==
  <<a \div (SectorPages * PageSize), (a \div PageSize) % SectorPages, a % PageSize>>

WriteEnable == Command(<<WRITE_ENABLE>>, 0)
ReadStatusUnasked == Command(<<>>, 1)   \* a slip: no command
ReadStatus == Command(<<READ_STATUS>>, 1)
ReadFlashIdEarly == Command(<<READ_IDROM>>, 1)   \* a slip: no dummy bytes
ReadFlashId == Command(<<READ_IDROM>> \o SendAddress(0), 1)

WaitForWriteNot == <<>>   \* a slip: the next command follows at once
WaitForWrite == ReadStatus \o <<<<Do("poll", 0)>>>>

ReadPage(a) == Command(<<READ>> \o SendAddress(a), PageSize)

WritePage(a, page) ==
  WriteEnable
    \o Command(<<PAGE_WRITE>> \o SendAddress(a) \o [k \in 1 .. PageSize |-> page[k - 1]], 0)
    \o WaitForWrite

EraseSector(a) ==
  WriteEnable \o Command(<<SECTOR_ERASE>> \o SendAddress(a), 0) \o WaitForWrite

\* The calls of eeprom.c: opening the board (open_spi_access_local, then the
\* id), the three of eeprom_access, the chip select around programming, closing.
Accesses(c) ==
  CASE c.op = "open"  -> InitGpio \o ReadFlashId
    [] c.op = "read"  -> ReadPage(c.at)
    [] c.op = "write" -> WritePage(c.at, c.page)
    [] c.op = "erase" -> EraseSector(c.at)
    [] c.op = "deselect" -> <<SetCs(1)>>
    [] c.op = "close" -> RestoreGpio

-----------------------------------------------------------------------------
(* The chip *)

Base == ((got[2] % Sectors) * SectorPages + (got[3] % SectorPages)) * PageSize
Target == Base + (got[4] % PageSize)
Sector(a) == {x \in Addresses : x \div (SectorPages * PageSize)
                                  = a \div (SectorPages * PageSize)}
PageOf(a) == {x \in Addresses : x \div PageSize = a \div PageSize}

OutByte ==
  CASE Len(got) >= 1 /\ got[1] = READ_STATUS -> IF wip THEN 1 ELSE 0
    [] Len(got) >= 4 /\ got[1] = READ_IDROM -> FlashId
    [] Len(got) >= 4 /\ got[1] = READ ->
         mem[(Target + Len(got) - 4) % (Sectors * SectorPages * PageSize)]
    [] OTHER -> Ones

Took(b) ==   \* got after one more byte
  IF got = <<>> /\ wip /\ b # READ_STATUS THEN <<NoCommand>> ELSE Append(got, b)

\* The byte of the bits that both have.
And(x, y) ==
  CHOOSE z \in Byte : \A i \in 0 .. ByteBits - 1 : Bit(z, i) = Bit(x, i) * Bit(y, i)

\* Data bytes beyond the end of the page start again at its beginning.
Programmed ==
  LET bytesFor(x) == {k \in 5 .. Len(got) : Base + ((got[4] + k - 5) % PageSize) = x}
  IN [x \in Addresses |->
        IF bytesFor(x) = {} THEN mem[x]
        ELSE And(mem[x], got[CHOOSE k \in bytesFor(x) : \A j \in bytesFor(x) : j <= k])]

SectorErased == [x \in Addresses |-> IF x \in Sector(Target) THEN Ones ELSE mem[x]]

Whole == bits = 0 /\ shift = Empty
Writes == wel /\ Whole /\ got # <<>> /\ got[1] = PAGE_WRITE /\ Len(got) >= 5
Erases == wel /\ Whole /\ got # <<>> /\ got[1] = SECTOR_ERASE /\ Len(got) = 4

Deselected ==
  /\ mem' = CASE Writes -> Programmed [] Erases -> SectorErased [] OTHER -> mem
  /\ wip' = (wip \/ Writes \/ Erases)
  /\ wel' = (IF Writes \/ Erases THEN FALSE
             ELSE wel \/ (Whole /\ got = <<WRITE_ENABLE>>))
  /\ got' = <<>> /\ bits' = 0 /\ part' = 0

\* The chip sees the lines go to new.
Lines(new) ==
  /\ line' = new
  /\ CASE line.cs = 0 /\ new.cs = 1 -> Deselected
       [] line.cs = 0 /\ new.cs = 0 /\ line.clk = 0 /\ new.clk = 1 ->
            LET taken == 2 * part + new.din IN
            /\ IF bits + 1 < ByteBits
                 THEN bits' = bits + 1 /\ part' = taken /\ UNCHANGED got
                 ELSE bits' = 0 /\ part' = 0 /\ got' = Took(taken)
            /\ UNCHANGED <<mem, wel, wip>>
       [] OTHER -> UNCHANGED chipVars

ChipReady ==
  /\ wip /\ wip' = FALSE
  /\ UNCHANGED <<port, progVars, portVars, got, bits, part, mem, wel, calls, crashes,
                 faults, histVars>>

\* The serializer is done with a byte.
Shifted ==
  /\ shift # Empty
  /\ shift' = Empty
  /\ IF line.cs = 0 THEN data' = OutByte /\ got' = Took(shift)
                    ELSE data' = Ones /\ UNCHANGED got
  /\ UNCHANGED <<port, progVars, line, sel, bits, part, mem, wel, wip, calls, crashes,
                 faults, histVars>>

-----------------------------------------------------------------------------
(* The program *)

GpioReset == [cs |-> 1, din |-> 0, clk |-> 0]

Init ==
  /\ port \in Ports
  /\ call = Off /\ todo = <<>> /\ piece = 1 /\ step = 1 /\ buff = <<>> /\ id = Unread
  /\ GPIO_reg_val = [cs |-> 0, din |-> 0, clk |-> 0]
  /\ line = GpioReset /\ sel = CS_REG /\ shift = Empty /\ data = 0
  /\ got = <<>> /\ bits = 0 /\ part = 0 /\ mem = FirstMemory /\ wel = FALSE /\ wip = FALSE
  /\ calls = 0 /\ crashes = 0 /\ faults = 0
  /\ goal = mem
  /\ cut = [busy |-> FALSE, selected |-> FALSE, writing |-> FALSE]
  /\ exposed = {}

Scope(c) ==
  CASE c.op = "write" -> PageOf(c.at) [] c.op = "erase" -> Sector(c.at) [] OTHER -> {}

\* What a call is for.
Effect(c, m) ==
  [x \in Addresses |->
     CASE c.op = "write" /\ x \in PageOf(c.at) -> And(m[x], c.page[x - c.at])
       [] c.op = "erase" /\ x \in Sector(c.at) -> Ones
       [] OTHER -> m[x]]

Answer(c, m) ==
  CASE c.op = "open" -> <<FlashId>>
    [] c.op = "read" -> [k \in 1 .. PageSize |-> m[c.at + k - 1]]
    [] OTHER -> <<>>

Calls ==
  LET pages == {x \in Addresses : x % PageSize = 0}
      sectors == {x \in Addresses : x % (SectorPages * PageSize) = 0}
  IN {Op("read", a, NoPage) : a \in pages}
       \cup {Op("write", a, p) : a \in pages, p \in Pages}
       \cup {Op("erase", a, NoPage) : a \in sectors}
       \cup {Op("deselect", 0, NoPage), Op("close", 0, NoPage)}

Begin(c) ==
  /\ calls < MaxCalls
  /\ calls' = calls + 1
  /\ call' = c
  /\ todo' = Accesses(c) /\ piece' = 1 /\ step' = 1
  /\ buff' = <<>>
  /\ goal' = Effect(c, mem)
  /\ UNCHANGED <<port, GPIO_reg_val, portVars, chipVars, crashes, faults, cut, exposed>>

\* A process is started, which takes longer than the shift of a byte.
Open == call = Off /\ shift = Empty /\ Begin(Op("open", 0, NoPage)) /\ id' = Unread

Call == call = Idle /\ (\E c \in Calls : Begin(c)) /\ UNCHANGED id

Return ==
  /\ call \notin {Off, Idle}
  /\ piece = Len(todo) + 1
  /\ todo' = <<>> /\ piece' = 1 /\ step' = 1
  /\ call' = IF call.op = "close" THEN Off ELSE Idle
  /\ id' = IF call.op = "open" THEN buff[1] ELSE id
  /\ UNCHANGED <<port, buff, GPIO_reg_val, portVars, chipVars, calls, crashes,
                 faults, histVars>>

Running == piece <= Len(todo)
Now == todo[piece]
Value == Now[step].v

\* The next access.  Without polls, in the accesses that do not wait for the
\* bytes they send, it comes after the serializer is done with the last one.
Due(what) ==
  /\ Running
  /\ Now[step].what = what
  /\ port \in {"io", "epp"} /\ what # "wait" => shift = Empty
  /\ UNCHANGED <<port, call, todo, id, calls, crashes, histVars>>

Advance ==
  IF step < Len(Now) THEN step' = step + 1 /\ piece' = piece
                     ELSE step' = 1 /\ piece' = piece + 1

Access(what) == Due(what) /\ Advance

DriveGpio(what) ==
  /\ port = "gpio"
  /\ Access(what)
  /\ GPIO_reg_val' = IF what = "init" THEN GpioReset
                     ELSE [GPIO_reg_val EXCEPT ![what] = Value]
  /\ Lines(GPIO_reg_val')
  /\ UNCHANGED <<buff, sel, shift, data, faults>>

ReadGpioBit ==
  /\ Access("bit")
  /\ LET bit == Bit(OutByte, bits) * Weight(Value) IN
     buff' = IF Value = 0 THEN Append(buff, bit)
             ELSE [buff EXCEPT ![Len(buff)] = @ + bit]
  /\ UNCHANGED <<GPIO_reg_val, portVars, chipVars, faults>>

\* A byte cut off by chip select does not reach the chip.
WriteCs(v) ==
  /\ Lines([line EXCEPT !.cs = v])
  /\ shift' = IF v = 1 THEN Empty ELSE shift
  /\ UNCHANGED <<sel, data>>

WriteShift(v) ==   \* one of two bytes is lost when the first is not out yet
  /\ shift' \in {v, IF shift = Empty THEN v ELSE shift}
  /\ UNCHANGED <<line, sel, data, chipVars>>

WriteRegister(what) ==
  /\ port # "gpio"
  /\ Access(what)
  /\ LET register == CASE port = "epp" -> sel
                       [] port # "epp" /\ what = "cs" -> CS_REG
                       [] OTHER -> SREG_REG
     IN IF register = CS_REG THEN WriteCs(Value % 2) ELSE WriteShift(Value)
  /\ UNCHANGED <<buff, GPIO_reg_val, faults>>

SelectRegister ==   \* epp_addr8
  /\ Access("select")
  /\ sel' = Value
  /\ UNCHANGED <<buff, GPIO_reg_val, line, shift, data, chipVars, faults>>

\* The data-available bit, which is up once the byte is through ...
Available == shift = Empty \/ (port = "epp" /\ sel # CS_REG)

WaitForData ==
  /\ Access("wait")
  /\ Available
  /\ UNCHANGED <<buff, GPIO_reg_val, portVars, chipVars, faults>>

\* ... or 5000 polls (100 over EPP) are used up: a message, and on.
WaitGivesUp ==
  /\ Access("wait")
  /\ ~Available
  /\ faults < MaxFaults
  /\ faults' = faults + 1
  /\ UNCHANGED <<buff, GPIO_reg_val, portVars, chipVars>>

TakeByte ==
  /\ Access("take")
  /\ buff' = Append(buff, IF port = "epp" /\ sel = CS_REG THEN line.cs ELSE data)
  /\ UNCHANGED <<GPIO_reg_val, portVars, chipVars, faults>>

\* wait_for_write: the status that was read decides whether it is read again.
ReadAgain ==
  IF buff[1] % 2 = 1 THEN step' = 1 /\ piece' = piece - Len(ReadStatus) ELSE Advance

PollStatusOnce ==   \* a slip: the first status decides for ever
  /\ Due("poll")
  /\ ReadAgain
  /\ UNCHANGED <<buff, GPIO_reg_val, portVars, chipVars, faults>>

PollStatus ==
  /\ Due("poll")
  /\ ReadAgain
  /\ buff' = <<>>
  /\ UNCHANGED <<GPIO_reg_val, portVars, chipVars, faults>>

\* An EPP cycle that times out is not done; epp_addr and epp_write say so and
\* nobody asks.
CycleLost ==
  /\ port = "epp"
  /\ \E what \in {"select", "cs", "shift"} : Access(what)
  /\ faults < MaxFaults
  /\ faults' = faults + 1
  /\ UNCHANGED <<buff, GPIO_reg_val, portVars, chipVars>>

Process ==
  \/ Return
  \/ \E what \in {"init", "cs", "din", "clk"} : DriveGpio(what)
  \/ ReadGpioBit
  \/ \E what \in {"cs", "shift"} : WriteRegister(what)
  \/ SelectRegister \/ WaitForData \/ TakeByte \/ PollStatus

\* Bytes of the command under way, one that is being shifted included.
Sent == Len(got) + IF shift = Empty THEN 0 ELSE 1

Crash ==
  /\ call # Off
  /\ crashes < MaxCrashes
  /\ crashes' = crashes + 1
  /\ call' = Off /\ todo' = <<>> /\ piece' = 1 /\ step' = 1
  /\ buff' = <<>> /\ id' = Unread
  /\ GPIO_reg_val' = [cs |-> 0, din |-> 0, clk |-> 0]
  /\ cut' = [busy |-> wip, selected |-> line.cs = 0 /\ Sent > 0,
             writing |-> Writes \/ Erases]
  /\ exposed' = exposed \cup Scope(call) \cup
                (IF port # "gpio" /\ line.cs = 0 /\ Sent \in 1 .. 2 THEN Addresses ELSE {})
  /\ UNCHANGED <<port, portVars, chipVars, calls, faults, goal>>

Next ==
  Open \/ Call \/ Process \/ WaitGivesUp \/ CycleLost \/ Crash \/ Shifted \/ ChipReady

Spec == Init /\ [][Next]_vars

\* The program goes on, the serializer shifts, and the chip gets done.
FairSpec == Spec /\ WF_vars(Process) /\ WF_vars(Shifted) /\ WF_vars(ChipReady)

-----------------------------------------------------------------------------
(* Properties *)

Registers == [cs : 0 .. 1, din : 0 .. 1, clk : 0 .. 1]

TypeOK ==
  /\ port \in Ports
  /\ call \in Calls \cup {Off, Idle, Op("open", 0, NoPage)}
  /\ todo = IF call \in {Off, Idle} THEN <<>> ELSE Accesses(call)
  /\ piece \in 1 .. Len(todo) + 1 /\ step \in Nat \ {0}
  /\ Running => step <= Len(Now)
  /\ buff \in Seq(Byte) /\ Len(buff) <= PageSize
  /\ id \in Byte \cup {Unread}
  /\ GPIO_reg_val \in Registers /\ line \in Registers
  /\ sel \in {CS_REG, SREG_REG}
  /\ shift \in Byte \cup {Empty} /\ data \in Byte
  /\ got \in Seq(Byte \cup {NoCommand})
  /\ bits \in 0 .. ByteBits - 1 /\ part \in 0 .. TwoTo[bits] - 1
  /\ mem \in Memory /\ wel \in BOOLEAN /\ wip \in BOOLEAN
  /\ calls \in 0 .. MaxCalls /\ crashes \in 0 .. MaxCrashes /\ faults \in 0 .. MaxFaults
  /\ goal \in Memory
  /\ cut \in [busy : BOOLEAN, selected : BOOLEAN, writing : BOOLEAN]
  /\ exposed \subseteq Addresses

\* The last process left a chip that listens to the next: it was not busy and,
\* where the prefix of a command does not raise chip select first, no command
\* was under way.
LeftClean ==
  \/ crashes = 0
  \/ ~cut.busy /\ IF port = "gpio" THEN ~cut.writing ELSE ~cut.selected

\* The id that decides on the user area is the chip's, unless the process
\* before was cut off in the middle of a command or of an operation: opening
\* the board neither deselects the chip nor waits for it
\* (read_flash_id, eeprom_local.c:342-351; prefix_hm2, 71-73).
IdRight == id # Unread /\ faults = 0 /\ LeftClean => id = FlashId

\* No command but a read of the status goes to a busy chip, which would ignore
\* it (wait_for_write, eeprom_local.c:353-359).
IdleBeforeCommand ==
  [][ got = <<>> /\ got' # <<>> /\ got'[1] = NoCommand => faults > 0 \/ ~LeftClean ]_vars

\* Whatever is cut off where, what the next process sends changes nothing but
\* the page or sector of the interrupted call, unless the interruption fell
\* between a command and the page number, where the bytes of the next command
\* complete the address (prefix_*, write_page, eeprom_local.c:375-398).
DamageConfined ==
  [][ faults = 0 =>
        \A x \in Addresses : mem'[x] # mem[x] => x \in Scope(call) \cup exposed ]_vars

Atomic == INSTANCE FlashCalls WITH
  call <- IF call \in {Off, Idle} THEN Idle ELSE call,
  answer <- buff,
  trusted <- faults = 0 /\ crashes = 0

\* On every port, each call of eeprom_access does what Eeprom takes it to do in
\* one step (read_page, write_page, erase_sector, eeprom_local.c:363-398).
ImplementsCalls == Atomic!Spec

\* Every call ends once the chip does what it does (wait_for_write polls
\* without a bound), also after a crash or a poll that gave up.
CallsEnd == call \notin {Off, Idle} ~> call \in {Off, Idle}
=============================================================================
