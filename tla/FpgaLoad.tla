------------------------------ MODULE FpgaLoad ------------------------------
(***************************************************************************)
(* The functions that a board_t is given to reset its FPGA, to load a file *)
(* into it and to make it reload from its flash, one access of the board   *)
(* at a time: through a PLX9030 or PLX905x bridge, the CPLD of an EPP      *)
(* board, the ICAP register over PCI or SPI, or LBP16 packets.             *)
(*                                                                         *)
(* External: the FPGA, which takes its own time to clear its memory and to *)
(* start, may be broken, and is sent into its flash by the words of ICAP.  *)
(***************************************************************************)
EXTENDS Integers, Sequences

CONSTANTS
  INIT_POLLS,   \* how often plx9030_reset looks at /INIT: 3300 (and once more)
  DONE_WAIT,    \* PLX905X_DONE_WAIT
  CHUNKS,       \* reads of 8192 bytes until the end of a file
  MaxFaults     \* bound: lost EPP cycles and LBP16 datagrams

ASSUME LoadAssumption ==
  INIT_POLLS \in Nat /\ DONE_WAIT \in Nat /\ CHUNKS \in Nat \ {0} /\ MaxFaults \in Nat

VARIABLES
  routine,   \* the function that runs, or Idle
  at,        \* where in it
  file,      \* bitfile_name: what it is
  fallback,  \* fallback_flag
  left,      \* reads of the file still to do
  count,     \* count, i: the loop counters
  saved,     \* cmd_reg and bar0_reg
  result,    \* what the last function returned, and its arguments
  line,      \* the outputs of bridge or CPLD: PROGRAM, WRITE and their enabling
  timeout,   \* the timeout bit of the EPP port
  cfg,       \* PCI_COMMAND and BAR0 of the card: as set up, or lost
  fpga,      \* its state and what it runs; the chunks it took; the file they are of
  icap,      \* the register that the next word goes to; the start address
  broken,    \* what is wrong with the FPGA: "init", "done" or "nothing"
  old,       \* firmware too old to reload
  faults     \* bound

codeVars == <<routine, at, file, fallback, left, count, saved, result>>
boardVars == <<line, timeout, cfg, fpga, icap>>
loadVars == <<codeVars, boardVars, broken, old, faults>>

Idle == "idle"
Nothing == "nothing"
EIO == 5
Files == {"good", "bad", "missing"}   \* "bad" fails its CRC; "missing" has no header

Programs == {"plx9030_program_fpga", "plx905x_program_fpga", "epp_program_fpga"}
Resets == {"plx9030_reset", "plx905x_reset", "epp_reset", "lbp16_board_reset"}
Reloads == {"pci_board_reload", "pci_efx_board_reload", "spi_board_reload",
            "lbp16_board_reload"}

-----------------------------------------------------------------------------
(* The FPGA *)

Cleared == [state |-> "held", runs |-> Nothing, took |-> 0, of |-> Nothing]

INIT == fpga.state \in {"ready", "running", "startup"}
DONE == fpga.state = "running" \/ broken = "done"

Held == line.enabled /\ line.PROGRAM = 0

\* PROGRAM and its enabling go to new.
Drive(new) ==
  /\ line' = new
  /\ fpga' = CASE new.enabled /\ new.PROGRAM = 0 -> Cleared
               [] Held /\ new.PROGRAM = 1 -> [Cleared EXCEPT !.state = "clearing"]
               [] OTHER -> fpga

\* A chunk of the file arrives: a running FPGA and one in reset ignore it.
Takes(f) ==
  fpga' = IF fpga.state # "ready" \/ line.WRITE = 1 THEN fpga
          ELSE LET of == IF fpga.took = 0 \/ fpga.of = f THEN f ELSE "bad"
               IN [fpga EXCEPT !.took = @ + 1, !.of = of,
                               !.state = IF fpga.took + 1 < CHUNKS THEN "ready"
                                         ELSE IF of = "good" THEN "startup" ELSE "crc"]

FpgaClears ==
  /\ fpga.state = "clearing" /\ broken # "init"
  /\ fpga' = [fpga EXCEPT !.state = "ready"]
  /\ UNCHANGED <<codeVars, line, timeout, cfg, icap, broken, old, faults>>

FpgaStarts ==
  /\ fpga.state = "startup"
  /\ fpga' = [fpga EXCEPT !.state = "running", !.runs = fpga.of]
  /\ UNCHANGED <<codeVars, line, timeout, cfg, icap, broken, old, faults>>

\* It boots from its flash: a PCI card loses its configuration.
PciReloads == {"pci_board_reload", "pci_efx_board_reload"}

Boots(area) ==
  /\ fpga' = [fpga EXCEPT !.runs = area]
  /\ cfg' = IF routine \in PciReloads THEN "lost" ELSE cfg
  /\ icap' = [next |-> Nothing, start |-> Nothing]

\* A word for ICAP: a value for the register that the last word named, or such
\* a name; the value IPROG boots.
IcapTakes(w) ==
  \/ /\ icap.next = "command" /\ w = "IPROG"
     /\ Boots(icap.start)
  \/ /\ icap.next = "high"
     /\ icap' = [next |-> Nothing, start |-> w]
     /\ UNCHANGED <<fpga, cfg>>
  \/ /\ icap.next = "low" \/ (icap.next = "command" /\ w # "IPROG")
     /\ icap' = [icap EXCEPT !.next = Nothing]
     /\ UNCHANGED <<fpga, cfg>>
  \/ /\ icap.next = Nothing
     /\ icap' = [icap EXCEPT !.next = IF w \in {"low", "high", "command"} THEN w ELSE Nothing]
     /\ UNCHANGED <<fpga, cfg>>

Area == IF fallback THEN "fallback" ELSE "user"

-----------------------------------------------------------------------------
(* What all functions share *)

InRoutine(r, where) == routine = r /\ at = where

Goto(where) == at' = where /\ UNCHANGED <<routine, file, fallback, result>>

NoResult == [of |-> Idle, file |-> Nothing, area |-> Nothing, ret |-> 0]

Return(v) ==
  /\ result' = [of |-> routine, file |-> file, area |-> Area, ret |-> v]
  /\ routine' = Idle /\ at' = Idle
  /\ UNCHANGED <<file, fallback>>

\* llio.reset, llio.program_fpga or llio.reload is called.
CallRoutine(r, f, fb) ==
  /\ routine' = r /\ at' = "begin" /\ file' = f /\ fallback' = fb
  /\ left' = CHUNKS /\ count' = 0 /\ saved' = Nothing
  /\ result' = NoResult

\* stat, fopen and print_bitfile_header, then the first access.
OpenFile(next) ==
  /\ at = "begin"
  /\ IF file = "missing" THEN Return(-1) ELSE Goto(next)
  /\ UNCHANGED <<left, count, saved, boardVars>>

SendChunk(next) ==
  /\ at = "send"
  /\ IF left > 0
       THEN Takes(file) /\ left' = left - 1 /\ UNCHANGED <<routine, at, file, fallback, result>>
       ELSE Goto(next) /\ UNCHANGED <<left, fpga>>
  /\ UNCHANGED <<count, saved, line, timeout, cfg, icap>>

\* A write of the control register, and on to the next access.
Control(where, new, next) ==
  /\ at = where
  /\ Drive(new)
  /\ Goto(next)
  /\ UNCHANGED <<left, count, saved, timeout, cfg, icap>>

\* A write of the control register that is a function's last access.
ControlAndReturn(where, new, v) ==
  /\ at = where
  /\ Drive(new)
  /\ Return(v)
  /\ UNCHANGED <<left, count, saved, timeout, cfg, icap>>

\* A look at the state of the FPGA.
Look(where, next) ==
  /\ at = where
  /\ next
  /\ UNCHANGED <<left, saved, boardVars>>

-----------------------------------------------------------------------------
(* PLX9030 *)


\* do ... while (count-- > 0): a counter that runs out is left at -1, and the
\* test that follows is for 0.
PollInit ==
  \/ INIT /\ count > 0 /\ Return(0) /\ UNCHANGED count
  \/ INIT /\ count = 0 /\ Return(-EIO) /\ UNCHANGED count
  \/ ~INIT /\ count > 0 /\ Goto("poll") /\ count' = count - 1
  \/ ~INIT /\ count = 0 /\ Return(0) /\ count' = -1

Plx9030Reset ==
  /\ routine = "plx9030_reset"
  /\ \/ Control("begin", [line EXCEPT !.PROGRAM = 0, !.WRITE = 1], "check")
     \/ Look("check", /\ IF DONE \/ INIT THEN Return(-EIO) ELSE Goto("high")
                      /\ count' = INIT_POLLS)
     \/ Control("high", [line EXCEPT !.PROGRAM = 1], "poll")
     \/ Look("poll", PollInit)

FailKeepsWrite == [line EXCEPT !.PROGRAM = 0]   \* a slip: /WRITE is left low
Fail == [line EXCEPT !.PROGRAM = 0, !.WRITE = 1]

Plx9030Program ==
  /\ routine = "plx9030_program_fpga"
  /\ \/ OpenFile("write")
     \/ Control("write", [line EXCEPT !.WRITE = 0], "send")
     \/ SendChunk("check")
     \/ Look("check", Goto(IF INIT /\ DONE THEN "done" ELSE "fail") /\ UNCHANGED count)
     \/ ControlAndReturn("done", [line EXCEPT !.WRITE = 1], 0)
     \/ ControlAndReturn("fail", Fail, -EIO)

-----------------------------------------------------------------------------
(* PLX9054, PLX9056 *)

\* 3300 reads of the register, or 2 ms: enough for the FPGA to be cleared,
\* unless it is broken.
Delay(next) == Look("delay", fpga.state # "clearing" \/ broken = "init") /\ next

Plx905xReset ==
  /\ routine = "plx905x_reset"
  /\ \/ Control("begin", [line EXCEPT !.enabled = TRUE], "low")
     \/ Control("low", [line EXCEPT !.PROGRAM = 0], "check")
     \/ Look("check", (IF DONE THEN Return(-EIO) ELSE Goto("high")) /\ UNCHANGED count)
     \/ Control("high", [line EXCEPT !.PROGRAM = 1], "delay")
     \/ Delay(Return(0)) /\ UNCHANGED count

PollDoneAbove ==   \* a slip: i > DONE_WAIT, which i never gets
  IF DONE THEN Return(0) ELSE IF count + 1 < DONE_WAIT THEN Goto("poll") ELSE Return(0)
PollDone ==
  IF DONE THEN Return(0) ELSE IF count + 1 < DONE_WAIT THEN Goto("poll") ELSE Return(-EIO)

Plx905xProgram ==
  /\ routine = "plx905x_program_fpga"
  /\ \/ OpenFile("send")
     \/ SendChunk("poll")
     \/ Look("poll", PollDone /\ count' = count + 1)

-----------------------------------------------------------------------------
(* EPP: while the FPGA runs it has the port, else the CPLD *)

EppReset ==
  /\ routine = "epp_reset"
  /\ \/ /\ at = "begin"     \* to HostMot2 at 0x7F7F: reset yourself
        /\ fpga' = IF fpga.state = "running" THEN [Cleared EXCEPT !.state = "clearing"] ELSE fpga
        /\ Goto("low")
        /\ UNCHANGED <<left, count, saved, line, timeout, cfg, icap>>
     \/ Control("low", [line EXCEPT !.PROGRAM = 0], "high")
     \/ Control("high", [line EXCEPT !.PROGRAM = 1], "delay")
     \/ Delay(Goto("check")) /\ UNCHANGED count
     \/ Look("check", Return(IF DONE THEN -EIO ELSE 0) /\ UNCHANGED count)

EppProgram ==
  /\ routine = "epp_program_fpga"
  /\ \/ OpenFile("send")
     \/ SendChunk("check")
     \/ Look("check", Return(IF timeout THEN -EIO ELSE 0) /\ UNCHANGED count)

EppCycleLost ==   \* the chunk is not what was sent
  /\ InRoutine("epp_program_fpga", "send") /\ left > 0
  /\ faults < MaxFaults /\ faults' = faults + 1
  /\ left' = left - 1
  /\ timeout' = TRUE
  /\ UNCHANGED <<routine, at, file, fallback, count, saved, result, line, cfg, fpga, icap,
                 broken, old>>

-----------------------------------------------------------------------------
(* Reloading *)

StartOf(fb) == IF fb THEN "fallback" ELSE "user"   \* the high word of boot_addr

IcapWordsEarly ==   \* a slip: the command before the address
  <<"dummy", "dummy", "sync", "sync", "command", "IPROG", "low", "0", "high", StartOf(fallback)>>
IcapWords ==
  <<"dummy", "dummy", "sync", "sync", "low", "0", "high", StartOf(fallback),
    "command", "IPROG", "NOP", "NOP", "NOP", "NOP">>

\* The registers of a PCI card that lost its BAR0 read as ones and take nothing.
Reached == cfg = "set" \/ routine \notin PciReloads

CheckCookie(next) ==
  Look("begin", (IF old \/ ~Reached THEN Return(-1) ELSE Goto(next)) /\ UNCHANGED count)

SaveConfig(next) ==
  /\ at = "save"
  /\ saved' = cfg
  /\ Goto(next)
  /\ UNCHANGED <<left, count, boardVars>>

\* HM2_ICAP_REG is written with one word after another.
WriteIcap(words, next) ==
  /\ at = "words"
  /\ IF count < Len(words)
       THEN /\ IF Reached THEN IcapTakes(words[count + 1]) ELSE UNCHANGED <<cfg, fpga, icap>>
            /\ count' = count + 1
            /\ UNCHANGED <<routine, at, file, fallback, result>>
       ELSE next /\ UNCHANGED <<count, cfg, fpga, icap>>
  /\ UNCHANGED <<left, saved, line, timeout>>

RestoreConfigNot == cfg   \* a slip: the card is left as it comes up
RestoreConfig == saved

ConfigBack ==
  /\ at = "restore"
  /\ cfg' = RestoreConfig
  /\ Return(0)
  /\ UNCHANGED <<left, count, saved, line, timeout, fpga, icap>>

PciReload ==
  /\ routine = "pci_board_reload"
  /\ CheckCookie("save") \/ SaveConfig("words") \/ WriteIcap(IcapWords, Goto("restore"))
       \/ ConfigBack

\* Two writes of the Efinix register: image and enable, and start.
PciEfxReload ==
  /\ routine = "pci_efx_board_reload"
  /\ \/ Look("begin", Goto("save") /\ UNCHANGED count)
     \/ SaveConfig("select")
     \/ /\ at = "select"
        /\ icap' = IF Reached THEN [icap EXCEPT !.start = StartOf(fallback)] ELSE icap
        /\ Goto("start")
        /\ UNCHANGED <<left, count, saved, line, timeout, cfg, fpga>>
     \/ /\ at = "start"
        /\ IF Reached THEN Boots(icap.start) ELSE UNCHANGED <<fpga, cfg, icap>>
        /\ Goto("restore")
        /\ UNCHANGED <<left, count, saved, line, timeout>>
     \/ ConfigBack

SpiReload ==
  /\ routine = "spi_board_reload"
  /\ CheckCookie("words") \/ WriteIcap(IcapWords, Return(0))

\* The version of the firmware is asked for, and its answer waited for, which may
\* never come.  Then all packets in one datagram, which may be lost; nothing
\* comes back.
Lbp16Reload ==
  /\ routine = "lbp16_board_reload"
  /\ \/ Look("begin", Goto("version") /\ UNCHANGED count)
     \/ Look("version", (IF old THEN Return(-1) ELSE Goto("send")) /\ UNCHANGED count)
     \/ /\ at = "send"
        /\ Boots(StartOf(fallback))
        /\ Return(0)
        /\ UNCHANGED <<left, count, saved, line, timeout>>

Lbp16Reset == Look("begin", routine = "lbp16_board_reset" /\ Return(0) /\ UNCHANGED count)

DatagramLost ==
  /\ InRoutine("lbp16_board_reload", "send")
  /\ faults < MaxFaults /\ faults' = faults + 1
  /\ Return(0)
  /\ UNCHANGED <<left, count, saved, boardVars, broken, old>>

-----------------------------------------------------------------------------

LoadInit ==
  /\ routine = Idle /\ at = Idle /\ file = Nothing /\ fallback = FALSE
  /\ left = 0 /\ count = 0 /\ saved = Nothing
  /\ result = NoResult
  /\ timeout = FALSE /\ cfg = "set"
  /\ icap = [next |-> Nothing, start |-> Nothing]
  /\ faults = 0

RoutineStep ==
  /\ \/ Plx9030Reset \/ Plx9030Program \/ Plx905xReset \/ Plx905xProgram
     \/ EppReset \/ EppProgram
     \/ PciReload \/ PciEfxReload \/ SpiReload \/ Lbp16Reload \/ Lbp16Reset
  /\ UNCHANGED <<broken, old, faults>>

FpgaStep == FpgaClears \/ FpgaStarts

FaultStep == EppCycleLost \/ DatagramLost

-----------------------------------------------------------------------------
(* Properties *)

LoadTypeOK ==
  /\ routine \in Programs \cup Resets \cup Reloads \cup {Idle}
  /\ file \in Files \cup {Nothing} /\ fallback \in BOOLEAN
  /\ left \in 0 .. CHUNKS /\ count \in Int
  /\ saved \in {"set", "lost", Nothing} /\ cfg \in {"set", "lost"}
  /\ result.ret \in {0, -1, -EIO}
  /\ line \in [PROGRAM : 0 .. 1, WRITE : 0 .. 1, enabled : BOOLEAN]
  /\ timeout \in BOOLEAN /\ old \in BOOLEAN
  /\ broken \in {"init", "done", Nothing}
  /\ fpga \in [state : {"held", "clearing", "ready", "startup", "running", "crc"},
               runs : {"good", "user", "fallback", Nothing}, took : 0 .. CHUNKS,
               of : Files \cup {Nothing}]
  /\ faults \in 0 .. MaxFaults
=============================================================================
