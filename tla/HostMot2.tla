------------------------------ MODULE HostMot2 ------------------------------
(***************************************************************************)
(* The I/O pins of a HostMot2 card, and the functions that switch them:    *)
(* each port has a register of directions (DDR) and one that gives its     *)
(* pins to their secondary functions (ALT_SOURCE), here sets of the pins   *)
(* of the port whose bit is set.                                           *)
(*                                                                         *)
(* External: the card.  ALT_SOURCE cannot be read: a Xilinx card answers   *)
(* with ones, an Efinix card with zeros (the comment at hostmot2.c:62).    *)
(***************************************************************************)
EXTENDS Integers, Sequences, FiniteSets

CONSTANTS
  io_ports, port_width,   \* of the IDROM
  io_width,               \* its third number: the pins of all ports (hostmot2.c:765)
  word,                   \* bits of a register
  pins,                   \* its pin descriptors: sec_tag, and sec_pin & 0x80
  AltReads                \* what a read of ALT_SOURCE gives: "ones" or "zeros"

ASSUME PinsAssumption ==
  /\ io_ports \in Nat \ {0} /\ port_width \in Nat \ {0}
  /\ pins \in Seq([sec_tag : STRING, output : BOOLEAN])
  /\ Len(pins) = io_ports * port_width
  /\ io_width \in Nat \ {0} /\ word \in Nat \ {0}
  /\ AltReads \in {"ones", "zeros"}

VARIABLES
  ddr, alt,    \* the registers of each port
  firmware,    \* HostMot2 answers with its cookie
  hm2,         \* the IDROM has been read
  pc,          \* what the process does next
  pin          \* its loop over ports or pins

pinVars == <<ddr, alt, firmware, hm2, pc, pin>>

Ports == 0 .. io_ports - 1
Bits == 0 .. port_width - 1
PortOf(p) == p \div port_width
BitOf(p) == p % port_width
Pin(p) == pins[p + 1]          \* pins are counted from 0
NumPins == io_ports * port_width

\* hm2_find_module: the modules are those of the IDROM, or all zero.
found_module == hm2

Goto(where) == pc' = where /\ UNCHANGED <<firmware, hm2>>

\* A write to the register of a port; the ports that the card does not have
\* take nothing.
Write(register, port, value) ==
  IF port \in Ports THEN [register EXCEPT ![port] = value] ELSE register

read_idrom(next) ==
  /\ pc = "idrom"
  /\ hm2' = firmware
  /\ pc' = next /\ pin' = 0
  /\ UNCHANGED <<ddr, alt, firmware>>

\* md->base_address of a module that was not found.
NoModule(where) ==
  /\ pc = where /\ ~found_module
  /\ Goto("killed")
  /\ UNCHANGED <<ddr, alt, pin>>

AltRead(port) == IF AltReads = "ones" THEN Bits ELSE {}

\* 1 << n of an int: undefined from its width on, where one processor counts the
\* bits around and another shifts the 1 out.
OneShifted(n) == IF n < word THEN {{n}} ELSE {{n % word}, {}}

\* Port and bit are counted with io_width, where set_pin_direction takes
\* port_width.
set_pin_source(p) ==
  IF p < io_ports * io_width
    THEN LET port == p \div io_width
         IN \E one \in OneShifted(p % io_width) :
              alt' = Write(alt, port, (AltRead(port) \cup one) \cap Bits)
    ELSE UNCHANGED alt
set_pin_direction(p) == ddr' = Write(ddr, PortOf(p), ddr[PortOf(p)] \cup {BitOf(p)})

-----------------------------------------------------------------------------
(* hm2_enable_all_module_outputs *)

EnableAlt ==
  /\ pc = "enable alt" /\ found_module
  /\ IF pin < io_ports
       THEN alt' = Write(alt, pin, Bits) /\ pin' = pin + 1 /\ Goto(pc)
       ELSE pin' = 0 /\ Goto("enable pins") /\ UNCHANGED alt
  /\ UNCHANGED ddr

DrivesAll(p) == TRUE            \* a slip: sec_pin & 0x80 is not looked at
Drives(p) == Pin(p).output

EnablePins ==
  /\ pc = "enable pins"
  /\ IF pin < NumPins
       THEN /\ IF Drives(pin) THEN set_pin_direction(pin) ELSE UNCHANGED ddr
            /\ pin' = pin + 1 /\ Goto(pc)
       ELSE Goto("done") /\ UNCHANGED <<ddr, pin>>
  /\ UNCHANGED alt

EnableAll == NoModule("enable alt") \/ EnableAlt \/ EnablePins

-----------------------------------------------------------------------------
(* hm2_safe_io *)

SafeDdrNot(port) == ddr[port]   \* a slip: only ALT_SOURCE is written
SafeDdr(port) == {}

SafePort ==
  /\ pc = "safe" /\ found_module
  /\ IF pin < io_ports
       THEN /\ alt' = Write(alt, pin, {})
            /\ ddr' = Write(ddr, pin, SafeDdr(pin))
            /\ pin' = pin + 1 /\ Goto(pc)
       ELSE Goto("done") /\ UNCHANGED <<alt, ddr, pin>>

SafeIo == NoModule("safe") \/ SafePort

-----------------------------------------------------------------------------
(* enable_encoder_pins, until the first pin without a descriptor *)

EncoderPin ==
  /\ pc = "encoder pins" /\ found_module
  /\ IF pin < NumPins
       THEN /\ IF Pin(pin).sec_tag = "MUXED_ENCODER_SEL"
                 THEN /\ set_pin_source(pin)
                      /\ IF Drives(pin) THEN set_pin_direction(pin) ELSE UNCHANGED ddr
                 ELSE UNCHANGED <<alt, ddr>>
            /\ pin' = pin + 1 /\ Goto(pc)
       ELSE Goto("encoder") /\ UNCHANGED <<alt, ddr, pin>>

\* encoder_init returns -1 without the module.
EncoderRefused ==
  /\ pc = "encoder pins" /\ ~found_module
  /\ Goto("done")
  /\ UNCHANGED <<ddr, alt, pin>>

EncoderPins == EncoderPin \/ EncoderRefused

-----------------------------------------------------------------------------
(* enable_sserial_pins, disable_sserial_pins: the first two ports, all pins *)

SserialBits(port, outputsOnly) ==
  {b \in Bits : LET p == port * port_width + b
                IN /\ p < NumPins
                   /\ Pin(p).sec_tag = "SSERIAL"
                   /\ outputsOnly => Drives(p)}

SserialPins(where, next, ddrBits, altBits) ==
  /\ pc = where /\ found_module
  /\ IF pin < 2
       THEN /\ ddr' = Write(ddr, pin, ddrBits)
            /\ alt' = Write(alt, pin, altBits)
            /\ pin' = pin + 1 /\ Goto(pc)
       ELSE pin' = 0 /\ Goto(next) /\ UNCHANGED <<ddr, alt>>

enable_sserial_pins(next) ==
  SserialPins("sserial pins", next, SserialBits(pin, TRUE), SserialBits(pin, FALSE))
disable_sserial_pins == SserialPins("sserial off", "done", {}, {})

-----------------------------------------------------------------------------

PinsTypeOK ==
  /\ ddr \in [Ports -> SUBSET Bits] /\ alt \in [Ports -> SUBSET Bits]
  /\ firmware \in BOOLEAN /\ hm2 \in BOOLEAN
  /\ pin \in 0 .. NumPins \cup {2}

Outputs(port) == {b \in Bits : Pin(port * port_width + b).output}
=============================================================================
