-------------------------- MODULE CardJobsProofs --------------------------
(***************************************************************************)
(* What TLAPS proves of CardJobs, for every card: its safety.  No job      *)
(* drives a pin that is no output of its module, each leaves the pins as   *)
(* it promises, encoder_read follows the shaft, and the catalogue of the   *)
(* smart serial remotes is complete.  The invariants say where the process *)
(* is with each command on its way, and what it has already passed.        *)
(***************************************************************************)
EXTENDS CardJobs, EncoderProofs

\* The number of a pin is that of its port and its bit.
LEMMA PinOfPortAndBit ==
  ASSUME NEW p \in Nat, p < NumPins
  PROVE  /\ PortOf(p) \in Ports /\ BitOf(p) \in Bits
         /\ PortOf(p) * port_width + BitOf(p) = p
<1> DEFINE q == p \div port_width
           r == p % port_width
<1>1. port_width \in Nat \ {0} /\ io_ports \in Nat \ {0}
  BY PinsAssumption
<1>2. p = port_width * q + r /\ r \in 0 .. port_width - 1 /\ q \in Int
  BY <1>1
<1> HIDE DEF q, r
<1>3. p < io_ports * port_width
  BY DEF NumPins
<1>4. q < io_ports
  <2> SUFFICES ASSUME q >= io_ports PROVE FALSE
    BY <1>1, <1>2
  <2>1. port_width * q >= port_width * io_ports
    BY <1>1, <1>2
  <2> QED BY <2>1, <1>1, <1>2, <1>3
<1>5. q >= 0
  <2> SUFFICES ASSUME q <= -1 PROVE FALSE
    BY <1>1, <1>2
  <2>1. port_width * q <= port_width * (-1)
    BY <1>1, <1>2
  <2> QED BY <2>1, <1>1, <1>2
<1>6. q \in 0 .. io_ports - 1 /\ r \in 0 .. port_width - 1 /\ q * port_width + r = p
  BY <1>1, <1>2, <1>4, <1>5
<1> QED BY <1>6 DEF q, r, PortOf, BitOf, Ports, Bits

LEMMA PortAndBitOfPin ==
  ASSUME NEW p \in Ports, NEW b \in Bits
  PROVE  PortOf(p * port_width + b) = p /\ BitOf(p * port_width + b) = b
<1> DEFINE n == p * port_width + b
           q == n \div port_width
           r == n % port_width
<1>1. port_width \in Nat \ {0} /\ p \in Nat /\ b \in Nat /\ b < port_width
  BY PinsAssumption DEF Ports, Bits
<1>2. n \in Nat
  BY <1>1
<1>3. n = port_width * q + r /\ r \in 0 .. port_width - 1 /\ q \in Int
  BY <1>1, <1>2
<1>4. port_width * (p - q) = r - b
  <2> HIDE DEF q, r
  <2> QED BY <1>1, <1>3
<1>5. p = q
  <2> HIDE DEF n, q, r
  <2>1. r - b < port_width /\ r - b > -port_width
    BY <1>1, <1>3
  <2>2. CASE p - q >= 1
    <3>1. port_width * (p - q) >= port_width * 1
      BY <1>1, <1>3, <2>2
    <3> QED BY <1>1, <1>3, <1>4, <2>1, <3>1
  <2>3. CASE p - q <= -1
    <3>1. port_width * (p - q) <= port_width * (-1)
      BY <1>1, <1>3, <2>3
    <3> QED BY <1>1, <1>3, <1>4, <2>1, <3>1
  <2> QED BY <1>1, <1>3, <2>2, <2>3
<1>6. b = r
  <2> HIDE DEF n, q, r
  <2> QED BY <1>1, <1>3, <1>4, <1>5
<1> QED BY <1>5, <1>6 DEF PortOf, BitOf

-----------------------------------------------------------------------------
(* The directions *)

DdrTypeOK == ddr \in [Ports -> SUBSET Bits]

DdrInv ==
  /\ DdrTypeOK
  /\ pin \in Nat
  /\ OnlyOutputsDriven

\* A port may be given directions of which each is an output.
LEMMA WriteOutputs ==
  ASSUME DdrInv, NEW port, NEW value, value \subseteq Bits,
         port \in Ports => value \subseteq Outputs(port),
         ddr' = Write(ddr, port, value)
  PROVE  DdrTypeOK' /\ OnlyOutputsDriven'
BY DEF DdrInv, DdrTypeOK, OnlyOutputsDriven, Write, Ports, Bits

LEMMA DirectOutput ==
  ASSUME DdrInv, NEW p \in Nat, p < NumPins, Drives(p), set_pin_direction(p)
  PROVE  DdrTypeOK' /\ OnlyOutputsDriven'
<1>1. PortOf(p) \in Ports /\ BitOf(p) \in Bits /\ PortOf(p) * port_width + BitOf(p) = p
  BY PinOfPortAndBit
<1>2. BitOf(p) \in Outputs(PortOf(p))
  BY <1>1 DEF Outputs, Drives
<1>3. ddr[PortOf(p)] \cup {BitOf(p)} \subseteq Outputs(PortOf(p))
  BY <1>1, <1>2 DEF DdrInv, OnlyOutputsDriven
<1>4. ddr[PortOf(p)] \cup {BitOf(p)} \subseteq Bits
  BY <1>1 DEF DdrInv, DdrTypeOK
<1> QED BY <1>3, <1>4, WriteOutputs DEF set_pin_direction

\* The invariant, when the directions are settled and the loop goes on.
LEMMA NextPin ==
  ASSUME DdrInv, pin' = pin + 1 \/ pin' = pin \/ pin' = 0
  PROVE  pin' \in Nat
<1>1. pin \in Nat
  BY DEF DdrInv
<1> QED BY <1>1

LEMMA DdrUnchanged ==
  ASSUME DdrInv, UNCHANGED ddr, pin' = pin + 1 \/ pin' = pin \/ pin' = 0
  PROVE  DdrInv'
<1>1. DdrTypeOK'
  BY DEF DdrInv, DdrTypeOK
<1>2. OnlyOutputsDriven'
  BY DEF DdrInv, OnlyOutputsDriven
<1> QED BY <1>1, <1>2, NextPin DEF DdrInv

LEMMA EnableAllDdr ==
  ASSUME DdrInv, EnableAll
  PROVE  DdrInv'
<1>1. CASE NoModule("enable alt")
  BY <1>1, DdrUnchanged DEF NoModule
<1>2. CASE EnableAlt
  BY <1>2, DdrUnchanged DEF EnableAlt
<1>3. CASE EnablePins /\ pin < NumPins /\ Drives(pin)
  <2>1. pin \in Nat /\ set_pin_direction(pin) /\ pin' = pin + 1
    BY <1>3 DEF EnablePins, DdrInv
  <2> QED BY <1>3, <2>1, DirectOutput, NextPin DEF DdrInv
<1>4. CASE EnablePins /\ ~(pin < NumPins /\ Drives(pin))
  BY <1>4, DdrUnchanged DEF EnablePins
<1> QED BY <1>1, <1>2, <1>3, <1>4 DEF EnableAll

LEMMA SafeIoDdr ==
  ASSUME DdrInv, SafeIo
  PROVE  DdrInv'
<1>1. CASE NoModule("safe")
  BY <1>1, DdrUnchanged DEF NoModule
<1>2. CASE SafePort /\ pin < io_ports
  <2>1. ddr' = Write(ddr, pin, {}) /\ pin' = pin + 1
    BY <1>2 DEF SafePort, SafeDdr
  <2> QED BY <2>1, WriteOutputs, NextPin DEF DdrInv
<1>3. CASE SafePort /\ ~(pin < io_ports)
  BY <1>3, DdrUnchanged DEF SafePort
<1> QED BY <1>1, <1>2, <1>3 DEF SafeIo

LEMMA EncoderPinsDdr ==
  ASSUME DdrInv, EncoderPins
  PROVE  DdrInv'
<1>1. CASE EncoderRefused
  BY <1>1, DdrUnchanged DEF EncoderRefused
<1>2. CASE EncoderPin /\ UNCHANGED ddr
  BY <1>2, DdrUnchanged DEF EncoderPin
<1>3. CASE EncoderPin /\ ~UNCHANGED ddr
  <2>1. pin \in Nat /\ pin < NumPins /\ Drives(pin) /\ set_pin_direction(pin) /\ pin' = pin + 1
    BY <1>3 DEF EncoderPin, DdrInv
  <2> QED BY <2>1, DirectOutput, NextPin DEF DdrInv
<1> QED BY <1>1, <1>2, <1>3 DEF EncoderPins

\* The pins of the smart serial module of a port of which each is an output.
LEMMA SserialOutputs ==
  ASSUME NEW port \in Ports
  PROVE  SserialBits(port, TRUE) \subseteq Outputs(port)
BY DEF SserialBits, Outputs, Drives

LEMMA SserialPinsDdr ==
  ASSUME DdrInv, enable_sserial_pins("assert reset") \/ disable_sserial_pins
  PROVE  DdrInv'
<1>1. SserialBits(pin, TRUE) \subseteq Bits
  BY DEF SserialBits
<1>2. CASE ddr' = Write(ddr, pin, SserialBits(pin, TRUE)) /\ pin' = pin + 1
  <2>1. pin \in Ports => SserialBits(pin, TRUE) \subseteq Outputs(pin)
    BY SserialOutputs
  <2>2. DdrTypeOK' /\ OnlyOutputsDriven'
    BY <1>1, <1>2, <2>1, WriteOutputs
  <2> QED BY <1>2, <2>2, NextPin DEF DdrInv
<1>3. CASE ddr' = Write(ddr, pin, {}) /\ pin' = pin + 1
  <2> DEFINE none == {}
  <2>1. none \subseteq Bits /\ (pin \in Ports => none \subseteq Outputs(pin))
    OBVIOUS
  <2>3. ddr' = Write(ddr, pin, none)
    BY <1>3
  <2> HIDE DEF none
  <2>2. DdrTypeOK' /\ OnlyOutputsDriven'
    BY <2>3, <2>1, WriteOutputs
  <2> QED BY <1>3, <2>2, NextPin DEF DdrInv
<1>4. CASE UNCHANGED ddr /\ pin' = 0
  BY <1>4, DdrUnchanged
<1> QED BY <1>2, <1>3, <1>4 DEF enable_sserial_pins, disable_sserial_pins, SserialPins

LEMMA SserialDdr ==
  ASSUME DdrInv, sserial_module_init
  PROVE  DdrInv'
<1>1. CASE EnablePinsFirst \/ DisablePinsLast
  BY <1>1, SserialPinsDdr DEF EnablePinsFirst, DisablePinsLast
<1>2. CASE ~(EnablePinsFirst \/ DisablePinsLast)
  <2>1. UNCHANGED <<ddr, pin>>
    BY <1>2 DEF sserial_module_init, NoSserial, AssertReset, Locals, FirstChannel, Channel,
       IsThere, AskEntry, GotEntry, GotRecord, ReadNv, GotNv, GotValue, AdvanceEntry, Mode,
       SetMode, ModeIsSet, Stray, sslbp_wait_complete, Ask, Send, NoCommand, ReadsNv,
       ReadsRevision, CountsMode, NameTooLong, PassesOver, ToNextEntry
  <2> QED BY <2>1, DdrUnchanged
<1> QED BY <1>1, <1>2

LEMMA InitDdr == Init => DdrInv
<1> SUFFICES ASSUME Init PROVE DdrInv
  OBVIOUS
<1>1. \A p \in Ports : Outputs(p) \subseteq Bits
  BY DEF Outputs
<1> QED BY <1>1 DEF Init, DdrInv, DdrTypeOK, OnlyOutputsDriven

LEMMA NextDdr == DdrInv /\ [Next]_vars => DdrInv'
<1> SUFFICES ASSUME DdrInv, [Next]_vars PROVE DdrInv'
  OBVIOUS
<1>1. CASE read_idrom(FirstOf(job))
  BY <1>1, DdrUnchanged DEF read_idrom
<1>2. CASE EnableAll
  BY <1>2, EnableAllDdr
<1>3. CASE SafeIo
  BY <1>3, SafeIoDdr
<1>4. CASE EncoderPins
  BY <1>4, EncoderPinsDdr
<1>5. CASE sserial_module_init
  BY <1>5, SserialDdr
<1>6. CASE Processor
  BY <1>6, DdrUnchanged DEF Processor, Execute, pinVars
<1>7. CASE Encoding
  BY <1>7, DdrUnchanged DEF Encoding, pinVars
<1>8. CASE UNCHANGED vars
  BY <1>8, DdrUnchanged DEF vars, pinVars
<1> QED BY <1>1, <1>2, <1>3, <1>4, <1>5, <1>6, <1>7, <1>8 DEF Next, Process

\* hm2_enable_all_module_outputs, enable_sserial_pins, enable_encoder_pins: no
\* pin of a card is driven whose secondary function is not an output.
THEOREM CardOnlyOutputsDriven == Spec => []OnlyOutputsDriven
<1>1. DdrInv => OnlyOutputsDriven
  BY DEF DdrInv
<1> QED BY <1>1, InitDdr, NextDdr, PTL DEF Spec

-----------------------------------------------------------------------------
(* The encoder *)

\* encoder_read follows the shaft also among the other jobs of the card.
THEOREM CardFollows == Spec => Follows
<1>1. Init => EncoderInit
  BY DEF Init
<1>2. [Next]_vars => [EncoderStep]_encVars
  BY DEF Next, Process, Processor, Encoding, vars
<1>3. Spec => EncoderSpec
  BY <1>1, <1>2, PTL DEF Spec, EncoderSpec
<1> QED BY <1>3, EncoderFollows

-----------------------------------------------------------------------------
(* The handshakes *)

EnablingPins == {"enable alt", "enable pins"}
Entering     == {"sserial pins", "assert reset", "release reset", "read local"}
Between      == {"channels", "channel", "is there", "sserial off"}
ReadingList  == {"entry", "got entry", "got record", "read nv", "got nv", "got value",
                 "next entry"}
Switching    == {"mode", "set mode", "mode is set", "stray"}

\* What the process goes on with when the processor has executed a command.
Handshakes ==
  {"read local", "channels", "is there", "got entry", "got record", "read nv", "got nv",
   "got value", "next entry", "set mode", "mode is set", "stray"}

Where   == IF pc = "wait" THEN next ELSE pc
Pending == pc = "wait" /\ cmd # None

\* The command that is waited for before a place.
Command(where, ch, e) ==
  CASE where = "read local" -> [do |-> "stopall"]
    [] where = "channels" -> [do |-> "local"]
    [] where = "is there" -> [do |-> "setup", ch |-> ch, again |-> FALSE]
    [] where = "got entry" -> [do |-> "entry", ch |-> ch, at |-> e]
    [] where = "got record" -> [do |-> "record", ch |-> ch, at |-> e]
    [] where = "read nv" -> [do |-> "select", ch |-> ch, nv |-> TRUE]
    [] where \in {"got nv", "got value"} -> [do |-> "value", ch |-> ch]
    [] where = "next entry" -> [do |-> "select", ch |-> ch, nv |-> FALSE]
    [] where = "set mode" -> [do |-> "stop", ch |-> ch]
    [] where = "mode is set" -> [do |-> "setup", ch |-> ch, again |-> TRUE]
    [] where = "stray" -> [do |-> "stray"]

Places(j) ==
  CASE j = "enable all" -> {"idrom", "killed", "done"} \cup EnablingPins
    [] j = "safe" -> {"idrom", "safe", "killed", "done"}
    [] j = "encoder pins" -> {"idrom", "encoder pins", "encoder", "done"}
    [] j = "sserial pins" ->
         {"idrom", "killed", "done"} \cup Entering \cup Between \cup ReadingList \cup Switching

\* A command is on its way only where the process waits for it, and it is the
\* one that belongs there; only the reset is not waited for.
Handshake ==
  /\ job \in Jobs /\ Where \in Places(job)
  /\ pc = "wait" => next \in Handshakes /\ cmd \in {None, Command(next, channel, entry)}
  /\ pc = "release reset" => cmd = [do |-> "reset"]
  /\ pc \notin {"wait", "release reset"} => cmd = None
  /\ Where \in (Entering \cup Between \cup ReadingList \cup Switching) \ {"sserial pins"} => hm2

LEMMA CommandShapes ==
  ASSUME NEW ch, NEW e
  PROVE  /\ Command("read local", ch, e) = [do |-> "stopall"]
         /\ Command("channels", ch, e) = [do |-> "local"]
         /\ Command("is there", ch, e) = [do |-> "setup", ch |-> ch, again |-> FALSE]
         /\ Command("got entry", ch, e) = [do |-> "entry", ch |-> ch, at |-> e]
         /\ Command("got record", ch, e) = [do |-> "record", ch |-> ch, at |-> e]
         /\ Command("read nv", ch, e) = [do |-> "select", ch |-> ch, nv |-> TRUE]
         /\ Command("got nv", ch, e) = [do |-> "value", ch |-> ch]
         /\ Command("got value", ch, e) = [do |-> "value", ch |-> ch]
         /\ Command("next entry", ch, e) = [do |-> "select", ch |-> ch, nv |-> FALSE]
         /\ Command("set mode", ch, e) = [do |-> "stop", ch |-> ch]
         /\ Command("mode is set", ch, e) = [do |-> "setup", ch |-> ch, again |-> TRUE]
         /\ Command("stray", ch, e) = [do |-> "stray"]
BY DEF Command

\* What the processor does with the command of each place.
Effect ==
  /\ next = "read local" => setup' = {} /\ nv' = nv
  /\ next \in {"channels", "stray"} => UNCHANGED <<setup, nv>>
  /\ next = "is there" =>
       /\ nv' = nv
       /\ channel \in DOMAIN Remotes => answer' = "zero" /\ setup' = setup \cup {channel}
       /\ channel \notin DOMAIN Remotes => answer' = "error" /\ setup' = setup
  /\ next = "mode is set" =>
       /\ nv' = nv
       /\ setup' = setup \/ (channel \in DOMAIN Remotes /\ setup' = setup \cup {channel})
  /\ next = "got entry" => answer' = ListEntry(channel, entry) /\ UNCHANGED <<setup, nv>>
  /\ next = "got record" => answer' = Remotes[channel][entry] /\ UNCHANGED <<setup, nv>>
  /\ next \in {"got nv", "got value"} => answer' = Memory(channel) /\ UNCHANGED <<setup, nv>>
  /\ next = "read nv" => nv' = nv \cup {channel} /\ setup' = setup
  /\ next = "next entry" => nv' = nv \ {channel} /\ setup' = setup
  /\ next = "set mode" => setup' = setup \ {channel} /\ nv' = nv

LEMMA Executed ==
  ASSUME Handshake, Execute
  PROVE  /\ pc = "wait" /\ next \in Handshakes /\ cmd' = None /\ cmd # None
         /\ UNCHANGED <<pinVars, next, channel, entry, modes, stray, verbose, found>>
         /\ Effect
<1>1. cmd # None /\ cmd # [do |-> "reset"]
  <2>1. cmd.do \notin {"none", "reset"}
    BY DEF Execute, IsSetUp, IsStopped, IsSelected, IsReadOut
  <2> QED BY <2>1 DEF None
<1>2. pc = "wait" /\ next \in Handshakes /\ cmd = Command(next, channel, entry)
  BY <1>1 DEF Handshake
<1>3. cmd' = None /\ UNCHANGED <<pinVars, next, channel, entry, modes, stray, verbose, found>>
  BY DEF Execute
<1>14. SUFFICES Effect
  BY <1>1, <1>2, <1>3
<1> USE DEF IsSetUp, IsStopped, IsSelected, IsReadOut, Execute
<1>4. CASE next = "read local"
  <2>1. cmd = [do |-> "stopall"]
    BY <1>2, <1>4 DEF Command
  <2>2. cmd.do = "stopall"
    BY <2>1
  <2>3. setup' = {} /\ nv' = nv
    BY <2>2
  <2> QED BY <1>4, <2>3 DEF Effect
<1>5. CASE next \in {"channels", "stray"}
  <2>1. cmd = [do |-> "local"] \/ cmd = [do |-> "stray"]
    BY <1>2, <1>5 DEF Command
  <2>2. cmd.do \in {"local", "stray"}
    BY <2>1
  <2>3. UNCHANGED <<setup, nv>>
    BY <2>2
  <2> QED BY <1>5, <2>3 DEF Effect
<1>6. CASE next = "is there"
  <2>1. cmd = [do |-> "setup", ch |-> channel, again |-> FALSE]
    BY <1>2, <1>6, CommandShapes
  <2>2. cmd.do = "setup" /\ cmd.ch = channel /\ ~cmd.again
    BY <2>1
  <2>3. /\ nv' = nv
        /\ channel \in DOMAIN Remotes => answer' = "zero" /\ setup' = setup \cup {channel}
        /\ channel \notin DOMAIN Remotes => answer' = "error" /\ setup' = setup
    BY <2>2
  <2> QED BY <1>6, <2>3 DEF Effect
<1>7. CASE next = "mode is set"
  <2>1. cmd = [do |-> "setup", ch |-> channel, again |-> TRUE]
    BY <1>2, <1>7, CommandShapes
  <2>2. cmd.do = "setup" /\ cmd.ch = channel
    BY <2>1
  <2>3. /\ nv' = nv
        /\ setup' = setup \/ (channel \in DOMAIN Remotes /\ setup' = setup \cup {channel})
    BY <2>2
  <2> QED BY <1>7, <2>3 DEF Effect
<1>8. CASE next = "got entry"
  <2>1. cmd = [do |-> "entry", ch |-> channel, at |-> entry]
    BY <1>2, <1>8, CommandShapes
  <2>2. cmd.do = "entry" /\ cmd.ch = channel /\ cmd.at = entry
    BY <2>1
  <2>3. answer' = ListEntry(channel, entry) /\ UNCHANGED <<setup, nv>>
    BY <2>2
  <2> QED BY <1>8, <2>3 DEF Effect
<1>9. CASE next = "got record"
  <2>1. cmd = [do |-> "record", ch |-> channel, at |-> entry]
    BY <1>2, <1>9, CommandShapes
  <2>2. cmd.do = "record" /\ cmd.ch = channel /\ cmd.at = entry
    BY <2>1
  <2>3. answer' = Remotes[channel][entry] /\ UNCHANGED <<setup, nv>>
    BY <2>2
  <2> QED BY <1>9, <2>3 DEF Effect
<1>10. CASE next \in {"got nv", "got value"}
  <2>1. cmd = [do |-> "value", ch |-> channel]
    BY <1>2, <1>10 DEF Command
  <2>2. cmd.do = "value" /\ cmd.ch = channel
    BY <2>1
  <2>3. answer' = Memory(channel) /\ UNCHANGED <<setup, nv>>
    BY <2>2
  <2> QED BY <1>10, <2>3 DEF Effect
<1>11. CASE next = "read nv"
  <2>1. cmd = [do |-> "select", ch |-> channel, nv |-> TRUE]
    BY <1>2, <1>11, CommandShapes
  <2>2. cmd.do = "select" /\ cmd.ch = channel /\ cmd.nv
    BY <2>1
  <2>3. nv' = nv \cup {channel} /\ setup' = setup
    BY <2>2
  <2> QED BY <1>11, <2>3 DEF Effect
<1>12. CASE next = "next entry"
  <2>1. cmd = [do |-> "select", ch |-> channel, nv |-> FALSE]
    BY <1>2, <1>12, CommandShapes
  <2>2. cmd.do = "select" /\ cmd.ch = channel /\ ~cmd.nv
    BY <2>1
  <2>3. nv' = nv \ {channel} /\ setup' = setup
    BY <2>2
  <2> QED BY <1>12, <2>3 DEF Effect
<1>13. CASE next = "set mode"
  <2>1. cmd = [do |-> "stop", ch |-> channel]
    BY <1>2, <1>13, CommandShapes
  <2>2. cmd.do = "stop" /\ cmd.ch = channel
    BY <2>1
  <2>3. setup' = setup \ {channel} /\ nv' = nv
    BY <2>2
  <2> QED BY <1>13, <2>3 DEF Effect
<1> QED BY <1>2, <1>4, <1>5, <1>6, <1>7, <1>8, <1>9, <1>10, <1>11, <1>12, <1>13 DEF Handshakes

LEMMA CommandsAsked ==
  ASSUME NEW where \in Handshakes, NEW ch, NEW e
  PROVE  Command(where, ch, e) # None
<1>1. Command(where, ch, e).do # "none"
  BY DEF Command, Handshakes
<1> QED BY <1>1 DEF None

\* A command is sent from a place where none is on its way.
LEMMA SendCommand ==
  ASSUME Handshake, NEW command, NEW where \in Handshakes, Send(command, where),
         command = Command(where, channel', entry'), job' = job,
         where \in Places(job), hm2
  PROVE  Handshake' /\ Where' = where /\ Pending' /\ pc' = "wait" /\ hm2' = hm2
<1>1. Where' = where /\ pc' = "wait" /\ next' = where /\ hm2' = hm2
  BY DEF Send, Goto, Where
<1>2. cmd' = Command(next', channel', entry') /\ cmd' # None
  BY <1>1, CommandsAsked DEF Send
<1> QED BY <1>1, <1>2 DEF Handshake, Pending

\* A step from one place to another, with no command.
LEMMA GoOn ==
  ASSUME Handshake, NEW where, Goto(where), cmd' = None, job' = job, where \in Places(job),
         where \notin {"wait", "release reset"},
         where \in (Entering \cup Between \cup ReadingList \cup Switching) \ {"sserial pins"} => hm2
  PROVE  Handshake' /\ Where' = where /\ ~Pending' /\ pc' = where /\ hm2' = hm2
<1>1. pc' = where /\ Where' = where /\ hm2' = hm2
  BY DEF Goto, Where
<1> QED BY <1>1 DEF Handshake, Pending

\* The places of sserial_module_init belong to its job, and no command is on
\* its way at a place that the process is at.
LEMMA AtPlace ==
  ASSUME Handshake, pc \in Entering \cup Between \cup ReadingList \cup Switching
  PROVE  /\ Where = pc /\ ~Pending /\ job = "sserial pins"
         /\ pc # "release reset" => cmd = None
         /\ pc # "sserial pins" => hm2
<1> USE DEF Entering, Between, ReadingList, Switching
<1>1. Where = pc /\ ~Pending
  BY DEF Where, Pending
<1>2. job = "sserial pins"
  BY <1>1 DEF Handshake, Places, Jobs, EnablingPins
<1> QED BY <1>1, <1>2 DEF Handshake

-----------------------------------------------------------------------------
(* The catalogue *)

NvSelected ==
  \/ Where = "read nv" /\ ~Pending
  \/ Where = "got nv"
  \/ Where = "next entry" /\ Pending

\* The remote at the channel is there and set up while its list is read, and
\* its non-volatile memory is selected only to read a value.
Remote ==
  /\ channel \in 0 .. width /\ setup \subseteq DOMAIN Remotes
  /\ entry \in Nat /\ modes \in Nat /\ stray \in 0 .. MaxStray
  /\ Where = "is there" => channel < width
  /\ Where \in ReadingList \cup Switching => channel \in DOMAIN Remotes
  /\ Where \in ReadingList => channel \in setup /\ entry >= 1
  /\ Where \in {"set mode", "mode is set", "stray"} => modes > 0
  /\ nv = IF NvSelected THEN {channel} ELSE {}

Kind == Remotes[channel][entry]

\* What the registers hold when the process looks at them.
Answers ==
  /\ Where = "is there" /\ ~Pending => (answer = "zero" <=> channel \in DOMAIN Remotes)
  /\ Where = "is there" /\ ~Pending /\ channel \in DOMAIN Remotes => channel \in setup
  /\ Where = "got entry" /\ ~Pending =>
       (answer = "zero" <=> entry > Len(Remotes[channel]))
  /\ Where \in {"got record", "read nv", "got nv", "got value", "next entry"} =>
       entry <= Len(Remotes[channel])
  /\ Where = "got record" /\ ~Pending => answer = Kind
  /\ Where \in {"read nv", "got nv"} => IsRead(Kind) /\ Kind # "revision"
  /\ Where = "got value" => Kind = "revision"
  /\ Where = "got nv" /\ ~Pending => answer = "nv"
  /\ Where = "got value" /\ ~Pending => answer = "ram"

\* The records that have been passed.
Behind(c, e) ==
  \/ /\ Where \in ReadingList \cup {"killed"}
     /\ c < channel \/ (c = channel /\ (e < entry \/ (Where = "next entry" /\ e = entry)))
  \/ Where \in Switching /\ c <= channel
  \/ Where \in {"channel", "is there"} /\ c < channel
  \/ Where \in {"sserial off", "done"} /\ hm2

CatalogueSoFar ==
  job = "sserial pins" => found = {r \in Catalogue : Behind(r.ch, r.at)}

SsInv == Handshake /\ Remote /\ Answers /\ CatalogueSoFar

LEMMA CatalogueRecords ==
  /\ \A r \in Catalogue :
       /\ r.ch \in DOMAIN Remotes /\ r.ch \in 0 .. width - 1
       /\ r.at \in 1 .. Len(Remotes[r.ch])
       /\ IsRead(Remotes[r.ch][r.at])
       /\ r = [ch |-> r.ch, at |-> r.at, of |-> ReadFrom(Remotes[r.ch][r.at])]
  /\ \A c \in DOMAIN Remotes : \A e \in 1 .. Len(Remotes[c]) :
       IsRead(Remotes[c][e]) => [ch |-> c, at |-> e, of |-> ReadFrom(Remotes[c][e])] \in Catalogue
  /\ \A c \in DOMAIN Remotes : Len(Remotes[c]) \in Nat
<1>1. \A c \in DOMAIN Remotes :
        c \in 0 .. width - 1 /\ DOMAIN Remotes[c] = 1 .. Len(Remotes[c]) /\ Len(Remotes[c]) \in Nat
  BY RemotesAssumption
<1>2. ASSUME NEW r \in Catalogue
      PROVE  /\ r.ch \in DOMAIN Remotes /\ r.ch \in 0 .. width - 1
             /\ r.at \in 1 .. Len(Remotes[r.ch])
             /\ IsRead(Remotes[r.ch][r.at])
             /\ r = [ch |-> r.ch, at |-> r.at, of |-> ReadFrom(Remotes[r.ch][r.at])]
  <2>1. PICK c \in DOMAIN Remotes :
          \E e \in DOMAIN Remotes[c] :
            IsRead(Remotes[c][e]) /\ r = [ch |-> c, at |-> e, of |-> ReadFrom(Remotes[c][e])]
    BY DEF Catalogue
  <2>2. PICK e \in DOMAIN Remotes[c] :
          IsRead(Remotes[c][e]) /\ r = [ch |-> c, at |-> e, of |-> ReadFrom(Remotes[c][e])]
    BY <2>1
  <2>3. r.ch = c /\ r.at = e
    BY <2>2
  <2> QED BY <1>1, <2>2, <2>3
<1>3. ASSUME NEW c \in DOMAIN Remotes, NEW e \in 1 .. Len(Remotes[c]), IsRead(Remotes[c][e])
      PROVE  [ch |-> c, at |-> e, of |-> ReadFrom(Remotes[c][e])] \in Catalogue
  <2>1. e \in {n \in DOMAIN Remotes[c] : IsRead(Remotes[c][n])}
    BY <1>1, <1>3
  <2> QED BY <2>1 DEF Catalogue
<1> QED BY <1>1, <1>2, <1>3

\* The numbers of channels and records.
LEMMA Channels ==
  /\ width \in Nat /\ MaxStray \in Nat
  /\ \A c \in DOMAIN Remotes : c \in Nat /\ c < width
BY RemotesAssumption

LEMMA Listed ==
  \A r \in Catalogue :
    /\ r.ch \in DOMAIN Remotes /\ r.ch \in Nat /\ r.ch < width
    /\ r.at \in Nat /\ r.at >= 1 /\ r.at <= Len(Remotes[r.ch])
BY CatalogueRecords, Channels

LEMMA SameCatalogue == UNCHANGED verbose => Catalogue' = Catalogue
<1> SUFFICES ASSUME UNCHANGED verbose PROVE Catalogue' = Catalogue
  OBVIOUS
<1> DEFINE IsListed(r) ==
      \E c \in DOMAIN Remotes : \E e \in DOMAIN Remotes[c] :
        IsRead(Remotes[c][e]) /\ r = [ch |-> c, at |-> e, of |-> ReadFrom(Remotes[c][e])]
<1>1. \A r : r \in Catalogue <=> IsListed(r)
  BY DEF Catalogue
<1>2. \A r : r \in Catalogue' <=> IsListed(r)'
  BY DEF Catalogue
<1>3. \A r : IsListed(r)' <=> IsListed(r)
  BY DEF IsRead
<1> HIDE DEF IsListed
<1> QED BY <1>1, <1>2, <1>3

\* Nothing is found, and no record passed.
LEMMA NoneFound ==
  ASSUME CatalogueSoFar, UNCHANGED <<job, verbose, found>>,
         \A r \in Catalogue : Behind(r.ch, r.at)' <=> Behind(r.ch, r.at)
  PROVE  CatalogueSoFar'
BY SameCatalogue DEF CatalogueSoFar

\* One record is found, and passed.
LEMMA OneFound ==
  ASSUME CatalogueSoFar, job = "sserial pins", UNCHANGED verbose,
         NEW r0 \in Catalogue, found' = found \cup {r0},
         \A r \in Catalogue : Behind(r.ch, r.at)' <=> Behind(r.ch, r.at) \/ r = r0
  PROVE  CatalogueSoFar'
BY SameCatalogue DEF CatalogueSoFar

Active == {"channel", "is there"} \cup ReadingList \cup Switching

\* Steps that are none of the remotes'.
LEMMA IdleStep ==
  ASSUME SsInv, Handshake', UNCHANGED <<ssVars, job>>, Where \notin Active, Where' \notin Active,
         job = "sserial pins" =>
           /\ Where # "killed" /\ Where' # "killed"
           /\ Where' \in {"sserial off", "done"} /\ hm2' <=> Where \in {"sserial off", "done"} /\ hm2
  PROVE  SsInv'
<1> USE DEF Active, ReadingList, Switching
<1>1. Remote'
  BY DEF SsInv, Remote, NvSelected, ssVars
<1>2. Answers'
  BY DEF Answers
<1>3. CASE job = "sserial pins"
  <2>1. \A c, e : Behind(c, e)' <=> Behind(c, e)
    BY <1>3 DEF Behind
  <2>2. CatalogueSoFar'
    BY <2>1, NoneFound DEF SsInv, ssVars
  <2> QED BY <1>1, <1>2, <2>2 DEF SsInv
<1>4. CASE job # "sserial pins"
  BY <1>1, <1>2, <1>4 DEF SsInv, CatalogueSoFar
<1> QED BY <1>3, <1>4

LEMMA SsInit == Init => SsInv
<1> SUFFICES ASSUME Init PROVE SsInv
  OBVIOUS
<1> USE DEF ReadingList, Switching, Entering, Between, EnablingPins
<1>1. Where = "idrom" /\ ~Pending
  BY DEF Init, Where, Pending
<1>2. Handshake
  BY <1>1 DEF Init, SserialInit, Handshake, Places, Jobs
<1>3. Remote
  <2>1. setup \in {{}, DOMAIN Remotes} /\ nv = {} /\ channel = 0 /\ entry = 0 /\ modes = 0 /\ stray = 0
    BY DEF Init, SserialInit
  <2>2. width \in Nat /\ MaxStray \in Nat
    BY RemotesAssumption
  <2> QED BY <1>1, <2>1, <2>2 DEF Remote, NvSelected
<1>4. Answers /\ CatalogueSoFar
  BY <1>1 DEF Answers, CatalogueSoFar, Behind, Init, SserialInit
<1> QED BY <1>2, <1>3, <1>4 DEF SsInv

\* The jobs that only switch pins, and the steps before and after the remotes.
LEMMA PinsSs ==
  ASSUME SsInv, UNCHANGED <<ssVars, job>>,
         read_idrom(FirstOf(job)) \/ EnableAll \/ SafeIo \/ EncoderPins \/ NoSserial
           \/ EnablePinsFirst \/ DisablePinsLast
  PROVE  SsInv'
<1> USE DEF ReadingList, Switching, Entering, Between, EnablingPins
<1>1. CASE read_idrom(FirstOf(job))
  <2>1. pc = "idrom" /\ Where = "idrom" /\ cmd' = None /\ pc' = FirstOf(job) /\ job' = job
    BY <1>1 DEF read_idrom, Where, SsInv, Handshake, ssVars
  <2>2. Where' = FirstOf(job) /\ FirstOf(job) \in {"enable alt", "safe", "sserial pins", "encoder pins"}
    BY <2>1 DEF Where, FirstOf, SsInv, Handshake, Jobs
  <2>3. Handshake'
    BY <2>1, <2>2 DEF Handshake, SsInv, Places, FirstOf, Jobs
  <2> QED BY <2>1, <2>2, <2>3, IdleStep DEF Active
<1>2. CASE EnableAll \/ SafeIo \/ EncoderPins
  <2>1. /\ pc \in {"enable alt", "enable pins", "safe", "encoder pins"}
        /\ \/ pc' = pc
           \/ pc = "enable alt" /\ pc' \in {"enable pins", "killed"}
           \/ pc \in {"enable pins", "safe", "encoder pins"} /\ pc' = "done"
           \/ pc = "safe" /\ pc' = "killed"
           \/ pc = "encoder pins" /\ pc' = "encoder"
        /\ hm2' = hm2
    BY <1>2 DEF EnableAll, SafeIo, EncoderPins, NoModule, EnableAlt, EnablePins, SafePort,
                EncoderPin, EncoderRefused, Goto
  <2>2. /\ Where = pc /\ Where' = pc' /\ job' = job /\ job # "sserial pins" /\ cmd' = None
        /\ pc' # "wait"
    BY <2>1 DEF Where, SsInv, Handshake, ssVars, Places, Jobs
  <2>3. Handshake'
    BY <2>1, <2>2 DEF Handshake, SsInv, Places, Jobs
  <2> QED BY <2>1, <2>2, <2>3, IdleStep DEF Active
<1>3. CASE NoSserial \/ EnablePinsFirst \/ DisablePinsLast
  <2>1. /\ pc \in {"sserial pins", "sserial off"} /\ hm2' = hm2
        /\ \/ pc' = pc
           \/ pc = "sserial pins" /\ pc' = "done" /\ ~hm2
           \/ pc = "sserial pins" /\ pc' = "assert reset" /\ hm2
           \/ pc = "sserial off" /\ pc' = "done"
    BY <1>3 DEF NoSserial, EnablePinsFirst, DisablePinsLast, enable_sserial_pins,
                disable_sserial_pins, SserialPins, Goto, found_module
  <2>2. /\ Where = pc /\ Where' = pc' /\ job' = job /\ job = "sserial pins" /\ cmd' = None
        /\ pc' # "wait"
    BY <2>1, AtPlace DEF Where, SsInv, ssVars
  <2>3. Handshake'
    BY <2>1, <2>2 DEF Handshake, SsInv, Places, Jobs
  <2> QED BY <2>1, <2>2, <2>3, IdleStep DEF Active
<1> QED BY <1>1, <1>2, <1>3

\* The processor executes the command that is waited for.
LEMMA ProcessorSs ==
  ASSUME SsInv, Processor
  PROVE  SsInv'
<1> USE DEF ReadingList, Switching
<1>1. /\ pc = "wait" /\ next \in Handshakes /\ cmd' = None /\ cmd # None
      /\ UNCHANGED <<pinVars, next, channel, entry, modes, stray, verbose, found, job>>
      /\ Effect
  BY Executed DEF SsInv, Processor
<1>2. Where = next /\ Where' = next /\ pc' = "wait" /\ Pending /\ ~Pending' /\ hm2' = hm2
  BY <1>1 DEF Where, Pending, pinVars
<1>3. Handshake'
  BY <1>1, <1>2 DEF SsInv, Handshake, Places
<1>4. setup' \subseteq DOMAIN Remotes
  BY <1>1 DEF Effect, SsInv, Remote, Handshakes
<1>5. next \in ReadingList => channel \in setup'
  <2>1. next \in ReadingList => setup' = setup
    BY <1>1 DEF Effect, Handshakes
  <2>2. next \in ReadingList => channel \in setup
    BY <1>2 DEF SsInv, Remote
  <2> QED BY <1>1, <2>1, <2>2
<1>6. nv' = IF NvSelected' THEN {channel} ELSE {}
  <2>1. NvSelected <=> next \in {"got nv", "next entry"}
    BY <1>2 DEF NvSelected
  <2>2. NvSelected' <=> next \in {"got nv", "read nv"}
    BY <1>1, <1>2 DEF NvSelected
  <2>3. nv = IF NvSelected THEN {channel} ELSE {}
    BY DEF SsInv, Remote
  <2>4. nv' = CASE next = "read nv" -> nv \cup {channel}
                [] next = "next entry" -> nv \ {channel}
                [] OTHER -> nv
    BY <1>1 DEF Effect, Handshakes
  <2> QED BY <2>1, <2>2, <2>3, <2>4
<1>7. Remote'
  BY <1>1, <1>2, <1>4, <1>5, <1>6 DEF SsInv, Remote
<1>8. next = "got entry" => (answer' = "zero" <=> entry > Len(Remotes[channel]))
  <2> SUFFICES ASSUME next = "got entry"
               PROVE  answer' = "zero" <=> entry > Len(Remotes[channel])
    OBVIOUS
  <2>1. answer' = ListEntry(channel, entry) /\ channel \in setup /\ nv = {}
    BY <1>1, <1>2 DEF Effect, SsInv, Remote, NvSelected
  <2> QED BY <2>1 DEF ListEntry
<1>9. /\ next = "is there" => /\ answer' = "zero" <=> channel \in DOMAIN Remotes
                              /\ channel \in DOMAIN Remotes => channel \in setup'
      /\ next = "got record" => answer' = Kind'
      /\ next = "got nv" => answer' = "nv"
      /\ next = "got value" => answer' = "ram"
  <2>1. /\ next = "got nv" => nv = {channel}
        /\ next = "got value" => nv = {}
    BY <1>2 DEF SsInv, Remote, NvSelected
  <2> QED BY <1>1, <2>1 DEF Effect, Memory, Kind
<1>10. Answers'
  <2>1. /\ Kind' = Kind /\ (IsRead(Kind)' <=> IsRead(Kind))
    BY <1>1 DEF Kind, IsRead
  <2> QED BY <1>1, <1>2, <1>8, <1>9, <2>1 DEF SsInv, Answers
<1>11. CatalogueSoFar'
  <2>1. \A c, e : Behind(c, e)' <=> Behind(c, e)
    BY <1>1, <1>2 DEF Behind
  <2> QED BY <1>1, <2>1, NoneFound DEF SsInv
<1> QED BY <1>3, <1>7, <1>10, <1>11 DEF SsInv

\* Reset, the parameters of the module, the first channel, and the end of a
\* handshake.
LEMMA EnteringSs ==
  ASSUME SsInv, AssertReset \/ Locals \/ FirstChannel \/ sslbp_wait_complete, job' = job
  PROVE  SsInv'
<1> USE DEF ReadingList, Switching, Entering, Between, Handshakes
<1>1. CASE AssertReset
  <2>1. /\ Where = "assert reset" /\ job = "sserial pins" /\ hm2 /\ hm2' = hm2
        /\ pc' = "release reset" /\ Where' = "release reset" /\ cmd' = [do |-> "reset"]
        /\ ~NvSelected /\ ~NvSelected'
    BY <1>1, AtPlace DEF AssertReset, Goto, SsInv, NvSelected, Where, Pending
  <2>2. Handshake'
    BY <2>1 DEF SsInv, Handshake, Places
  <2>3. Remote'
    BY <1>1, <2>1 DEF AssertReset, ProgramUnchanged, SsInv, Remote
  <2>4. \A c, e : ~Behind(c, e)' /\ ~Behind(c, e)
    BY <2>1 DEF Behind
  <2>5. CatalogueSoFar'
    BY <1>1, <2>4, NoneFound DEF AssertReset, ProgramUnchanged, SsInv
  <2> QED BY <2>1, <2>2, <2>3, <2>5 DEF SsInv, Answers
<1>2. CASE Locals
  <2>1. PICK where \in {"read local", "channels"} :
          /\ Send(Command(where, channel', entry'), where) /\ ProgramUnchanged
          /\ pc \in {"release reset", "read local"}
    <3>1. /\ Command("read local", channel', entry') = [do |-> "stopall"]
          /\ Command("channels", channel', entry') = [do |-> "local"]
      BY DEF Command
    <3> QED BY <1>2, <3>1 DEF Locals, Ask
  <2>2. job = "sserial pins" /\ hm2 /\ where \in Places(job) /\ Where = pc
    BY <2>1, AtPlace DEF SsInv, Places
  <2>3. Handshake' /\ Where' = where /\ Pending'
    BY <2>1, <2>2, SendCommand DEF SsInv
  <2>4. Remote'
    BY <2>1, <2>2, <2>3 DEF Send, ProgramUnchanged, SsInv, Remote, NvSelected
  <2>5. \A c, e : ~Behind(c, e)' /\ ~Behind(c, e)
    BY <2>1, <2>2, <2>3 DEF Behind
  <2>6. CatalogueSoFar'
    BY <2>1, <2>5, NoneFound DEF ProgramUnchanged, SsInv
  <2> QED BY <2>3, <2>4, <2>6 DEF SsInv, Answers
<1>3. CASE FirstChannel
  <2>1. /\ Where = "channels" /\ job = "sserial pins" /\ hm2 /\ cmd = None
        /\ channel' = 0 /\ Goto("channel") /\ NoCommand
        /\ UNCHANGED <<entry, modes, stray, verbose, found>>
    BY <1>3, AtPlace DEF FirstChannel, SsInv
  <2>2. Handshake' /\ Where' = "channel"
    BY <2>1, GoOn DEF NoCommand, SsInv, Places
  <2>3. Remote'
    <3>1. 0 \in 0 .. width
      BY RemotesAssumption
    <3> QED BY <2>1, <2>2, <3>1 DEF NoCommand, SsInv, Remote, NvSelected
  <2>4. \A r \in Catalogue : ~Behind(r.ch, r.at)' /\ ~Behind(r.ch, r.at)
    <3>1. \A n \in Nat : ~(n < 0)
      OBVIOUS
    <3> QED BY <2>1, <2>2, <3>1, Listed DEF Behind
  <2>5. CatalogueSoFar'
    BY <2>1, <2>4, NoneFound DEF SsInv
  <2> QED BY <2>2, <2>3, <2>5 DEF SsInv, Answers
<1>4. CASE sslbp_wait_complete
  <2>1. /\ pc = "wait" /\ cmd = None /\ pc' = next /\ hm2' = hm2
        /\ UNCHANGED <<ssVars, verbose>> /\ next \in Handshakes
    BY <1>4 DEF sslbp_wait_complete, Goto, NoCommand, ProgramUnchanged, Complete, SsInv,
                Handshake, ssVars
  <2>2. Where' = Where /\ ~Pending /\ ~Pending' /\ pc' # "wait"
    BY <2>1 DEF Where, Pending
  <2>3. Handshake'
    BY <2>1, <2>2 DEF SsInv, Handshake, ssVars
  <2>4. NvSelected' <=> NvSelected
    BY <2>2 DEF NvSelected
  <2>5. Remote'
    BY <2>1, <2>2, <2>4 DEF SsInv, Remote, ssVars
  <2>6. Answers'
    <3>1. Kind' = Kind /\ (IsRead(Kind)' <=> IsRead(Kind))
      <4>1. UNCHANGED <<channel, entry, verbose>>
        BY <2>1 DEF ssVars
      <4> QED BY <4>1 DEF Kind, IsRead
    <3> QED BY <2>1, <2>2, <3>1 DEF SsInv, Answers, ssVars
  <2>7. \A c, e : Behind(c, e)' <=> Behind(c, e)
    BY <2>1, <2>2 DEF Behind, ssVars
  <2>8. CatalogueSoFar'
    BY <2>1, <2>7, NoneFound DEF SsInv, ssVars
  <2> QED BY <2>3, <2>5, <2>6, <2>8 DEF SsInv
<1> QED BY <1>1, <1>2, <1>3, <1>4

LEMMA ChannelsSs ==
  ASSUME SsInv, Channel \/ IsThere, job' = job
  PROVE  SsInv'
<1> USE DEF ReadingList, Switching, Entering, Between, Handshakes
<1>1. CASE Channel /\ HasChannel
  <2>1. /\ Send([do |-> "setup", ch |-> channel, again |-> FALSE], "is there") /\ ProgramUnchanged
        /\ Where = "channel" /\ job = "sserial pins" /\ hm2 /\ channel < width
    BY <1>1, AtPlace DEF Channel, SsInv, HasChannel
  <2>2. Handshake' /\ Where' = "is there" /\ Pending'
    <3>1. Command("is there", channel', entry') = [do |-> "setup", ch |-> channel, again |-> FALSE]
      BY <2>1 DEF Command, ProgramUnchanged
    <3> QED BY <2>1, <3>1, SendCommand DEF SsInv, Places
  <2>3. Remote'
    BY <2>1, <2>2 DEF Send, ProgramUnchanged, SsInv, Remote, NvSelected
  <2>4. \A c, e : Behind(c, e)' <=> Behind(c, e)
    BY <2>1, <2>2 DEF Behind, ProgramUnchanged
  <2>5. CatalogueSoFar'
    BY <2>1, <2>4, NoneFound DEF ProgramUnchanged, SsInv
  <2> QED BY <2>2, <2>3, <2>5 DEF SsInv, Answers
<1>2. CASE Channel /\ ~HasChannel
  <2>1. /\ Goto("sserial off") /\ NoCommand /\ ProgramUnchanged /\ cmd = None
        /\ Where = "channel" /\ job = "sserial pins" /\ hm2 /\ ~(channel < width)
    BY <1>2, AtPlace DEF Channel, SsInv, HasChannel
  <2>2. Handshake' /\ Where' = "sserial off" /\ hm2'
    BY <2>1, GoOn DEF NoCommand, SsInv, Places
  <2>3. Remote'
    BY <2>1, <2>2 DEF NoCommand, ProgramUnchanged, SsInv, Remote, NvSelected
  <2>4. channel \in 0 .. width /\ width \in Nat
    BY Channels DEF SsInv, Remote
  <2>5. \A r \in Catalogue : Behind(r.ch, r.at)' /\ Behind(r.ch, r.at)
    <3>1. channel = width
      <4>1. ~(channel < width)
        BY <2>1
      <4> QED BY <2>4, <4>1
    <3> QED BY <2>1, <2>2, <3>1, Listed DEF Behind
  <2>6. CatalogueSoFar'
    BY <2>1, <2>5, NoneFound DEF ProgramUnchanged, SsInv
  <2> QED BY <2>2, <2>3, <2>6 DEF SsInv, Answers
<1>3. CASE IsThere
  <2>1. /\ Where = "is there" /\ ~Pending /\ job = "sserial pins" /\ hm2 /\ cmd = None
        /\ NoCommand /\ UNCHANGED <<stray, verbose, found>>
        /\ channel < width /\ (answer = "zero" <=> channel \in DOMAIN Remotes)
    BY <1>3, AtPlace DEF IsThere, SsInv, Remote, Answers
  <2>2. channel \in Nat /\ channel \in 0 .. width /\ width \in Nat
    <3>1. channel \in 0 .. width /\ width \in Nat
      BY Channels DEF SsInv, Remote
    <3> QED BY <3>1
  <2>3. nv = {}
    BY <2>1 DEF SsInv, Remote, NvSelected
  <2>4. CASE answer = "zero"
    <3>1. Goto("entry") /\ entry' = 1 /\ modes' = 0 /\ channel' = channel
      BY <1>3, <2>4 DEF IsThere
    <3>2. Handshake' /\ Where' = "entry"
      BY <2>1, <3>1, GoOn DEF NoCommand, SsInv, Places
    <3>3. channel \in setup
      BY <1>3, <2>1, <2>4 DEF SsInv, Remote, Answers
    <3>4. Remote'
      <4>1. UNCHANGED <<setup, nv, channel, stray>> /\ entry' = 1 /\ modes' = 0
        BY <2>1, <3>1 DEF NoCommand
      <4>2. 1 \in Nat /\ 0 \in Nat /\ 1 >= 1
        OBVIOUS
      <4> QED BY <2>1, <2>3, <2>4, <3>2, <3>3, <4>1, <4>2 DEF SsInv, Remote, NvSelected
    <3>5. \A r \in Catalogue : Behind(r.ch, r.at)' <=> Behind(r.ch, r.at)
      <4>1. \A n \in Nat : n >= 1 => ~(n < 1)
        OBVIOUS
      <4>2. \A r \in Catalogue : ~(r.at < 1)
        BY <4>1, Listed
      <4>3. \A c, e : ~(e < 1) => (Behind(c, e)' <=> c < channel) /\ (Behind(c, e) <=> c < channel)
        BY <2>1, <3>1, <3>2 DEF Behind
      <4> QED BY <4>2, <4>3
    <3>6. CatalogueSoFar'
      BY <2>1, <3>5, NoneFound DEF SsInv
    <3> QED BY <3>2, <3>4, <3>6 DEF SsInv, Answers
  <2>5. CASE answer # "zero"
    <3>1. channel' = channel + 1 /\ Goto("channel") /\ UNCHANGED <<entry, modes>>
      BY <1>3, <2>5 DEF IsThere, NextChannel
    <3>2. Handshake' /\ Where' = "channel"
      BY <2>1, <3>1, GoOn DEF NoCommand, SsInv, Places
    <3>3. Remote'
      <4>1. channel' \in 0 .. width
        <5>1. channel < width /\ channel' = channel + 1
          BY <2>1, <3>1
        <5> QED BY <2>2, <5>1
      <4> QED BY <2>1, <2>3, <3>1, <3>2, <4>1 DEF NoCommand, SsInv, Remote, NvSelected
    <3>4. \A r \in Catalogue : Behind(r.ch, r.at)' <=> Behind(r.ch, r.at)
      <4>1. \A r \in Catalogue : r.ch \in Nat /\ r.ch # channel
        BY <2>1, <2>5, Listed
      <4>2. \A n \in Nat : n # channel => (n < channel + 1 <=> n < channel)
        BY <2>2
      <4> QED BY <2>1, <3>1, <3>2, <4>1, <4>2 DEF Behind
    <3>5. CatalogueSoFar'
      BY <2>1, <3>4, NoneFound DEF SsInv
    <3> QED BY <3>2, <3>3, <3>5 DEF SsInv, Answers
  <2> QED BY <2>4, <2>5
<1> QED BY <1>1, <1>2, <1>3

\* The list of a remote up to a record of it.
LEMMA ListSs ==
  ASSUME SsInv, AskEntry \/ GotEntry, job' = job
  PROVE  SsInv'
<1> USE DEF ReadingList, Switching, Entering, Between, Handshakes
<1>1. CASE AskEntry
  <2>1. /\ Send([do |-> "entry", ch |-> channel, at |-> entry], "got entry") /\ ProgramUnchanged
        /\ Where = "entry" /\ job = "sserial pins" /\ hm2
    BY <1>1, AtPlace DEF AskEntry, Ask, SsInv
  <2>2. Handshake' /\ Where' = "got entry" /\ Pending'
    <3>1. Command("got entry", channel', entry') = [do |-> "entry", ch |-> channel, at |-> entry]
      BY <2>1 DEF Command, ProgramUnchanged
    <3> QED BY <2>1, <3>1, SendCommand DEF SsInv, Places
  <2>3. Remote'
    BY <2>1, <2>2 DEF Send, ProgramUnchanged, SsInv, Remote, NvSelected
  <2>4. \A c, e : Behind(c, e)' <=> Behind(c, e)
    BY <2>1, <2>2 DEF Behind, ProgramUnchanged
  <2>5. CatalogueSoFar'
    BY <2>1, <2>4, NoneFound DEF ProgramUnchanged, SsInv
  <2> QED BY <2>2, <2>3, <2>5 DEF SsInv, Answers
<1>2. CASE GotEntry
  <2>1. /\ Where = "got entry" /\ ~Pending /\ job = "sserial pins" /\ hm2 /\ cmd = None
        /\ UNCHANGED <<answer, setup, nv, ddr, alt, pin>> /\ ProgramUnchanged
        /\ channel \in DOMAIN Remotes /\ (answer = "zero" <=> entry > Len(Remotes[channel]))
    BY <1>2, AtPlace DEF GotEntry, SsInv, Remote, Answers
  <2>2. entry \in Nat /\ Len(Remotes[channel]) \in Nat
    BY <2>1, CatalogueRecords DEF SsInv, Remote
  <2>3. CASE answer = "zero"
    <3>1. Goto("mode") /\ cmd' = None
      BY <1>2, <2>1, <2>3 DEF GotEntry
    <3>2. Handshake' /\ Where' = "mode"
      BY <2>1, <3>1, GoOn DEF SsInv, Places
    <3>3. Remote'
      BY <2>1, <3>2 DEF ProgramUnchanged, SsInv, Remote, NvSelected
    <3>4. \A r \in Catalogue : Behind(r.ch, r.at)' <=> Behind(r.ch, r.at)
      <4>1. \A m, n, k \in Nat : m <= n /\ k > n => m < k
        OBVIOUS
      <4>2. \A r \in Catalogue : r.ch = channel => r.at < entry
        BY <2>1, <2>2, <2>3, <4>1, Listed
      <4>3. /\ channel \in Nat
            /\ \A m, n \in Nat : m <= n <=> m < n \/ m = n
        <5>1. channel \in Nat
          BY <2>1, Channels
        <5>2. \A m, n \in Nat : m <= n <=> m < n \/ m = n
          OBVIOUS
        <5> QED BY <5>1, <5>2
      <4>4. \A r \in Catalogue : r.ch <= channel <=> r.ch < channel \/ r.ch = channel
        BY <4>3, Listed
      <4>5. \A c, e : /\ Behind(c, e)' <=> c <= channel
                      /\ Behind(c, e) <=> c < channel \/ (c = channel /\ e < entry)
        BY <2>1, <3>2 DEF Behind, ProgramUnchanged
      <4> QED BY <4>2, <4>4, <4>5
    <3>5. CatalogueSoFar'
      BY <2>1, <3>4, NoneFound DEF ProgramUnchanged, SsInv
    <3> QED BY <3>2, <3>3, <3>5 DEF SsInv, Answers
  <2>4. CASE answer # "zero"
    <3>1. Send([do |-> "record", ch |-> channel, at |-> entry], "got record")
      BY <1>2, <2>4 DEF GotEntry, Send
    <3>2. Handshake' /\ Where' = "got record" /\ Pending'
      <4>1. Command("got record", channel', entry') = [do |-> "record", ch |-> channel, at |-> entry]
        BY <2>1 DEF Command, ProgramUnchanged
      <4> QED BY <2>1, <3>1, <4>1, SendCommand DEF SsInv, Places
    <3>3. Remote'
      BY <2>1, <3>2 DEF ProgramUnchanged, SsInv, Remote, NvSelected
    <3>4. \A c, e : Behind(c, e)' <=> Behind(c, e)
      BY <2>1, <3>2 DEF Behind, ProgramUnchanged
    <3>5. CatalogueSoFar'
      BY <2>1, <3>4, NoneFound DEF ProgramUnchanged, SsInv
    <3>6. entry' <= Len(Remotes[channel'])
      <4>1. ~(entry > Len(Remotes[channel]))
        BY <2>1, <2>4
      <4>2. entry <= Len(Remotes[channel])
        BY <2>2, <4>1
      <4> QED BY <2>1, <4>2 DEF ProgramUnchanged
    <3> QED BY <3>2, <3>3, <3>5, <3>6 DEF SsInv, Answers
  <2> QED BY <2>3, <2>4
<1> QED BY <1>1, <1>2

\* A record of the list: its value is asked for, or it is passed over.
LEMMA RecordSs ==
  ASSUME SsInv, GotRecord, job' = job
  PROVE  SsInv'
<1> USE DEF ReadingList, Switching, Entering, Between, Handshakes
<1>1. /\ Where = "got record" /\ ~Pending /\ job = "sserial pins" /\ hm2 /\ cmd = None
      /\ UNCHANGED <<channel, stray, verbose, found>>
      /\ channel \in DOMAIN Remotes /\ channel \in setup /\ nv = {}
      /\ answer = Kind /\ entry <= Len(Remotes[channel]) /\ entry \in Nat /\ entry >= 1
  BY AtPlace DEF GotRecord, SsInv, Remote, Answers, NvSelected
<1>5. entry \in Nat
  BY <1>1
<1>2. CASE ReadsNv
  <2>1. /\ Send([do |-> "select", ch |-> channel, nv |-> TRUE], "read nv")
        /\ UNCHANGED <<entry, modes>> /\ IsRead(Kind) /\ Kind # "revision"
    BY <1>1, <1>2 DEF ReadsNv
  <2>2. Handshake' /\ Where' = "read nv" /\ Pending'
    <3>1. Command("read nv", channel', entry') = [do |-> "select", ch |-> channel, nv |-> TRUE]
      BY <1>1 DEF Command
    <3> QED BY <1>1, <2>1, <3>1, SendCommand DEF SsInv, Places
  <2>3. Remote'
    BY <1>1, <2>1, <2>2 DEF Send, SsInv, Remote, NvSelected
  <2>4. \A c, e : Behind(c, e)' <=> Behind(c, e)
    BY <1>1, <2>1, <2>2 DEF Behind
  <2>5. CatalogueSoFar'
    BY <1>1, <2>4, NoneFound DEF SsInv
  <2>6. IsRead(Kind)' /\ Kind' # "revision" /\ entry' <= Len(Remotes[channel'])
    BY <1>1, <2>1 DEF Kind, IsRead
  <2> QED BY <2>2, <2>3, <2>5, <2>6 DEF SsInv, Answers
<1>3. CASE ReadsRevision
  <2>1. /\ Send([do |-> "value", ch |-> channel], "got value")
        /\ UNCHANGED <<entry, modes>> /\ Kind = "revision"
    BY <1>1, <1>3 DEF ReadsRevision
  <2>2. Handshake' /\ Where' = "got value" /\ Pending'
    <3>1. Command("got value", channel', entry') = [do |-> "value", ch |-> channel]
      BY <1>1 DEF Command
    <3> QED BY <1>1, <2>1, <3>1, SendCommand DEF SsInv, Places
  <2>3. Remote'
    BY <1>1, <2>1, <2>2 DEF Send, SsInv, Remote, NvSelected
  <2>4. \A c, e : Behind(c, e)' <=> Behind(c, e)
    BY <1>1, <2>1, <2>2 DEF Behind
  <2>5. CatalogueSoFar'
    BY <1>1, <2>4, NoneFound DEF SsInv
  <2>6. Kind' = "revision" /\ entry' <= Len(Remotes[channel'])
    BY <1>1, <2>1 DEF Kind
  <2> QED BY <2>2, <2>3, <2>5, <2>6 DEF SsInv, Answers
<1>6. CASE NameTooLong
  <2>1. Goto("killed") /\ NoCommand /\ UNCHANGED <<entry, modes>>
    BY <1>6 DEF NameTooLong
  <2>2. Handshake' /\ Where' = "killed" /\ ~Pending'
    BY <1>1, <2>1, GoOn DEF NoCommand, SsInv, Places
  <2>3. Remote'
    BY <1>1, <2>1, <2>2 DEF NoCommand, SsInv, Remote, NvSelected
  <2>4. \A c, e : Behind(c, e)' <=> Behind(c, e)
    BY <1>1, <2>1, <2>2 DEF Behind
  <2>5. CatalogueSoFar'
    BY <1>1, <2>4, NoneFound DEF SsInv
  <2> QED BY <2>2, <2>3, <2>5 DEF SsInv, Answers
<1>4. CASE CountsMode \/ PassesOver
  <2>1. /\ entry' = entry + 1 /\ Goto("entry") /\ NoCommand /\ modes' \in {modes, modes + 1}
        /\ ~IsRead(Kind)
    BY <1>1, <1>4 DEF CountsMode, NameTooLong, PassesOver, ToNextEntry, NextEntry, IsRead
  <2>2. Handshake' /\ Where' = "entry"
    BY <1>1, <2>1, GoOn DEF NoCommand, SsInv, Places
  <2>3. Remote'
    <3>1. entry + 1 \in Nat /\ entry + 1 >= 1
      BY <1>5
    <3>2. modes' \in Nat
      <4>1. modes \in Nat /\ modes' \in {modes, modes + 1}
        BY <2>1 DEF SsInv, Remote
      <4> QED BY <4>1
    <3> QED BY <1>1, <2>1, <2>2, <3>1, <3>2 DEF NoCommand, SsInv, Remote, NvSelected
  <2>4. \A r \in Catalogue : Behind(r.ch, r.at)' <=> Behind(r.ch, r.at)
    <3>1. \A r \in Catalogue : r.ch = channel => r.at # entry
      BY <2>1, CatalogueRecords DEF Kind
    <3>2. \A m \in Nat : m < entry + 1 <=> m < entry \/ m = entry
      BY <1>5
    <3>3. \A r \in Catalogue : r.at < entry + 1 <=> r.at < entry \/ r.at = entry
      BY <3>2, Listed
    <3>4. \A c, e : /\ Behind(c, e)' <=> c < channel \/ (c = channel /\ e < entry + 1)
                    /\ Behind(c, e) <=> c < channel \/ (c = channel /\ e < entry)
      BY <1>1, <2>1, <2>2 DEF Behind
    <3> QED BY <3>1, <3>3, <3>4
  <2>5. CatalogueSoFar'
    BY <1>1, <2>4, NoneFound DEF SsInv
  <2> QED BY <2>2, <2>3, <2>5 DEF SsInv, Answers
<1> QED BY <1>2, <1>3, <1>4, <1>6 DEF GotRecord

\* The value of a record is read and found.
LEMMA ValueSs ==
  ASSUME SsInv, ReadNv \/ GotNv \/ GotValue \/ AdvanceEntry, job' = job
  PROVE  SsInv'
<1> USE DEF ReadingList, Switching, Entering, Between, Handshakes
<1>1. /\ Where = pc /\ ~Pending /\ job = "sserial pins" /\ hm2 /\ cmd = None
      /\ Where \in {"read nv", "got nv", "got value", "next entry"}
      /\ UNCHANGED <<channel, modes, stray, verbose>>
      /\ channel \in DOMAIN Remotes /\ channel \in setup
      /\ entry <= Len(Remotes[channel]) /\ entry \in Nat /\ entry >= 1
  BY AtPlace DEF ReadNv, Ask, ProgramUnchanged, GotNv, GotValue, AdvanceEntry, SsInv, Remote, Answers
<1>5. entry \in Nat /\ entry >= 1
  BY <1>1
<1>2. CASE ReadNv
  <2>1. /\ Send([do |-> "value", ch |-> channel], "got nv") /\ ProgramUnchanged
        /\ Where = "read nv" /\ NvSelected
    BY <1>1, <1>2 DEF ReadNv, Ask, NvSelected
  <2>2. Handshake' /\ Where' = "got nv" /\ Pending' /\ NvSelected'
    <3>1. Command("got nv", channel', entry') = [do |-> "value", ch |-> channel]
      BY <1>1 DEF Command
    <3>2. Handshake' /\ Where' = "got nv" /\ Pending'
      BY <1>1, <2>1, <3>1, SendCommand DEF SsInv, Places
    <3> QED BY <3>2 DEF NvSelected
  <2>3. Remote'
    BY <1>1, <2>1, <2>2 DEF Send, ProgramUnchanged, SsInv, Remote
  <2>4. \A c, e : Behind(c, e)' <=> Behind(c, e)
    BY <1>1, <2>1, <2>2 DEF Behind, ProgramUnchanged
  <2>5. CatalogueSoFar'
    BY <1>1, <2>1, <2>4, NoneFound DEF ProgramUnchanged, SsInv
  <2>6. IsRead(Kind)' /\ Kind' # "revision" /\ entry' <= Len(Remotes[channel'])
    <3>1. IsRead(Kind) /\ Kind # "revision"
      BY <2>1 DEF SsInv, Answers
    <3>2. UNCHANGED <<channel, entry, verbose>>
      BY <2>1 DEF ProgramUnchanged
    <3>3. Kind' = Kind /\ (IsRead(Kind)' <=> IsRead(Kind))
      BY <3>2 DEF Kind, IsRead
    <3> QED BY <1>1, <3>1, <3>2, <3>3
  <2> QED BY <2>2, <2>3, <2>5, <2>6 DEF SsInv, Answers
<1>3. CASE GotNv \/ GotValue
  <2>1. /\ entry' = entry /\ Where' = "next entry" /\ Handshake' /\ (NvSelected' <=> NvSelected)
        /\ found' = found \cup {[ch |-> channel, at |-> entry, of |-> answer]}
        /\ IsRead(Kind) /\ answer = ReadFrom(Kind) /\ UNCHANGED <<setup, nv>>
        /\ Where \in {"got nv", "got value"}
    <3>1. CASE GotNv
      <4>1. /\ Send([do |-> "select", ch |-> channel, nv |-> FALSE], "next entry")
            /\ entry' = entry /\ Where = "got nv"
        BY <1>1, <3>1 DEF GotNv, SelectOff
      <4>2. Handshake' /\ Where' = "next entry" /\ Pending'
        <5>1. Command("next entry", channel', entry') = [do |-> "select", ch |-> channel, nv |-> FALSE]
          BY <1>1, <4>1 DEF Command
        <5> QED BY <1>1, <4>1, <5>1, SendCommand DEF SsInv, Places
      <4>3. IsRead(Kind) /\ answer = ReadFrom(Kind)
        BY <1>1, <4>1 DEF SsInv, Answers, ReadFrom
      <4> QED BY <3>1, <4>1, <4>2, <4>3 DEF GotNv, Found, Send, NvSelected
    <3>2. CASE GotValue
      <4>1. Goto("next entry") /\ NoCommand /\ entry' = entry /\ Where = "got value"
        BY <1>1, <3>2 DEF GotValue
      <4>2. Handshake' /\ Where' = "next entry" /\ ~Pending'
        BY <1>1, <4>1, GoOn DEF NoCommand, SsInv, Places
      <4>3. IsRead(Kind) /\ answer = ReadFrom(Kind)
        BY <1>1, <4>1 DEF SsInv, Answers, ReadFrom, IsRead
      <4> QED BY <1>1, <3>2, <4>1, <4>2, <4>3 DEF GotValue, Found, NoCommand, NvSelected
    <3> QED BY <1>3, <3>1, <3>2
  <2>2. Remote'
    BY <1>1, <2>1 DEF SsInv, Remote
  <2> DEFINE r0 == [ch |-> channel, at |-> entry, of |-> ReadFrom(Kind)]
  <2>3. r0 \in Catalogue /\ r0.ch = channel /\ r0.at = entry
    <3>1. Len(Remotes[channel]) \in Nat
      BY <1>1, CatalogueRecords
    <3>2. entry <= Len(Remotes[channel])
      BY <1>1
    <3>3. entry \in 1 .. Len(Remotes[channel])
      BY <1>5, <3>1, <3>2
    <3> QED BY <1>1, <2>1, <3>3, CatalogueRecords DEF Kind
  <2>4. \A r \in Catalogue : r = r0 <=> r.ch = channel /\ r.at = entry
    <3>1. \A r \in Catalogue : r = [ch |-> r.ch, at |-> r.at, of |-> ReadFrom(Remotes[r.ch][r.at])]
      BY CatalogueRecords
    <3> QED BY <2>3, <3>1 DEF Kind
  <2>5. \A r \in Catalogue : Behind(r.ch, r.at)' <=> Behind(r.ch, r.at) \/ r = r0
    <3>1. \A c, e : /\ Behind(c, e)' <=> c < channel \/ (c = channel /\ (e < entry \/ e = entry))
                    /\ Behind(c, e) <=> c < channel \/ (c = channel /\ e < entry)
      BY <1>1, <2>1 DEF Behind
    <3> HIDE DEF r0
    <3> QED BY <2>4, <3>1
  <2>6. CatalogueSoFar'
    <3>1. found' = found \cup {r0}
      BY <2>1
    <3> HIDE DEF r0
    <3> QED BY <1>1, <2>3, <2>5, <3>1, OneFound DEF SsInv
  <2> QED BY <1>1, <2>1, <2>2, <2>6 DEF SsInv, Answers
<1>4. CASE AdvanceEntry
  <2>1. /\ entry' = entry + 1 /\ Goto("entry") /\ NoCommand /\ found' = found
        /\ Where = "next entry" /\ ~NvSelected
    BY <1>1, <1>4 DEF AdvanceEntry, NextEntry, NvSelected
  <2>2. Handshake' /\ Where' = "entry"
    BY <1>1, <2>1, GoOn DEF NoCommand, SsInv, Places
  <2>3. Remote'
    <3>1. entry + 1 \in Nat /\ entry + 1 >= 1
      BY <1>5
    <3> QED BY <1>1, <2>1, <2>2, <3>1 DEF NoCommand, SsInv, Remote, NvSelected
  <2>4. \A r \in Catalogue : Behind(r.ch, r.at)' <=> Behind(r.ch, r.at)
    <3>1. \A m \in Nat : m < entry + 1 <=> m < entry \/ m = entry
      BY <1>5
    <3>2. \A r \in Catalogue : r.at < entry + 1 <=> r.at < entry \/ r.at = entry
      BY <3>1, Listed
    <3>3. \A c, e : /\ Behind(c, e)' <=> c < channel \/ (c = channel /\ e < entry + 1)
                    /\ Behind(c, e) <=> c < channel \/ (c = channel /\ (e < entry \/ e = entry))
      BY <1>1, <2>1, <2>2 DEF Behind
    <3> QED BY <3>2, <3>3
  <2>5. CatalogueSoFar'
    BY <1>1, <2>1, <2>4, NoneFound DEF SsInv
  <2> QED BY <2>2, <2>3, <2>5 DEF SsInv, Answers
<1> QED BY <1>2, <1>3, <1>4

\* The software modes of a remote, and the next channel.
LEMMA ModesSs ==
  ASSUME SsInv, Mode \/ SetMode \/ ModeIsSet \/ Stray, job' = job
  PROVE  SsInv'
<1> USE DEF ReadingList, Switching, Entering, Between, Handshakes
<1>1. /\ Where = pc /\ ~Pending /\ job = "sserial pins" /\ hm2 /\ cmd = None
      /\ Where \in {"mode", "set mode", "mode is set", "stray"}
      /\ UNCHANGED <<entry, verbose, found>> /\ nv = {} /\ nv' = nv /\ setup' = setup
      /\ channel \in DOMAIN Remotes
  BY AtPlace DEF Mode, SetMode, Ask, ProgramUnchanged, ModeIsSet, Stray, Send, NoCommand,
                 SsInv, Remote, NvSelected
<1>2. channel \in Nat /\ channel < width
  BY <1>1, Channels
<1>3. modes \in Nat /\ stray \in 0 .. MaxStray /\ MaxStray \in Nat
  BY Channels DEF SsInv, Remote
<1>4. CASE channel' = channel + 1
  <2>1. Goto("channel") /\ NoCommand /\ UNCHANGED <<modes, stray>>
    <3>1. channel' # channel
      BY <1>2, <1>4
    <3> QED BY <1>1, <3>1 DEF Mode, NextChannel, SetMode, Ask, ProgramUnchanged, ModeIsSet, Stray
  <2>2. Handshake' /\ Where' = "channel"
    BY <1>1, <2>1, GoOn DEF NoCommand, SsInv, Places
  <2>3. Remote'
    <3>1. channel + 1 \in 0 .. width
      BY <1>2, Channels
    <3> QED BY <1>1, <1>4, <2>1, <2>2, <3>1 DEF SsInv, Remote, NvSelected
  <2>4. \A r \in Catalogue : Behind(r.ch, r.at)' <=> Behind(r.ch, r.at)
    <3>1. \A m \in Nat : m < channel + 1 <=> m <= channel
      BY <1>2
    <3>2. \A r \in Catalogue : r.ch < channel + 1 <=> r.ch <= channel
      BY <3>1, Listed
    <3>3. \A c, e : (Behind(c, e)' <=> c < channel + 1) /\ (Behind(c, e) <=> c <= channel)
      BY <1>1, <1>4, <2>2 DEF Behind
    <3> QED BY <3>2, <3>3
  <2>5. CatalogueSoFar'
    BY <1>1, <2>4, NoneFound DEF SsInv
  <2> QED BY <2>2, <2>3, <2>5 DEF SsInv, Answers
<1>5. CASE channel' = channel
  <2>1. /\ Handshake' /\ Where' \in {"mode", "set mode", "mode is set", "stray"}
        /\ modes' \in Nat /\ stray' \in 0 .. MaxStray
        /\ Where' \in {"set mode", "mode is set", "stray"} => modes' > 0
    <3>1. CASE Mode
      <4>1. /\ modes > 0 /\ Send([do |-> "stop", ch |-> channel], "set mode")
            /\ UNCHANGED <<modes, stray>>
        <5>1. ~(channel' = channel + 1)
          BY <1>2, <1>5
        <5> QED BY <3>1, <5>1 DEF Mode, NextChannel
      <4>2. Handshake' /\ Where' = "set mode"
        <5>1. Command("set mode", channel', entry') = [do |-> "stop", ch |-> channel]
          BY <1>5 DEF Command
        <5> QED BY <1>1, <4>1, <5>1, SendCommand DEF SsInv, Places
      <4> QED BY <1>3, <4>1, <4>2
    <3>2. CASE SetMode
      <4>1. /\ Send([do |-> "setup", ch |-> channel, again |-> TRUE], "mode is set")
            /\ UNCHANGED <<modes, stray>> /\ Where = "set mode"
        BY <1>1, <3>2 DEF SetMode, Ask, ProgramUnchanged
      <4>2. Handshake' /\ Where' = "mode is set"
        <5>1. Command("mode is set", channel', entry')
                = [do |-> "setup", ch |-> channel, again |-> TRUE]
          BY <1>5 DEF Command
        <5> QED BY <1>1, <4>1, <5>1, SendCommand DEF SsInv, Places
      <4>3. modes > 0
        BY <4>1 DEF SsInv, Remote
      <4> QED BY <1>3, <4>1, <4>2, <4>3
    <3>3. CASE (ModeIsSet \/ Stray) /\ pc' = "mode"
      <4>1. Goto("mode") /\ cmd' = None /\ modes' = modes - 1 /\ stray' = stray
        BY <1>1, <3>3 DEF ModeIsSet, Stray, Send, Goto, NoCommand
      <4>2. Handshake' /\ Where' = "mode"
        BY <1>1, <4>1, GoOn DEF SsInv, Places
      <4>3. modes > 0
        BY <1>1, <3>3 DEF ModeIsSet, Stray, SsInv, Remote
      <4>4. modes - 1 \in Nat
        BY <1>3, <4>3
      <4> QED BY <1>3, <4>1, <4>2, <4>4
    <3>4. CASE ModeIsSet /\ pc' # "mode"
      <4>1. Goto("stray") /\ cmd' = None /\ stray' \in 0 .. MaxStray /\ modes' = modes
        BY <1>1, <3>4 DEF ModeIsSet, Goto, NoCommand
      <4>2. Handshake' /\ Where' = "stray"
        BY <1>1, <4>1, GoOn DEF SsInv, Places
      <4>3. modes > 0
        BY <1>1, <3>4 DEF ModeIsSet, SsInv, Remote
      <4> QED BY <1>3, <4>1, <4>2, <4>3
    <3>5. CASE Stray /\ pc' # "mode"
      <4>1. stray > 0 /\ stray' = stray - 1 /\ Send([do |-> "stray"], "stray") /\ modes' = modes
        BY <1>1, <3>5 DEF Stray, Goto
      <4>2. Handshake' /\ Where' = "stray"
        <5>1. Command("stray", channel', entry') = [do |-> "stray"]
          BY DEF Command
        <5> QED BY <1>1, <4>1, <5>1, SendCommand DEF SsInv, Places
      <4>3. modes > 0
        BY <1>1, <3>5 DEF Stray, SsInv, Remote
      <4>4. stray - 1 \in 0 .. MaxStray
        BY <1>3, <4>1
      <4> QED BY <1>3, <4>1, <4>2, <4>3, <4>4
    <3> QED BY <3>1, <3>2, <3>3, <3>4, <3>5
  <2>2. Remote'
    BY <1>1, <1>5, <2>1 DEF SsInv, Remote, NvSelected
  <2>3. \A c, e : Behind(c, e)' <=> Behind(c, e)
    BY <1>1, <1>5, <2>1 DEF Behind
  <2>4. CatalogueSoFar'
    BY <1>1, <2>3, NoneFound DEF SsInv
  <2> QED BY <2>1, <2>2, <2>4 DEF SsInv, Answers
<1>6. channel' \in {channel, channel + 1}
  BY DEF Mode, NextChannel, SetMode, Ask, ProgramUnchanged, ModeIsSet, Stray
<1> QED BY <1>4, <1>5, <1>6

LEMMA SsNext == SsInv /\ [Next]_vars => SsInv'
<1> SUFFICES ASSUME SsInv, [Next]_vars PROVE SsInv'
  OBVIOUS
<1>1. CASE Process
  <2>1. job' = job
    BY <1>1 DEF Process
  <2>2. CASE (read_idrom(FirstOf(job)) \/ EnableAll \/ SafeIo \/ EncoderPins) /\ UNCHANGED ssVars
    BY <2>1, <2>2, PinsSs
  <2>3. CASE sserial_module_init
    <3>1. CASE EnablePinsFirst \/ NoSserial \/ DisablePinsLast
      <4>1. UNCHANGED ssVars
        BY <3>1 DEF EnablePinsFirst, NoSserial, DisablePinsLast
      <4> QED BY <2>1, <3>1, <4>1, PinsSs
    <3> QED BY <2>1, <2>3, <3>1, EnteringSs, ChannelsSs, ListSs, RecordSs, ValueSs, ModesSs
            DEF sserial_module_init
  <2> QED BY <1>1, <2>2, <2>3 DEF Process
<1>2. CASE Processor
  BY <1>2, ProcessorSs
<1>3. CASE Encoding \/ UNCHANGED vars
  <2>1. UNCHANGED <<ssVars, job, pinVars>>
    BY <1>3 DEF Encoding, vars
  <2>2. UNCHANGED <<cmd, answer, setup, nv, next, channel, entry, modes, stray, verbose, found,
                    job, hm2, pc>>
    BY <2>1 DEF ssVars, pinVars
  <2>3. Where' = Where /\ (Pending' <=> Pending)
    BY <2>2 DEF Where, Pending
  <2>4. Handshake'
    BY <2>2, <2>3 DEF SsInv, Handshake
  <2>5. Remote'
    BY <2>2, <2>3 DEF SsInv, Remote, NvSelected
  <2>6. Answers'
    <3>1. Kind' = Kind /\ (IsRead(Kind)' <=> IsRead(Kind))
      BY <2>2 DEF Kind, IsRead
    <3> QED BY <2>2, <2>3, <3>1 DEF SsInv, Answers
  <2>7. \A c, e : Behind(c, e)' <=> Behind(c, e)
    BY <2>2, <2>3 DEF Behind
  <2>8. CatalogueSoFar'
    BY <2>2, <2>7, NoneFound DEF SsInv
  <2> QED BY <2>4, <2>5, <2>6, <2>8 DEF SsInv
<1> QED BY <1>1, <1>2, <1>3 DEF Next

\* sserial_module_init: when it ends, each parameter of each remote has been
\* read once from the memory that it is kept in, and no remote is left with
\* its non-volatile memory selected.
THEOREM CardCatalogueComplete == Spec => []CatalogueComplete
<1>1. SsInv => CatalogueComplete
  <2> SUFFICES ASSUME SsInv, Ended("sserial pins") PROVE found = Catalogue /\ nv = {}
    BY DEF CatalogueComplete
  <2>1. job = "sserial pins" /\ Where = "done" /\ hm2
    BY DEF Ended, found_module, Where
  <2>2. \A c, e : Behind(c, e)
    BY <2>1 DEF Behind
  <2> QED BY <2>1, <2>2 DEF SsInv, CatalogueSoFar, Remote, NvSelected
<1> QED BY <1>1, SsInit, SsNext, PTL DEF Spec

-----------------------------------------------------------------------------
(* The loops over ports and pins *)

OfSserial == Entering \cup Between \cup ReadingList \cup Switching

PinLoop ==
  /\ alt \in [Ports -> SUBSET Bits] /\ firmware \in BOOLEAN /\ hm2 \in BOOLEAN
  /\ pin \in 0 .. NumPins \cup {2}
  /\ Where \in {"enable alt", "safe"} => pin <= io_ports
  /\ Where \in {"enable pins", "encoder pins"} => pin <= NumPins
  /\ Where \in {"sserial pins", "sserial off"} => pin <= 2
  /\ Where \in {"idrom"} \cup (OfSserial \ {"sserial pins", "sserial off"}) => pin = 0

\* What each job has done to the ports and pins that it has been through.
PortsDone ==
  /\ Where = "safe" => \A p \in Ports : p < pin => ddr[p] = {} /\ alt[p] = {}
  /\ Where = "enable alt" => \A p \in Ports : p < pin => alt[p] = Bits
  /\ Where = "enable pins" => \A p \in Ports :
       alt[p] = Bits /\ \A b \in Outputs(p) : p * port_width + b < pin => b \in ddr[p]
  /\ Where = "sserial off" => \A p \in Ports \cap 0 .. 1 : p < pin => ddr[p] = {} /\ alt[p] = {}

PinInv == PinLoop /\ PortsDone /\ PinsLeft

LEMMA PinNumbers ==
  /\ io_ports \in Nat /\ port_width \in Nat /\ NumPins \in Nat /\ io_ports <= NumPins
  /\ NumPins >= 1 /\ io_ports >= 1
  /\ \A p \in Ports, b \in Bits :
       p * port_width + b \in Nat /\ p * port_width + b < NumPins
<1>1. io_ports \in Nat \ {0} /\ port_width \in Nat \ {0}
  BY PinsAssumption
<1> DEFINE n == io_ports - 1
           w == port_width - 1
<1>2. n \in Nat /\ w \in Nat /\ io_ports = n + 1 /\ port_width = w + 1
  BY <1>1
<1>3. NumPins = n * w + n + w + 1 /\ n * w \in Nat
  BY <1>2 DEF NumPins
<1>4. NumPins \in Nat /\ io_ports <= NumPins /\ NumPins >= 1 /\ io_ports >= 1
  <2> HIDE DEF n, w
  <2> QED BY <1>2, <1>3
<1>5. ASSUME NEW p \in Ports, NEW b \in Bits
      PROVE  p * port_width + b \in Nat /\ p * port_width + b < NumPins
  <2>1. p \in Nat /\ p <= n /\ b \in Nat /\ b <= w
    BY <1>1 DEF Ports, Bits
  <2> HIDE DEF n, w
  <2>2. p * port_width = p * w + p /\ p * w \in Nat
    BY <1>2, <2>1
  <2>3. p * w <= n * w
    BY <1>2, <2>1
  <2> QED BY <1>2, <1>3, <2>1, <2>2, <2>3
<1> QED BY <1>1, <1>4, <1>5

LEMMA AtZero ==
  /\ 0 <= 2 /\ 0 <= NumPins /\ 0 <= io_ports /\ 0 \in 0 .. NumPins
  /\ \A p \in Ports : ~(p < 0)
<1>1. 0 <= 2 /\ 0 <= NumPins /\ 0 <= io_ports /\ 0 \in 0 .. NumPins
  BY PinNumbers
<1>2. \A p \in Ports : ~(p < 0)
  BY PinNumbers DEF Ports
<1> QED BY <1>1, <1>2

\* A step of the remotes leaves the pins alone.
LEMMA RemotesPins ==
  ASSUME PinInv, job = "sserial pins", UNCHANGED <<job, ddr, alt, pin, firmware, hm2>>,
         pin = 0, Where' \in (OfSserial \cup {"killed"}) \ {"sserial pins"},
         pc' \in OfSserial \cup {"wait", "killed"}
  PROVE  PinInv'
<1> USE DEF OfSserial, Entering, Between, ReadingList, Switching
<1>1. PinLoop'
  BY AtZero DEF PinInv, PinLoop
<1>3. PortsDone'
  BY AtZero DEF PortsDone
<1>4. PinsLeft'
  BY DEF PinsLeft, Ended
<1> QED BY <1>1, <1>3, <1>4 DEF PinInv

LEMMA InitPins == Init => PinInv
<1> SUFFICES ASSUME Init PROVE PinInv
  OBVIOUS
<1>1. Where = "idrom" /\ pc = "idrom" /\ pin = 0
  BY DEF Init, Where
<1>2. alt \in [Ports -> SUBSET Bits] /\ firmware \in BOOLEAN /\ hm2 \in BOOLEAN
  BY DEF Init
<1>4. PinLoop
  BY <1>1, <1>2, AtZero DEF PinLoop
<1> QED BY <1>1, <1>4 DEF PinInv, PortsDone, PinsLeft, Ended

\* The first step of a job.
LEMMA IdromPins ==
  ASSUME SsInv, PinInv, read_idrom(FirstOf(job)), UNCHANGED job
  PROVE  PinInv'
<1>1. /\ pc' = FirstOf(job) /\ pin' = 0 /\ UNCHANGED <<ddr, alt, firmware>> /\ hm2' = firmware
      /\ job \in Jobs
  BY DEF read_idrom, SsInv, Handshake
<1>2. pc' \in {"enable alt", "safe", "sserial pins", "encoder pins"} /\ Where' = pc'
  BY <1>1 DEF FirstOf, Jobs, Where
<1>4. PinLoop'
  BY <1>1, <1>2, AtZero DEF PinInv, PinLoop
<1>6. PortsDone'
  BY <1>1, <1>2, AtZero DEF PortsDone
<1> QED BY <1>2, <1>4, <1>6 DEF PinInv, PinsLeft, Ended

\* A job without a module.
LEMMA NoModulePins ==
  ASSUME SsInv, PinInv, UNCHANGED job,
         NoModule("enable alt") \/ NoModule("safe") \/ EncoderRefused \/ NoSserial
  PROVE  PinInv'
<1>1. /\ pc' \in {"killed", "done"} /\ Where' = pc' /\ ~hm2
      /\ UNCHANGED <<ddr, alt, pin, firmware, hm2>>
  BY DEF NoModule, EncoderRefused, NoSserial, Goto, Where, found_module
<1>2. PinLoop'
  BY <1>1 DEF PinInv, PinLoop, OfSserial, Entering, Between, ReadingList, Switching
<1> QED BY <1>1, <1>2 DEF PinInv, PortsDone, PinsLeft, Ended, found_module

\* A port is written; the others keep what they have.
LEMMA WritePort ==
  ASSUME NEW register \in [Ports -> SUBSET Bits], NEW p \in Ports, NEW value \in SUBSET Bits
  PROVE  /\ Write(register, p, value) \in [Ports -> SUBSET Bits]
         /\ Write(register, p, value)[p] = value
         /\ \A q \in Ports : q # p => Write(register, p, value)[q] = register[q]
BY DEF Write

\* The loops count on.
LEMMA PinSteps ==
  /\ \A n \in 0 .. NumPins \cup {2} : n \in Nat
  /\ \A n \in Nat, m \in Nat : n < m => n + 1 <= m
  /\ \A n \in Nat, m \in Nat : n < m + 1 => n < m \/ n = m
  /\ \A n \in Nat : n <= NumPins => n \in 0 .. NumPins \cup {2}
  /\ \A n \in Nat : n <= io_ports => n \in 0 .. NumPins \cup {2}
  /\ \A n \in Nat : n <= 2 => n \in 0 .. NumPins \cup {2}
<1>1. NumPins \in Nat /\ NumPins >= 1 /\ io_ports \in Nat /\ io_ports <= NumPins
  BY PinNumbers
<1> QED BY <1>1

LEMMA TwoPorts ==
  /\ \A n \in Nat : \A p \in Ports \cap 0 .. 1 : p < n + 1 => p < n \/ p = n
  /\ \A n \in Nat : ~(n < 2) => \A p \in 0 .. 1 : p < n
OBVIOUS

LEMMA LoopBounds ==
  /\ \A n \in Nat : n < io_ports => n \in Ports /\ n + 1 \in Nat /\ n + 1 <= io_ports
  /\ \A n \in Nat : n < NumPins => n + 1 \in Nat /\ n + 1 <= NumPins
  /\ \A n \in Nat : ~(n < io_ports) => \A p \in Ports : p < n
  /\ \A n \in Nat : ~(n < NumPins) => \A p \in Ports, b \in Bits : p * port_width + b < n
<1>1. NumPins \in Nat /\ io_ports \in Nat
  BY PinNumbers
<1>2. /\ \A n \in Nat : n < io_ports => n \in Ports /\ n + 1 \in Nat /\ n + 1 <= io_ports
      /\ \A n \in Nat : ~(n < io_ports) => \A p \in Ports : p < n
  BY <1>1 DEF Ports
<1>3. /\ \A n \in Nat : n < NumPins => n + 1 \in Nat /\ n + 1 <= NumPins
      /\ \A n, m \in Nat : ~(n < NumPins) /\ m < NumPins => m < n
  BY <1>1
<1> QED BY <1>2, <1>3, PinNumbers

\* hm2_enable_all_module_outputs, a step.
LEMMA EnableAltPins ==
  ASSUME SsInv, PinInv, EnableAlt, UNCHANGED job
  PROVE  PinInv'
<1>1. /\ pc = "enable alt" /\ Where = "enable alt" /\ hm2' = hm2 /\ firmware' = firmware
      /\ pin \in Nat /\ pin <= io_ports /\ ddr' = ddr
      /\ \A p \in Ports : p < pin => alt[p] = Bits
  BY PinSteps DEF EnableAlt, Goto, Where, PinInv, PinLoop, PortsDone
<1>2. CASE pin < io_ports
  <2>1. /\ alt' = Write(alt, pin, Bits) /\ pin' = pin + 1 /\ pc' = "enable alt"
        /\ Where' = "enable alt"
    BY <1>1, <1>2 DEF EnableAlt, Goto, Where
  <2>2. pin \in Ports /\ pin + 1 \in Nat /\ pin + 1 <= io_ports
    BY <1>1, <1>2, LoopBounds
  <2>3. /\ alt' \in [Ports -> SUBSET Bits] /\ alt'[pin] = Bits
        /\ \A q \in Ports : q # pin => alt'[q] = alt[q]
    <3>1. alt \in [Ports -> SUBSET Bits]
      BY DEF PinInv, PinLoop
    <3> QED BY <2>1, <2>2, <3>1 DEF Write
  <2>4. PinLoop'
    BY <1>1, <2>1, <2>2, <2>3, PinSteps DEF PinInv, PinLoop, OfSserial, Entering, Between,
       ReadingList, Switching
  <2>5. \A p \in Ports : p < pin + 1 => alt'[p] = Bits
    <3>1. \A p \in Ports : p \in Nat
      BY PinNumbers DEF Ports
    <3>2. \A p \in Ports : p < pin + 1 => p = pin \/ p < pin
      BY <1>1, <3>1, PinSteps
    <3> QED BY <1>1, <2>3, <3>2
  <2>6. PortsDone'
    BY <2>1, <2>5 DEF PortsDone
  <2> QED BY <2>1, <2>4, <2>6 DEF PinInv, PinsLeft, Ended
<1>3. CASE ~(pin < io_ports)
  <2>1. pin' = 0 /\ pc' = "enable pins" /\ Where' = "enable pins" /\ alt' = alt
    BY <1>1, <1>3 DEF EnableAlt, Goto, Where
  <2>2. PinLoop'
    BY <1>1, <2>1, AtZero DEF PinInv, PinLoop, OfSserial, Entering, Between, ReadingList, Switching
  <2>3. \A p \in Ports : alt[p] = Bits
    <3>1. \A p \in Ports : p < pin
      BY <1>1, <1>3, LoopBounds
    <3> QED BY <1>1, <3>1
  <2>4. \A p \in Ports, b \in Bits : ~(p * port_width + b < 0)
    BY PinNumbers
  <2>5. PortsDone'
    BY <2>1, <2>3, <2>4 DEF PortsDone, Outputs
  <2> QED BY <2>1, <2>2, <2>5 DEF PinInv, PinsLeft, Ended
<1> QED BY <1>2, <1>3

LEMMA EnablePinsPins ==
  ASSUME SsInv, DdrInv, DdrInv', PinInv, EnablePins, UNCHANGED job
  PROVE  PinInv'
<1>1. /\ pc = "enable pins" /\ Where = "enable pins" /\ hm2' = hm2 /\ firmware' = firmware
      /\ pin \in Nat /\ pin <= NumPins /\ alt' = alt
      /\ \A p \in Ports :
           alt[p] = Bits /\ \A b \in Outputs(p) : p * port_width + b < pin => b \in ddr[p]
  BY PinSteps DEF EnablePins, Goto, Where, PinInv, PinLoop, PortsDone
<1>2. CASE pin < NumPins
  <2>1. pin' = pin + 1 /\ pc' = "enable pins" /\ Where' = "enable pins"
    BY <1>1, <1>2 DEF EnablePins, Goto, Where
  <2>2. pin + 1 \in Nat /\ pin + 1 <= NumPins
    BY <1>1, <1>2, LoopBounds
  <2>3. PinLoop'
    BY <1>1, <2>1, <2>2, PinSteps DEF PinInv, PinLoop, OfSserial, Entering, Between,
       ReadingList, Switching
  <2>4. ASSUME NEW p \in Ports, NEW b \in Outputs(p), p * port_width + b < pin + 1
        PROVE  b \in ddr'[p]
    <3>1. b \in Bits /\ p * port_width + b \in Nat
      BY PinNumbers DEF Outputs
    <3>2. ddr[p] \subseteq ddr'[p]
      <4>1. CASE Drives(pin)
        BY <1>1, <1>2, <4>1 DEF EnablePins, set_pin_direction, Write, DdrInv, DdrTypeOK
      <4>2. CASE ~Drives(pin)
        BY <1>1, <1>2, <4>2 DEF EnablePins
      <4> QED BY <4>1, <4>2
    <3>3. CASE p * port_width + b < pin
      BY <1>1, <3>2, <3>3
    <3>4. CASE p * port_width + b = pin
      <4>1. Drives(pin)
        BY <3>4 DEF Drives, Outputs
      <4>2. PortOf(pin) = p /\ BitOf(pin) = b
        BY <3>1, <3>4, PortAndBitOfPin
      <4> QED BY <1>1, <1>2, <4>1, <4>2 DEF EnablePins, set_pin_direction, Write, DdrInv, DdrTypeOK
    <3> QED BY <1>1, <2>4, <3>1, <3>3, <3>4, PinSteps
  <2>5. PortsDone'
    BY <1>1, <2>1, <2>4 DEF PortsDone, Outputs
  <2> QED BY <2>1, <2>3, <2>5 DEF PinInv, PinsLeft, Ended
<1>3. CASE ~(pin < NumPins)
  <2>1. pin' = pin /\ pc' = "done" /\ Where' = "done" /\ ddr' = ddr
    BY <1>1, <1>3 DEF EnablePins, Goto, Where
  <2>2. PinLoop'
    BY <1>1, <2>1 DEF PinInv, PinLoop, OfSserial, Entering, Between, ReadingList, Switching
  <2>3. \A p \in Ports, b \in Bits : p * port_width + b < pin
    BY <1>1, <1>3, LoopBounds
  <2>4. \A p \in Ports : ddr[p] = Outputs(p) /\ alt[p] = Bits
    BY <1>1, <2>3 DEF DdrInv, OnlyOutputsDriven, Outputs
  <2>5. job = "enable all"
    BY <1>1 DEF SsInv, Handshake, Places, Jobs, EnablingPins, Entering, Between, ReadingList,
       Switching
  <2>6. PinsLeft'
    BY <1>1, <2>1, <2>4, <2>5 DEF PinsLeft, Ended, Outputs
  <2> QED BY <2>1, <2>2, <2>6 DEF PinInv, PortsDone
<1> QED BY <1>2, <1>3

\* hm2_safe_io, a port.
LEMMA SafePins ==
  ASSUME SsInv, DdrInv, DdrInv', PinInv, SafePort, UNCHANGED job
  PROVE  PinInv'
<1>1. /\ pc = "safe" /\ Where = "safe" /\ hm2' = hm2 /\ firmware' = firmware
      /\ pin \in Nat /\ pin <= io_ports
      /\ \A p \in Ports : p < pin => ddr[p] = {} /\ alt[p] = {}
  BY PinSteps DEF SafePort, Goto, Where, PinInv, PinLoop, PortsDone
<1>2. CASE pin < io_ports
  <2>1. /\ alt' = Write(alt, pin, {}) /\ ddr' = Write(ddr, pin, {}) /\ pin' = pin + 1
        /\ pc' = "safe" /\ Where' = "safe"
    BY <1>1, <1>2 DEF SafePort, SafeDdr, Goto, Where
  <2>2. pin \in Ports /\ pin + 1 \in Nat /\ pin + 1 <= io_ports
    BY <1>1, <1>2, LoopBounds
  <2>3. /\ alt' \in [Ports -> SUBSET Bits] /\ alt'[pin] = {}
        /\ \A q \in Ports : q # pin => alt'[q] = alt[q]
    <3>1. {} \in SUBSET Bits /\ alt \in [Ports -> SUBSET Bits]
      BY DEF PinInv, PinLoop
    <3> QED BY <2>1, <2>2, <3>1, WritePort
  <2>4. ddr'[pin] = {} /\ \A q \in Ports : q # pin => ddr'[q] = ddr[q]
    <3>1. {} \in SUBSET Bits /\ ddr \in [Ports -> SUBSET Bits]
      BY DEF DdrInv, DdrTypeOK
    <3> QED BY <2>1, <2>2, <3>1, WritePort
  <2>5. PinLoop'
    BY <1>1, <2>1, <2>2, <2>3, PinSteps DEF PinInv, PinLoop, OfSserial, Entering, Between,
       ReadingList, Switching
  <2>6. \A p \in Ports : p < pin + 1 => ddr'[p] = {} /\ alt'[p] = {}
    <3>1. \A p \in Ports : p \in Nat
      BY PinNumbers DEF Ports
    <3> QED BY <1>1, <2>3, <2>4, <3>1, PinSteps
  <2>7. PortsDone'
    BY <2>1, <2>6 DEF PortsDone
  <2> QED BY <2>1, <2>5, <2>7 DEF PinInv, PinsLeft, Ended
<1>3. CASE ~(pin < io_ports)
  <2>1. pin' = pin /\ pc' = "done" /\ Where' = "done" /\ ddr' = ddr /\ alt' = alt
    BY <1>1, <1>3 DEF SafePort, Goto, Where
  <2>2. PinLoop'
    BY <1>1, <2>1 DEF PinInv, PinLoop, OfSserial, Entering, Between, ReadingList, Switching
  <2>3. \A p \in Ports : p < pin
    BY <1>1, <1>3, LoopBounds
  <2>4. job = "safe"
    BY <1>1 DEF SsInv, Handshake, Places, Jobs, EnablingPins, Entering, Between, ReadingList,
       Switching
  <2>5. PinsLeft'
    BY <1>1, <2>1, <2>3, <2>4 DEF PinsLeft, Ended
  <2> QED BY <2>1, <2>2, <2>5 DEF PinInv, PortsDone
<1> QED BY <1>2, <1>3

\* enable_encoder_pins, a pin.
LEMMA EncoderPinsPins ==
  ASSUME SsInv, PinInv, EncoderPin, UNCHANGED job
  PROVE  PinInv'
<1>1. /\ pc = "encoder pins" /\ Where = "encoder pins" /\ hm2' = hm2 /\ firmware' = firmware
      /\ pin \in Nat /\ pin <= NumPins
  BY PinSteps DEF EncoderPin, Goto, Where, PinInv, PinLoop
<1>2. job = "encoder pins"
  BY <1>1 DEF SsInv, Handshake, Places, Jobs, EnablingPins, Entering, Between, ReadingList,
     Switching
<1>3. /\ \/ pc' = "encoder pins" /\ Where' = "encoder pins"
         \/ pc' = "encoder" /\ Where' = "encoder"
      /\ pin' \in Nat /\ pin' <= NumPins
  <2>1. CASE pin < NumPins
    <3>1. pin' = pin + 1 /\ pc' = "encoder pins" /\ Where' = "encoder pins"
      BY <1>1, <2>1 DEF EncoderPin, Goto, Where
    <3> QED BY <1>1, <2>1, <3>1, LoopBounds
  <2>2. CASE ~(pin < NumPins)
    BY <1>1, <2>2 DEF EncoderPin, Goto, Where
  <2> QED BY <2>1, <2>2
<1>4. alt' \in [Ports -> SUBSET Bits]
  <2>1. alt \in [Ports -> SUBSET Bits]
    BY DEF PinInv, PinLoop
  <2>2. alt' = alt \/ \E port, value : alt' = Write(alt, port, value \cap Bits)
    BY DEF EncoderPin, set_pin_source
  <2> QED BY <2>1, <2>2 DEF Write
<1>5. PinLoop'
  BY <1>1, <1>3, <1>4, PinSteps DEF PinInv, PinLoop, OfSserial, Entering, Between, ReadingList,
     Switching
<1> QED BY <1>2, <1>3, <1>5 DEF PinInv, PortsDone, PinsLeft, Ended

\* enable_sserial_pins and disable_sserial_pins, a port.
LEMMA SserialPinsPins ==
  ASSUME SsInv, DdrInv, PinInv, EnablePinsFirst \/ DisablePinsLast, UNCHANGED job
  PROVE  PinInv'
<1>1. /\ pc \in {"sserial pins", "sserial off"} /\ Where = pc /\ job = "sserial pins"
      /\ hm2 /\ hm2' = hm2 /\ firmware' = firmware
  BY AtPlace DEF EnablePinsFirst, DisablePinsLast, enable_sserial_pins, disable_sserial_pins,
     SserialPins, Goto, Entering, Between, SsInv, found_module
<1>2. pin \in Nat /\ pin <= 2
  BY <1>1, PinSteps DEF PinInv, PinLoop
<1>3. alt \in [Ports -> SUBSET Bits] /\ ddr \in [Ports -> SUBSET Bits]
  BY DEF PinInv, PinLoop, DdrInv, DdrTypeOK
<1>4. CASE pin < 2
  <2>1. PICK d \in SUBSET Bits, a \in SUBSET Bits :
          /\ ddr' = Write(ddr, pin, d) /\ alt' = Write(alt, pin, a)
          /\ pc = "sserial off" => d = {} /\ a = {}
    <3>1. SserialBits(pin, TRUE) \in SUBSET Bits /\ SserialBits(pin, FALSE) \in SUBSET Bits
      BY DEF SserialBits
    <3> QED BY <1>4, <3>1 DEF EnablePinsFirst, DisablePinsLast, enable_sserial_pins,
            disable_sserial_pins, SserialPins
  <2>2. pin' = pin + 1 /\ pc' = pc /\ Where' = pc
    BY <1>1, <1>4 DEF EnablePinsFirst, DisablePinsLast, enable_sserial_pins,
       disable_sserial_pins, SserialPins, Goto, Where
  <2>3. pin + 1 \in Nat /\ pin + 1 <= 2
    BY <1>2, <1>4
  <2>4. alt' \in [Ports -> SUBSET Bits]
    BY <1>3, <2>1 DEF Write
  <2>5. PinLoop'
    BY <1>1, <2>2, <2>3, <2>4, PinSteps DEF PinInv, PinLoop, OfSserial, Entering, Between,
       ReadingList, Switching
  <2>6. pc = "sserial off" =>
          \A p \in Ports \cap 0 .. 1 : p < pin + 1 => ddr'[p] = {} /\ alt'[p] = {}
    <3> SUFFICES ASSUME pc = "sserial off", NEW p \in Ports \cap 0 .. 1, p < pin + 1
                 PROVE  ddr'[p] = {} /\ alt'[p] = {}
      OBVIOUS
    <3>1. p < pin \/ p = pin
      BY <1>2, TwoPorts
    <3>2. CASE p = pin
      BY <1>3, <2>1, <3>2 DEF Write
    <3>3. CASE p < pin
      <4>1. ddr[p] = {} /\ alt[p] = {}
        BY <1>1, <3>3 DEF PinInv, PortsDone
      <4> QED BY <1>3, <2>1, <4>1 DEF Write
    <3> QED BY <3>1, <3>2, <3>3
  <2>7. PortsDone'
    BY <1>1, <2>2, <2>6 DEF PortsDone
  <2> QED BY <1>1, <2>2, <2>5, <2>7 DEF PinInv, PinsLeft, Ended
<1>5. CASE ~(pin < 2) /\ pc = "sserial pins"
  <2>1. pin' = 0 /\ pc' = "assert reset" /\ Where' = "assert reset" /\ alt' = alt
    BY <1>1, <1>5 DEF EnablePinsFirst, DisablePinsLast, enable_sserial_pins,
       disable_sserial_pins, SserialPins, Goto, Where
  <2>2. PinLoop'
    BY <1>1, <1>3, <2>1, AtZero DEF PinInv, PinLoop
  <2> QED BY <2>1, <2>2 DEF PinInv, PortsDone, PinsLeft, Ended
<1>6. CASE ~(pin < 2) /\ pc = "sserial off"
  <2>1. pin' = 0 /\ pc' = "done" /\ Where' = "done" /\ alt' = alt /\ ddr' = ddr
    BY <1>1, <1>6 DEF EnablePinsFirst, DisablePinsLast, enable_sserial_pins,
       disable_sserial_pins, SserialPins, Goto, Where
  <2>2. PinLoop'
    BY <1>1, <1>3, <2>1, AtZero DEF PinInv, PinLoop, OfSserial, Entering, Between, ReadingList,
       Switching
  <2>3. \A p \in 0 .. 1 : p < pin
    BY <1>2, <1>6, TwoPorts
  <2>4. \A p \in Ports \cap 0 .. 1 : ddr[p] = {} /\ alt[p] = {}
    BY <1>1, <1>6, <2>3 DEF PinInv, PortsDone
  <2>5. PinsLeft'
    BY <1>1, <2>1, <2>4 DEF PinsLeft, Ended
  <2> QED BY <2>1, <2>2, <2>5 DEF PinInv, PortsDone
<1> QED BY <1>1, <1>4, <1>5, <1>6

\* The steps of sserial_module_init in between.
LEMMA SserialStepsPins ==
  ASSUME SsInv, PinInv, sserial_module_init, ~EnablePinsFirst, ~DisablePinsLast, ~NoSserial,
         UNCHANGED job
  PROVE  PinInv'
<1> USE DEF OfSserial, Entering, Between, ReadingList, Switching
<1>1. UNCHANGED <<ddr, alt, pin, firmware, hm2>>
  BY DEF sserial_module_init, AssertReset, Locals, FirstChannel, Channel,
     IsThere, AskEntry, GotEntry, GotRecord, ReadNv, GotNv, GotValue, AdvanceEntry, Mode,
     SetMode, ModeIsSet, Stray, sslbp_wait_complete, Ask, Send, NoCommand, ReadsNv,
     ReadsRevision, CountsMode, NameTooLong, PassesOver, ToNextEntry, NextChannel, Goto
<1>2. CASE sslbp_wait_complete
  <2>1. pc = "wait" /\ Where = next /\ Where' = next /\ next \in Handshakes /\ pc' = next
    BY <1>2 DEF sslbp_wait_complete, Goto, Where, SsInv, Handshake, NoCommand, Handshakes
  <2>2. next \in OfSserial \ {"sserial pins", "sserial off"}
    BY <2>1 DEF Handshakes
  <2>3. pin = 0
    BY <2>1, <2>2 DEF PinInv, PinLoop
  <2>4. job = "sserial pins"
    BY <2>1 DEF SsInv, Handshake, Places, Jobs, EnablingPins, Handshakes
  <2> QED BY <1>1, <2>1, <2>2, <2>3, <2>4, RemotesPins
<1>3. CASE ~sslbp_wait_complete
  <2>1. /\ pc \in OfSserial \ {"sserial pins", "sserial off"}
        /\ \/ pc' = "wait" /\ next' \in Handshakes
           \/ pc' \in (OfSserial \cup {"killed"}) \ {"sserial pins"}
    BY <1>3 DEF sserial_module_init, AssertReset, Locals, FirstChannel, Channel,
       IsThere, AskEntry, GotEntry, GotRecord, ReadNv, GotNv, GotValue, AdvanceEntry, Mode,
       SetMode, ModeIsSet, Stray, Ask, Send, ReadsNv,
       ReadsRevision, CountsMode, NameTooLong, PassesOver, ToNextEntry, NextChannel, Goto, Handshakes
  <2>2. Where = pc /\ job = "sserial pins" /\ pin = 0
    BY <2>1, AtPlace DEF SsInv, PinInv, PinLoop
  <2>3. /\ Where' \in (OfSserial \cup {"killed"}) \ {"sserial pins"}
        /\ pc' \in OfSserial \cup {"wait", "killed"}
    BY <2>1 DEF Where, Handshakes
  <2> QED BY <1>1, <2>2, <2>3, RemotesPins
<1> QED BY <1>2, <1>3

LEMMA NextPins == SsInv /\ DdrInv /\ DdrInv' /\ PinInv /\ [Next]_vars => PinInv'
<1> SUFFICES ASSUME SsInv, DdrInv, DdrInv', PinInv, [Next]_vars PROVE PinInv'
  OBVIOUS
<1>1. CASE Process
  <2>1. job' = job
    BY <1>1 DEF Process
  <2>2. CASE read_idrom(FirstOf(job))
    BY <2>1, <2>2, IdromPins
  <2>3. CASE EnableAll \/ SafeIo \/ EncoderPins
    BY <2>1, <2>3, NoModulePins, EnableAltPins, EnablePinsPins, SafePins, EncoderPinsPins
       DEF EnableAll, SafeIo, EncoderPins
  <2>4. CASE sserial_module_init
    BY <2>1, <2>4, NoModulePins, SserialPinsPins, SserialStepsPins
  <2> QED BY <1>1, <2>2, <2>3, <2>4 DEF Process
<1>2. CASE Processor \/ Encoding \/ UNCHANGED vars
  <2>1. UNCHANGED <<job, ddr, alt, firmware, hm2, pc, pin, next>>
    BY <1>2 DEF Processor, Execute, Encoding, vars, pinVars, ssVars
  <2>2. Where' = Where
    BY <2>1 DEF Where
  <2>3. PinLoop'
    BY <2>1, <2>2 DEF PinInv, PinLoop
  <2>4. PortsDone'
    BY <2>1, <2>2 DEF PinInv, PortsDone, Outputs
  <2>5. PinsLeft'
    BY <2>1 DEF PinInv, PinsLeft, Ended, found_module, Outputs
  <2> QED BY <2>3, <2>4, <2>5 DEF PinInv
<1> QED BY <1>1, <1>2 DEF Next

\* hm2_safe_io, hm2_enable_all_module_outputs, disable_sserial_pins: each job
\* ends with the pins as it promises.
THEOREM CardPinsLeft == Spec => []PinsLeft
<1>1. PinInv => PinsLeft
  BY DEF PinInv
<1> QED BY <1>1, InitDdr, NextDdr, SsInit, SsNext, InitPins, NextPins, PTL DEF Spec

\* All variables of the card keep to their values, and the reset of the sserial
\* processor is released before anything is asked of it.
THEOREM CardTypeCorrect == Spec => []TypeOK
<1>1. SsInv /\ DdrInv /\ PinInv => TypeOK
  <2> SUFFICES ASSUME SsInv, DdrInv, PinInv PROVE TypeOK
    OBVIOUS
  <2>1. PinsTypeOK
    BY DEF DdrInv, DdrTypeOK, PinInv, PinLoop, PinsTypeOK
  <2>2. nv \subseteq DOMAIN Remotes
    <3>1. NvSelected => Where \in ReadingList
      BY DEF NvSelected, ReadingList
    <3> QED BY <3>1 DEF SsInv, Remote
  <2>3. cmd.do = "reset" => pc = "release reset"
    <3>1. None.do # "reset"
      BY DEF None
    <3>2. next \in Handshakes => Command(next, channel, entry).do # "reset"
      BY DEF Command, Handshakes
    <3> QED BY <3>1, <3>2 DEF SsInv, Handshake
  <2> QED BY <2>1, <2>2, <2>3 DEF TypeOK, SserialTypeOK, SsInv, Remote, Handshake
<1> QED BY <1>1, InitDdr, NextDdr, SsInit, SsNext, InitPins, NextPins, PTL DEF Spec
=============================================================================
