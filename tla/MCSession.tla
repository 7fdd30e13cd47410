----------------------------- MODULE MCSession -----------------------------
(***************************************************************************)
(* Instances of Session for TLC: benches with one board whose FPGA is      *)
(* looked at (its holder), and the command lines given there.              *)
(***************************************************************************)
EXTENDS Session

Empty == [pci |-> <<>>, epp |-> "none", usb |-> "none", spi |-> "none", ser |-> "none",
          eth |-> "none", root |-> TRUE, holder |-> "none", empty |-> FALSE,
          line |-> [PROGRAM |-> 1, WRITE |-> 1, enabled |-> TRUE], lines |-> {}]

MCLongNames ==
  [n \in {"5I25T", "ETHERNET", "SPIDEV", "AUTO1", "7I43X"} |->
     CASE n = "5I25T" -> "5I25" [] n = "ETHERNET" -> "ETHER" [] n = "SPIDEV" -> "SPI"
       [] n = "AUTO1" -> "AUTO" [] n = "7I43X" -> "7I43"]

Plx905xLine == [PROGRAM |-> 1, WRITE |-> 0, enabled |-> FALSE]
EppLine == [PROGRAM |-> 1, WRITE |-> 0, enabled |-> TRUE]

Opt(name) == [name |-> name, arg |-> NULL]
With(name, arg) == [name |-> name, arg |-> arg]
Device(name) == <<With("device", name)>>
On(name, commands) == {Device(name) \o c : c \in commands}

Loads == {<<With("program", f)>> : f \in Files} \cup {<<Opt("reset")>>}
Reloading == {<<Opt("reload")>>, <<Opt("fallback"), Opt("reload")>>}

Plx9030Bench ==
  [Empty EXCEPT !.pci = <<"other", "5I20", "other">>, !.holder = "5I20", !.empty = TRUE,
                !.lines = On("5I20", Loads \cup {<<Opt("readhmid")>>, <<With("write", "good")>>})]

Plx905xBench ==
  [Empty EXCEPT !.pci = <<"3X20">>, !.holder = "3X20", !.empty = TRUE, !.line = Plx905xLine,
                !.lines = On("3X20", Loads \cup {<<With("verify", "good")>>,
                                                 <<With("backup-flash", "good")>>})]

PciWrites ==
  {<<With("write", "good"), Opt("reload")>>, <<With("write", "good"), Opt("no-auto-verify")>>,
   <<With("write", "good")>>, <<With("backup-flash", "good")>>,
   <<With("restore-flash", "good")>>, <<With("verify", "good")>>,
   <<Opt("readhmid"), With("write", "good")>>, <<With("write", "toolong")>>,
   <<With("write", "good"), With("restore-flash", "bad")>>,
   <<With("restore-flash", "good"), Opt("no-auto-verify")>>}

PciBench ==
  [Empty EXCEPT !.pci = <<"XIO2001", "5I25">>, !.holder = "5I25",
                !.lines = On("5I25", Reloading \cup PciWrites \cup {<<With("program", "good")>>})
                            \cup On("RECOVER", {<<Opt("recover"), With("write", "good")>>,
                                                <<With("write", "good")>>,
                                                <<Opt("recover"), Opt("rpo")>>})]

EfinixBench ==
  [Empty EXCEPT !.pci = <<"5I25T">>, !.holder = "5I25T",
                !.lines = On("5I25", Reloading) \cup On("5I25T", Reloading)]

EppBench ==
  [Empty EXCEPT !.epp = "7I43", !.holder = "7I43", !.empty = TRUE, !.line = EppLine,
                !.lines = On("7I43", {<<Opt("epp")>> \o c : c \in Loads \cup {<<Opt("readhmid")>>}}
                                       \cup {<<Opt("readhmid")>>, <<Opt("epp"), Opt("usb")>>})]

EppioBench ==
  [Empty EXCEPT !.epp = "eppio", !.holder = "7I43", !.line = EppLine,
                !.lines = On("7I43", {<<Opt("epp"), With("program", "good")>>,
                                      <<Opt("epp"), With("write", "good")>>})]

At == With("addr", "there")
SpiBench ==
  [Empty EXCEPT !.spi = "7C81", !.holder = "7C81",
                !.lines = On("7C81", {<<At, Opt("spi")>> \o c : c \in Reloading}
                                       \cup {<<Opt("spi"), Opt("reload")>>})
                            \cup On("SPI", {<<At, Opt("reload")>>})
                            \cup On("SPIDEV", {<<At, Opt("reload")>>})
                            \cup On("AUTO1", {<<At, Opt("spi"), Opt("reload")>>})
                            \cup On("AUTO", {<<At, Opt("spi"), Opt("safe-io")>>})]

EthBench ==
  [Empty EXCEPT !.eth = "7I92T", !.holder = "7I92T", !.root = FALSE, !.line = EppLine,
                !.lines = On("7I92T", {<<At>> \o c : c \in Reloading}
                                        \cup {<<At, Opt("reset")>>, <<At, With("set", "ip")>>,
                                              <<At, With("set", "other")>>, <<Opt("reset")>>,
                                              <<At, With("wpo", "0=0")>>})
                            \cup On("ETHER", {<<At, With("set", "ledmode")>>})
                            \cup On("ETHERNET", {<<At, Opt("reload")>>, <<At, Opt("verbose")>>})
                            \cup On("5I25", {<<Opt("reload")>>})
                            \cup On("7C80", {<<Opt("epp")>>})]

SerialBench ==
  [Empty EXCEPT !.ser = "7I90HD", !.holder = "7I90HD",
                !.lines = On("7I90HD", {<<At, Opt("serial")>> \o c : c \in Reloading}
                                         \cup {<<Opt("serial")>>,
                                               <<At, Opt("serial"), Opt("verbose")>>,
                                               <<At, Opt("serial"), With("set", "ip")>>})]

UsbBench(there) ==
  [Empty EXCEPT !.usb = there, !.holder = "7I43",
                !.lines = On("7I43", {<<At, Opt("usb"), With("program", "good")>>, <<Opt("usb")>>,
                                      <<At, Opt("usb"), Opt("sserial")>>})
                            \cup On("7I64", {<<At, Opt("usb")>>})
                            \cup On("7I43X", {<<At, Opt("usb"), With("program", "good")>>})]

CrowdedBench ==
  [Empty EXCEPT !.pci = <<"other", "4I65", "4I65", "PLX8112", "other">>, !.holder = "4I65",
                !.lines = On("4I65", {<<>>, <<Opt("print-pd")>>}) \cup On("5I71", {<<>>})
                            \cup On("RECOVER", {<<Opt("recover")>>})]

\* An EPP port with nothing on it is taken for a 7I43.
OptionsBench ==
  [Empty EXCEPT !.line = EppLine, !.holder = "7I43", !.lines =
     {<<>>, <<Opt("help")>>, <<Opt("?")>>, <<With("info", "good")>>,
      <<With("write", "toolong"), With("device", "5I25")>>,
      <<With("device", "5I25"), With("write", "toolong"), Opt("epp")>>,
      <<With("write", "good"), With("write", "bad")>>,
      <<With("dbname", "known"), With("dbname", "unknown")>>,
      <<With("device", "5I25"), With("device", "5I25")>>}]

MCBenches ==
  {Plx9030Bench, Plx905xBench, PciBench, EfinixBench, EppBench, EppioBench, SpiBench, EthBench,
   SerialBench, UsbBench("7I43"), UsbBench("cpld"), UsbBench("7I64"), OptionsBench,
   CrowdedBench}

PlxBenches == {Plx9030Bench, Plx905xBench}
=============================================================================
