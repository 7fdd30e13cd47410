------------------------------- MODULE Sserial -------------------------------
(***************************************************************************)
(* sserial_module_init: the catalogue of the smart serial remotes of the   *)
(* first port.  Every access is a handshake with the processor of the      *)
(* sserial module: a command, and polling until its register reads 0.      *)
(* Values of several bytes take a handshake for each byte; here one for    *)
(* the value.  What is printed of a record is kept as found.               *)
(*                                                                         *)
(* External: that processor and the remotes, which hold a list of records  *)
(* and in their non-volatile memory other values than in RAM.              *)
(***************************************************************************)
EXTENDS HostMot2

CONSTANTS
  width,     \* channels of the port
  Remotes,   \* the remote at each channel that has one: its records by their kind
  MaxStray,  \* bound: records met from a stray address
  Deaf       \* channels whose remote does not answer once it was stopped

ASSUME RemotesAssumption ==
  /\ width \in Nat /\ MaxStray \in Nat
  /\ Remotes \in [DOMAIN Remotes -> Seq(STRING)]
  /\ DOMAIN Remotes \subseteq 0 .. width - 1 /\ Deaf \subseteq DOMAIN Remotes

VARIABLES
  cmd,       \* the command register: a command of the processor, or None
  answer,    \* its data and interface registers
  setup,     \* channels in setup mode
  nv,        \* channels whose remote gives access to its non-volatile memory
  next,      \* where the process goes on after a handshake
  channel, entry,
  modes,     \* sw_modes_cnt
  stray,     \* records still to come from a stray address
  verbose,
  found      \* what was printed: channel, record, memory that its value is from

ssVars == <<cmd, answer, setup, nv, next, channel, entry, modes, stray, verbose, found>>

None == [do |-> "none"]

-----------------------------------------------------------------------------
(* The processor *)

\* A remote whose non-volatile memory is selected shows it at every address:
\* its list of records is not there.
ListEntry(ch, e) ==
  IF ch \notin setup \/ ch \in nv \/ e > Len(Remotes[ch]) THEN "zero" ELSE "entry"

Memory(ch) == IF ch \in nv THEN "nv" ELSE "ram"

IsSetUp ==
  LET there == cmd.ch \in DOMAIN Remotes /\ ~(cmd.again /\ cmd.ch \in Deaf)
  IN /\ cmd.do = "setup"
     /\ answer' = IF there THEN "zero" ELSE "error"
     /\ setup' = IF there THEN setup \cup {cmd.ch} ELSE setup
     /\ UNCHANGED nv

IsStopped ==
  /\ cmd.do \in {"stopall", "stop"}
  /\ setup' = IF cmd.do = "stopall" THEN {} ELSE setup \ {cmd.ch}
  /\ answer' = "zero" /\ UNCHANGED nv

IsSelected ==
  /\ cmd.do = "select"
  /\ nv' = IF cmd.nv THEN nv \cup {cmd.ch} ELSE nv \ {cmd.ch}
  /\ answer' = "zero" /\ UNCHANGED setup

IsReadOut ==
  /\ \/ cmd.do = "local" /\ answer' = "width"
     \/ cmd.do = "entry" /\ answer' = ListEntry(cmd.ch, cmd.at)
     \/ cmd.do = "record" /\ answer' = Remotes[cmd.ch][cmd.at]
     \/ cmd.do = "value" /\ answer' = Memory(cmd.ch)
     \/ cmd.do = "stray" /\ answer' = "zero"
  /\ UNCHANGED <<setup, nv>>

Execute ==
  /\ IsSetUp \/ IsStopped \/ IsSelected \/ IsReadOut
  /\ cmd' = None
  /\ UNCHANGED <<pinVars, next, channel, entry, modes, stray, verbose, found>>

-----------------------------------------------------------------------------
(* The process *)

ProgramUnchanged == UNCHANGED <<channel, entry, modes, stray, verbose, found>>

\* The registers are written, and polled from then on.
Send(command, where) ==
  /\ cmd' = command
  /\ Goto("wait") /\ next' = where
  /\ UNCHANGED <<answer, setup, nv, ddr, alt, pin>>

NoCommand == UNCHANGED <<cmd, answer, setup, nv, next, ddr, alt, pin>>

Complete == cmd = None

sslbp_wait_complete ==
  /\ pc = "wait" /\ Complete
  /\ Goto(next)
  /\ NoCommand /\ ProgramUnchanged

\* Reset and its release: the one command that is not waited for.
AssertReset ==
  /\ pc = "assert reset"
  /\ cmd' = [do |-> "reset"]
  /\ Goto("release reset")
  /\ UNCHANGED <<answer, setup, nv, next, ddr, alt, pin>> /\ ProgramUnchanged

Ask(where, command, then) == pc = where /\ Send(command, then) /\ ProgramUnchanged

Locals ==
  \/ Ask("release reset", [do |-> "stopall"], "read local")
  \/ Ask("read local", [do |-> "local"], "channels")

FirstChannel ==
  /\ pc = "channels"
  /\ channel' = 0 /\ Goto("channel")
  /\ NoCommand /\ UNCHANGED <<entry, modes, stray, verbose, found>>

HasChannelPast == channel <= width       \* a slip: one channel too many
HasChannel == channel < width

Channel ==
  /\ pc = "channel"
  /\ IF HasChannel
       THEN Send([do |-> "setup", ch |-> channel, again |-> FALSE], "is there")
       ELSE Goto("sserial off") /\ NoCommand
  /\ ProgramUnchanged

NextChannel == channel' = channel + 1 /\ Goto("channel")

IsThere ==
  /\ pc = "is there"
  /\ IF answer = "zero" THEN Goto("entry") /\ entry' = 1 /\ modes' = 0 /\ UNCHANGED channel
                   ELSE NextChannel /\ UNCHANGED <<entry, modes>>
  /\ NoCommand /\ UNCHANGED <<stray, verbose, found>>

AskEntry == Ask("entry", [do |-> "entry", ch |-> channel, at |-> entry], "got entry")

GotEntry ==
  /\ pc = "got entry"
  /\ IF answer = "zero"
       THEN Goto("mode") /\ UNCHANGED cmd /\ UNCHANGED next
       ELSE /\ cmd' = [do |-> "record", ch |-> channel, at |-> entry]
            /\ next' = "got record" /\ Goto("wait")
  /\ UNCHANGED <<answer, setup, nv, ddr, alt, pin>> /\ ProgramUnchanged

NextEntryNot == entry          \* a slip: addr is not advanced
NextEntry == entry + 1

SelectOffNot == FALSE          \* a slip: the non-volatile memory stays selected
SelectOff == TRUE

\* Read are revisions and the three non-volatile parameters known by name, and
\* with --verbose the others named NV... and the unsigned parameters in RAM
\* that have no unit, of 16 or 32 bits.
IsRead(kind) ==
  kind \in {"revision", "nv"} \/ (kind \in {"nv verbose", "ram verbose"} /\ verbose)

ToNextEntry == entry' = NextEntry /\ Goto("entry") /\ NoCommand

ReadsNv ==
  /\ answer # "revision" /\ IsRead(answer)
  /\ Send([do |-> "select", ch |-> channel, nv |-> TRUE], "read nv")
  /\ UNCHANGED <<entry, modes>>

ReadsRevision ==
  /\ answer = "revision"
  /\ Send([do |-> "value", ch |-> channel], "got value")
  /\ UNCHANGED <<entry, modes>>

CountsMode == answer = "mode" /\ modes' = modes + 1 /\ ToNextEntry

\* The name of a mode does not fit: abort(), with the pins and the processor as
\* they are.  How long names are is left open.
NameTooLong ==
  answer = "mode" /\ Goto("killed") /\ NoCommand /\ UNCHANGED <<entry, modes>>

PassesOver == answer # "mode" /\ ~IsRead(answer) /\ ToNextEntry /\ UNCHANGED modes

GotRecord ==
  /\ pc = "got record"
  /\ ReadsNv \/ ReadsRevision \/ CountsMode \/ NameTooLong \/ PassesOver
  /\ UNCHANGED <<channel, stray, verbose, found>>

ReadNv == Ask("read nv", [do |-> "value", ch |-> channel], "got nv")

Found == found' = found \cup {[ch |-> channel, at |-> entry, of |-> answer]}

GotNv ==
  /\ pc = "got nv"
  /\ Found
  /\ Send([do |-> "select", ch |-> channel, nv |-> ~SelectOff], "next entry")
  /\ UNCHANGED <<channel, entry, modes, stray, verbose>>

GotValue ==
  /\ pc = "got value"
  /\ Found
  /\ Goto("next entry") /\ NoCommand
  /\ UNCHANGED <<channel, entry, modes, stray, verbose>>

AdvanceEntry ==
  /\ pc = "next entry"
  /\ entry' = NextEntry /\ Goto("entry")
  /\ NoCommand /\ UNCHANGED <<channel, modes, stray, verbose, found>>

\* For each software mode the remote is stopped and set up again, in that mode.
Mode ==
  /\ pc = "mode"
  /\ IF modes > 0 THEN Send([do |-> "stop", ch |-> channel], "set mode") /\ UNCHANGED channel
                  ELSE NextChannel /\ NoCommand
  /\ UNCHANGED <<entry, modes, stray, verbose, found>>

SetMode ==
  Ask("set mode", [do |-> "setup", ch |-> channel, again |-> TRUE], "mode is set")

\* Its list is looked for at an address that was not read from the remote:
\* base_address is missing (line 503).  Some records may be there.
ModeIsSet ==
  /\ pc = "mode is set"
  /\ IF answer # "zero"
       THEN modes' = modes - 1 /\ Goto("mode") /\ UNCHANGED stray
       ELSE stray' \in 0 .. MaxStray /\ Goto("stray") /\ UNCHANGED modes
  /\ NoCommand /\ UNCHANGED <<channel, entry, verbose, found>>

Stray ==
  /\ pc = "stray"
  /\ IF stray > 0
       THEN stray' = stray - 1 /\ Send([do |-> "stray"], "stray") /\ UNCHANGED modes
       ELSE modes' = modes - 1 /\ Goto("mode") /\ NoCommand /\ UNCHANGED stray
  /\ UNCHANGED <<channel, entry, verbose, found>>

EnablePinsFirst == enable_sserial_pins("assert reset") /\ UNCHANGED ssVars
DisablePinsLast == disable_sserial_pins /\ UNCHANGED ssVars

\* Without an sserial module there is nothing to do.
NoSserial ==
  /\ pc = "sserial pins" /\ ~found_module
  /\ Goto("done")
  /\ UNCHANGED <<ddr, alt, pin, ssVars>>

sserial_module_init ==
  \/ EnablePinsFirst \/ NoSserial \/ AssertReset \/ Locals \/ FirstChannel \/ Channel
  \/ IsThere \/ AskEntry \/ GotEntry \/ GotRecord \/ ReadNv \/ GotNv \/ GotValue
  \/ AdvanceEntry \/ Mode \/ SetMode \/ ModeIsSet \/ Stray \/ sslbp_wait_complete
  \/ DisablePinsLast

SserialInit ==
  /\ cmd = None /\ answer = "zero"
  /\ setup \in {{}, DOMAIN Remotes} /\ nv = {}
  /\ next = "done" /\ channel = 0 /\ entry = 0 /\ modes = 0 /\ stray = 0
  /\ verbose \in BOOLEAN /\ found = {}

\* What a complete catalogue has: every record whose value is read, with the
\* memory that its value comes from.  That is the non-volatile memory for all
\* but the revisions: for the parameters in RAM too, at whose addresses it
\* holds something else.
ReadFrom(kind) == IF kind = "revision" THEN "ram" ELSE "nv"
Catalogue ==
  UNION {{[ch |-> c, at |-> e, of |-> ReadFrom(Remotes[c][e])] :
            e \in {e \in DOMAIN Remotes[c] : IsRead(Remotes[c][e])}} : c \in DOMAIN Remotes}

SserialTypeOK ==
  /\ channel \in 0 .. width /\ setup \subseteq DOMAIN Remotes /\ nv \subseteq DOMAIN Remotes
  /\ entry \in Nat /\ modes \in Nat /\ stray \in 0 .. MaxStray
  /\ cmd.do = "reset" => pc = "release reset"
=============================================================================
