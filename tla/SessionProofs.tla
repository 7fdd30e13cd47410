--------------------------- MODULE SessionProofs ---------------------------
(***************************************************************************)
(* What TLAPS proves of Session, for every bench, every command line and   *)
(* any number of runs, kills and faults: what an exit status of 0 says of  *)
(* the flash memory, NULL is called only for boards that have no such      *)
(* functions at all, and a PCI card is left without its configuration only *)
(* by a killed run; for benches with one FPGA also that opening and        *)
(* closing balance, loading and reloading leave bridge and FPGA as their   *)
(* results say, the types, and that the board driven is the one named.     *)
(***************************************************************************)
EXTENDS Session, WellFoundedInduction, TLAPS

LEMMA SameCommand ==
  ASSUME UNCHANGED flags
  PROVE  UNCHANGED command
BY DEF command

-----------------------------------------------------------------------------
(* The calls that main makes *)

\* What main has done when it is at a step, of which the exit status then tells.
BeforeCommand == {"options", "main", "search", "open", "command"}

Verified == WithVerify("write")

Chosen ==
  /\ pc \in {"options", "main", "search"} => board.name = NULL
  /\ pc = "resetting" => board.program # NULL
  /\ pc \in {"resetting", "programming"} => command = "program"
  /\ pc = "only resetting" => command = "reset"
  /\ pc = "reload" => command = "write"
  /\ pc = "reloading" => command = "reload" \/ (command = "write" /\ "reload" \in flags)

Reported ==
  /\ pc \in BeforeCommand => called = <<>>
  /\ pc = "verify" =>
       /\ command \in {"write", "restore-flash"} /\ called = <<Ok(command)>>
       /\ "no-auto-verify" \notin flags
  /\ pc \in {"reload", "reloading"} /\ command = "write" => called = Verified
  /\ pc \in {"close", "cleanup"} /\ command \in DOMAIN OpOf /\ ret = 0 => called = AllAsked
  /\ command \notin DOMAIN OpOf => FlashUntouched
  /\ FlashStatusTrue

NullCalled == (pc # "off" => ~null) /\ NullOnlyWithoutRegisters

MainInv == Chosen /\ Reported /\ NullCalled

\* What the functions returned is a sequence.
CalledInv == \E S : called \in Seq(S)

LEMMA CalledInit == Init => CalledInv
<1>1. <<>> \in Seq({})
  OBVIOUS
<1> QED BY <1>1 DEF Init, SessionInit, CalledInv

LEMMA CalledNext == CalledInv /\ [Next]_vars => CalledInv'
<1> SUFFICES ASSUME CalledInv, [Next]_vars PROVE CalledInv'
  OBVIOUS
<1>1. CASE UNCHANGED called
  BY <1>1 DEF CalledInv
<1>2. CASE called' = <<>>
  <2>1. <<>> \in Seq({})
    OBVIOUS
  <2> QED BY <1>2, <2>1 DEF CalledInv
<1>3. ASSUME NEW function, NEW v, Called(function, v) PROVE CalledInv'
  <2>1. PICK S : called \in Seq(S)
    BY DEF CalledInv
  <2> DEFINE e == [of |-> function, ret |-> v]
  <2> HIDE DEF e
  <2>2. Append(called, e) \in Seq(S \cup {e})
    <3>1. called \in Seq(S \cup {e})
      BY <2>1
    <3> QED BY <3>1
  <2>3. called' = Append(called, e)
    BY <1>3 DEF Called, e
  <2> QED BY <2>2, <2>3 DEF CalledInv
<1>4. CASE Start \/ Kill \/ AnswerLost
  BY <1>1, <1>2, <1>4 DEF Start, Kill, AnswerLost
<1>5. CASE GetOption \/ EndOfOptions \/ Main \/ ScanBus \/ ScanDevice
  BY <1>1, <1>5 DEF GetOption, EndOfOptions, RestUnchanged, Main, ScanBus, ScanDevice
<1>6. CASE \/ GetDev \/ Open \/ AccessRegisters \/ SetRemote \/ ProgramFpga \/ Reload \/ NoReload
           \/ Reset \/ Close \/ Cleanup
  BY <1>1, <1>6 DEF GetDev, Open, AccessRegisters, SetRemote, ProgramFpga, Reload, NoReload, Reset,
     Close, Cleanup
<1>7. CASE FlashCommand \/ Verify
  BY <1>3, <1>7 DEF FlashCommand, Verify, CallFlash
<1>8. CASE ResetReturns \/ ProgramReturns \/ ReloadReturns \/ OnlyResetReturns
  BY <1>3, <1>8 DEF ResetReturns, ProgramReturns, ReloadReturns, OnlyResetReturns
<1>9. CASE UNCHANGED <<mainVars, worldVars, pc>> \/ UNCHANGED vars
  BY <1>1, <1>9 DEF vars, mainVars
<1> QED BY <1>4, <1>5, <1>6, <1>7, <1>8, <1>9 DEF Next, Process

LEMMA MainInit == Init => MainInv
BY DEF Init, SessionInit, MainInv, Chosen, Reported, NullCalled, BeforeCommand,
       FlashStatusTrue, FlashUntouched, NullOnlyWithoutRegisters, NoBoard

\* What was called stays what belongs to the command, or nothing for the flash.
LEMMA AskedSame ==
  ASSUME UNCHANGED <<flags, called>>
  PROVE  UNCHANGED <<command, AllAsked, Verified, FlashUntouched>>
BY SameCommand DEF AllAsked, Verified, WithVerify, Ok, FlashUntouched

LEMMA MainSame ==
  ASSUME MainInv, UNCHANGED <<mainVars, worldVars, pc>>
  PROVE  MainInv'
<1>1. UNCHANGED <<flags, called, board, ret, ended, null, pc>>
  BY DEF mainVars, worldVars
<1>2. /\ command' = command /\ AllAsked' = AllAsked /\ Verified' = Verified
      /\ FlashUntouched' = FlashUntouched
  BY <1>1, AskedSame
<1>3. Chosen'
  BY <1>1, <1>2 DEF MainInv, Chosen
<1>4. Reported'
  BY <1>1, <1>2 DEF MainInv, Reported, BeforeCommand, FlashStatusTrue, Ok
<1>5. NullCalled'
  BY <1>1, <1>2 DEF MainInv, NullCalled, NullOnlyWithoutRegisters
<1> QED BY <1>3, <1>4, <1>5 DEF MainInv

LEMMA StartMain ==
  ASSUME MainInv, Start
  PROVE  MainInv'
BY DEF Start, MainInv, Chosen, Reported, NullCalled, BeforeCommand, FlashStatusTrue, FlashUntouched,
       NullOnlyWithoutRegisters, NoBoard

LEMMA KillMain ==
  ASSUME MainInv, Kill
  PROVE  MainInv'
<1>1. /\ UNCHANGED <<flags, called, board>> /\ ~null'
      /\ pc' = "off" /\ ended' = "killed"
  BY DEF Kill, Dies
<1>2. command' = command /\ FlashUntouched' = FlashUntouched
  BY <1>1, AskedSame
<1>3. Chosen'
  BY <1>1 DEF Chosen
<1>4. Reported'
  BY <1>1, <1>2 DEF MainInv, Reported, BeforeCommand, FlashStatusTrue
<1>5. NullCalled'
  BY <1>1 DEF NullCalled, NullOnlyWithoutRegisters
<1> QED BY <1>3, <1>4, <1>5 DEF MainInv

\* The steps of main up to the choice of the board.
LEMMA SearchMain ==
  ASSUME MainInv,
         pc \in {"options", "main", "search"}, UNCHANGED <<board, called>>,
         \/ pc' \in {"options", "main", "search"} /\ UNCHANGED null
         \/ pc' = "off" /\ (UNCHANGED null \/ null' = FALSE)
  PROVE  MainInv'
<1>1. board.name = NULL /\ called = <<>> /\ ~null
  BY DEF MainInv, Chosen, Reported, NullCalled, BeforeCommand
<1>2. board' = board /\ called' = called /\ ~null'
  BY <1>1
<1>3. Chosen'
  BY <1>1, <1>2 DEF Chosen
<1>4. Reported'
  BY <1>1, <1>2 DEF Reported, BeforeCommand, FlashStatusTrue, FlashUntouched
<1>5. NullCalled'
  BY <1>1, <1>2 DEF NullCalled, NullOnlyWithoutRegisters
<1> QED BY <1>3, <1>4, <1>5 DEF MainInv

LEMMA OptionsMain ==
  ASSUME MainInv, GetOption \/ EndOfOptions
  PROVE  MainInv'
BY SearchMain DEF GetOption, EndOfOptions, RestUnchanged, OptionOnce, SetsValue, Refused, Exit,
                  GoOn

LEMMA BusesMain ==
  ASSUME MainInv, Main \/ ScanBus \/ ScanDevice
  PROVE  MainInv'
<1>1. CASE Main
  BY <1>1, SearchMain DEF Main, Exit, GoOn
<1>2. CASE ScanBus
  BY <1>2, SearchMain DEF ScanBus, Scan, Found, NothingFound, Exit, Dies, GoOn
<1>3. CASE ScanDevice
  BY <1>3, SearchMain DEF ScanDevice, Found, GoOn
<1> QED BY <1>1, <1>2, <1>3

LEMMA GetDevMain ==
  ASSUME MainInv, GetDev
  PROVE  MainInv'
<1>1. called = <<>> /\ ~null
  BY DEF GetDev, MainInv, Reported, NullCalled, BeforeCommand
<1>2. called' = <<>> /\ ~null' /\ (pc' = "open" \/ (pc' = "off" /\ board'.name = NULL))
  BY <1>1 DEF GetDev, Exit, GoOn
<1>3. Chosen'
  BY <1>2 DEF Chosen
<1>4. Reported'
  BY <1>2 DEF Reported, BeforeCommand, FlashStatusTrue, FlashUntouched
<1>5. NullCalled'
  BY <1>2 DEF NullCalled, NullOnlyWithoutRegisters
<1> QED BY <1>3, <1>4, <1>5 DEF MainInv

LEMMA OpenMain ==
  ASSUME MainInv, Open
  PROVE  MainInv'
<1>1. called = <<>> /\ ~null
  BY DEF Open, MainInv, Reported, NullCalled, BeforeCommand
<1>2. called' = <<>> /\ board' = board
      /\ \/ pc' = "command" /\ ~null'
         \/ pc' = "off" /\ ended' = "killed" /\ ~board.life
  BY <1>1 DEF Open, Dies, GoOn
<1>3. FlashUntouched'
  BY <1>2 DEF FlashUntouched
<1>4. Chosen'
  BY <1>2 DEF Chosen
<1>5. Reported'
  BY <1>2, <1>3 DEF Reported, BeforeCommand, FlashStatusTrue
<1>6. NullCalled'
  BY <1>2 DEF NullCalled, NullOnlyWithoutRegisters
<1> QED BY <1>4, <1>5, <1>6 DEF MainInv

\* The command is not --write, and its step is the last one but closing.
LEMMA OtherCommandMain ==
  ASSUME MainInv, command \notin DOMAIN OpOf, UNCHANGED <<flags, called>>, pc' = "close",
         UNCHANGED null, ~null
  PROVE  MainInv'
<1>1. command' \notin DOMAIN OpOf /\ FlashUntouched'
  BY SameCommand DEF MainInv, Reported, FlashUntouched
<1>2. ~null' /\ command' # "write"
  BY <1>1 DEF OpOf
<1> QED BY <1>1, <1>2 DEF MainInv, Chosen, Reported, NullCalled, NullOnlyWithoutRegisters,
                          BeforeCommand, FlashStatusTrue, FlashUntouched

LEMMA RegistersAreNotFlash == (ToSet(Registers) \cup {"print_info"}) \cap DOMAIN OpOf = {}
BY DEF ToSet, Registers, OpOf

LEMMA AccessRegistersMain ==
  ASSUME MainInv, AccessRegisters
  PROVE  MainInv'
<1>1. command \notin DOMAIN OpOf /\ ~null
  BY RegistersAreNotFlash DEF AccessRegisters, MainInv, NullCalled
<1>2. CASE board.io \/ command = "print_info"
  BY <1>1, <1>2, OtherCommandMain DEF AccessRegisters, GoOn, MainStep
<1>3. CASE ~(board.io \/ command = "print_info")
  <2>1. pc' = "off" /\ ended' = "killed" /\ board' = board /\ flags' = flags
    BY <1>3 DEF AccessRegisters, Dies, MainStep
  <2>2. command' = command /\ FlashUntouched'
    BY <1>1, <2>1, SameCommand DEF AccessRegisters, MainInv, Reported, FlashUntouched
  <2>3. command \in ToSet(Registers) /\ ~board.io
    BY <1>3 DEF AccessRegisters
  <2> QED BY <2>1, <2>2, <2>3 DEF MainInv, Chosen, Reported, NullCalled,
             NullOnlyWithoutRegisters, BeforeCommand, FlashStatusTrue, FlashUntouched
<1> QED BY <1>2, <1>3

LEMMA SetRemoteMain ==
  ASSUME MainInv, SetRemote
  PROVE  MainInv'
<1>1. command \notin DOMAIN OpOf
  BY DEF SetRemote, OpOf
<1> QED BY <1>1, OtherCommandMain DEF SetRemote, GoOn, MainStep, MainInv, NullCalled

-----------------------------------------------------------------------------
(* The flash memory *)

\* A function for the flash memory has returned v to main, which goes on.
FlashReturned(function, v) ==
  /\ ret' = v /\ called' = Append(called, [of |-> function, ret |-> v])
  /\ pc' = NextAfter(function, v)
  /\ UNCHANGED <<board, flags, null>>

LEMMA CallFlashReturned ==
  ASSUME NEW function, CallFlash(function)
  PROVE  \E v : FlashReturned(function, v)
BY DEF CallFlash, Called, GoOn, MainStep, FlashReturned

LEMMA WriteReturned ==
  ASSUME MainInv, NEW v, pc = "command", command = "write", FlashReturned("write", v)
  PROVE  MainInv'
<1>1. called = <<>> /\ ~null
  BY DEF MainInv, Reported, NullCalled, BeforeCommand
<1>2. called' = <<[of |-> "write", ret |-> v]>> /\ ~null' /\ ret' = v
  BY <1>1 DEF FlashReturned
<1>3. command' = "write" /\ command' \in DOMAIN OpOf
  BY SameCommand DEF FlashReturned, OpOf
<1>4. CASE v = 0 /\ "no-auto-verify" \in flags
  <2>1. pc' = "reload"
    BY <1>4 DEF FlashReturned, NextAfter, AfterWrite
  <2>2. called' = Verified'
    BY <1>2, <1>4 DEF FlashReturned, Verified, WithVerify, Ok
  <2> QED BY <1>2, <1>3, <2>1, <2>2 DEF MainInv, Chosen, Reported, NullCalled,
             NullOnlyWithoutRegisters, BeforeCommand, FlashStatusTrue, FlashUntouched
<1>5. CASE v = 0 /\ "no-auto-verify" \notin flags
  <2>1. pc' = "verify" /\ "no-auto-verify" \notin flags'
    BY <1>5 DEF FlashReturned, NextAfter, AfterWrite
  <2>2. called' = <<Ok("write")>>
    BY <1>2, <1>5 DEF Ok
  <2> QED BY <1>2, <1>3, <2>1, <2>2 DEF MainInv, Chosen, Reported, NullCalled,
             NullOnlyWithoutRegisters, BeforeCommand, FlashStatusTrue, FlashUntouched, Ok
<1>6. CASE v # 0
  <2>1. pc' = "close" /\ ret' # 0
    BY <1>2, <1>6 DEF FlashReturned, NextAfter
  <2> QED BY <1>2, <1>3, <2>1 DEF MainInv, Chosen, Reported, NullCalled,
             NullOnlyWithoutRegisters, BeforeCommand, FlashStatusTrue, FlashUntouched
<1> QED BY <1>4, <1>5, <1>6

LEMMA VerifyReturned ==
  ASSUME MainInv, NEW v, pc = "verify", command = "write", FlashReturned("verify", v)
  PROVE  MainInv'
<1>1. called = <<Ok("write")>> /\ "no-auto-verify" \notin flags /\ ~null
  BY DEF MainInv, Reported, NullCalled
<1>2. /\ called' = Append(<<Ok("write")>>, [of |-> "verify", ret |-> v])
      /\ ~null' /\ ret' = v
  BY <1>1 DEF FlashReturned
<1>3. command' = "write" /\ command' \in DOMAIN OpOf
  BY SameCommand DEF FlashReturned, OpOf
<1>4. CASE v = 0
  <2>1. pc' = "reload"
    BY <1>4 DEF FlashReturned, NextAfter, AfterVerify
  <2>2. called' = Verified'
    BY <1>1, <1>2, <1>4 DEF FlashReturned, Verified, WithVerify, Ok
  <2> QED BY <1>2, <1>3, <2>1, <2>2 DEF MainInv, Chosen, Reported, NullCalled,
             NullOnlyWithoutRegisters, BeforeCommand, FlashStatusTrue, FlashUntouched
<1>5. CASE v # 0
  <2>1. pc' = "close" /\ ret' # 0
    BY <1>2, <1>5 DEF FlashReturned, NextAfter
  <2> QED BY <1>2, <1>3, <2>1 DEF MainInv, Chosen, Reported, NullCalled,
             NullOnlyWithoutRegisters, BeforeCommand, FlashStatusTrue, FlashUntouched
<1> QED BY <1>4, <1>5

\* Closing after the last function of a command for the flash memory.
LEMMA FlashDone ==
  ASSUME MainInv, ~null, UNCHANGED <<flags, null>>, command \in DOMAIN OpOf, pc' = "close",
         ret' = 0 => called' = AllAsked
  PROVE  MainInv'
<1>1. /\ command' = command /\ AllAsked' = AllAsked /\ ~null'
  BY SameCommand DEF AllAsked, WithVerify, Ok
<1> QED BY <1>1 DEF MainInv, Chosen, Reported, NullCalled, NullOnlyWithoutRegisters,
                    BeforeCommand, FlashStatusTrue, FlashUntouched

\* The commands other than --write: verifying, backing up, restoring.
LEMMA OtherFlashReturned ==
  ASSUME MainInv, NEW v, pc = "command", command \in DOMAIN OpOf, command # "write",
         FlashReturned(command, v)
  PROVE  MainInv'
<1>1. called = <<>> /\ ~null
  BY DEF MainInv, Reported, NullCalled, BeforeCommand
<1>2. /\ called' = <<[of |-> command, ret |-> v]>> /\ ret' = v
      /\ UNCHANGED <<flags, null>> /\ pc' = NextAfter(command, v)
  BY <1>1 DEF FlashReturned
<1>3. command' = command
  BY <1>2, SameCommand
<1>4. CASE command = "restore-flash" /\ v = 0 /\ "no-auto-verify" \notin flags
  <2>1. /\ pc' = "verify" /\ called' = <<Ok(command')>> /\ "no-auto-verify" \notin flags'
        /\ command' = "restore-flash" /\ command' \in DOMAIN OpOf
    BY <1>2, <1>3, <1>4 DEF NextAfter, Ok
  <2> QED BY <1>1, <1>2, <2>1 DEF MainInv, Chosen, Reported, NullCalled,
             NullOnlyWithoutRegisters, BeforeCommand, FlashStatusTrue, FlashUntouched
<1>5. CASE ~(command = "restore-flash" /\ v = 0 /\ "no-auto-verify" \notin flags)
  <2>1. pc' = "close"
    BY <1>2, <1>5 DEF NextAfter, AfterVerify
  <2>2. ret' = 0 => called' = AllAsked
    BY <1>2, <1>5 DEF AllAsked, WithVerify, Ok
  <2> QED BY <1>1, <1>2, <2>1, <2>2, FlashDone
<1> QED BY <1>4, <1>5

LEMMA RestoreVerified ==
  ASSUME MainInv, NEW v, pc = "verify", command = "restore-flash", FlashReturned("verify", v)
  PROVE  MainInv'
<1>1. called = <<Ok("restore-flash")>> /\ "no-auto-verify" \notin flags /\ ~null
  BY DEF MainInv, Reported, NullCalled
<1>2. /\ called' = Append(<<Ok("restore-flash")>>, [of |-> "verify", ret |-> v])
      /\ ret' = v /\ UNCHANGED <<flags, null>>
  BY <1>1 DEF FlashReturned
<1>3. pc' = "close"
  BY DEF FlashReturned, NextAfter, AfterVerify
<1>4. ret' = 0 => called' = AllAsked
  BY <1>1, <1>2 DEF AllAsked, WithVerify, Ok
<1>5. command \in DOMAIN OpOf
  BY DEF OpOf
<1> QED BY <1>1, <1>2, <1>3, <1>4, <1>5, FlashDone

LEMMA FlashCommandMain ==
  ASSUME MainInv, FlashCommand
  PROVE  MainInv'
<1>1. PICK v : FlashReturned(command, v)
  BY CallFlashReturned DEF FlashCommand
<1>2. pc = "command" /\ command \in DOMAIN OpOf
  BY DEF FlashCommand
<1>3. CASE command = "write"
  BY <1>1, <1>2, <1>3, WriteReturned
<1>4. CASE command # "write"
  BY <1>1, <1>2, <1>4, OtherFlashReturned
<1> QED BY <1>3, <1>4

LEMMA VerifyMain ==
  ASSUME MainInv, Verify
  PROVE  MainInv'
<1>1. PICK v : FlashReturned("verify", v)
  BY CallFlashReturned DEF Verify
<1>2. pc = "verify" /\ command \in {"write", "restore-flash"}
  BY DEF Verify, MainInv, Reported
<1> QED BY <1>1, <1>2, VerifyReturned, RestoreVerified

-----------------------------------------------------------------------------
(* The functions that reset, load and reload the FPGA *)

\* A step of a command that is not for the flash memory, to a step that waits.
OtherCalls == \/ UNCHANGED called
              \/ \E f \in {"reset", "program", "reload"} : \E v :
                   called' = Append(called, [of |-> f, ret |-> v])

LEMMA StillUntouched ==
  ASSUME CalledInv, FlashUntouched, OtherCalls
  PROVE  FlashUntouched'
<1>1. CASE UNCHANGED called
  BY <1>1 DEF FlashUntouched
<1>2. ASSUME NEW f \in {"reset", "program", "reload"}, NEW v,
             called' = Append(called, [of |-> f, ret |-> v])
      PROVE  FlashUntouched'
  <2>1. PICK S : called \in Seq(S)
    BY DEF CalledInv
  <2> DEFINE e == [of |-> f, ret |-> v]
  <2>2. /\ DOMAIN called' = DOMAIN called \cup {Len(called) + 1}
        /\ \A i \in DOMAIN called : called'[i] = called[i]
        /\ called'[Len(called) + 1] = e
    BY <1>2, <2>1
  <2>3. e.of \notin DOMAIN OpOf
    BY DEF OpOf
  <2> HIDE DEF e
  <2> QED BY <2>2, <2>3 DEF FlashUntouched
<1> QED BY <1>1, <1>2 DEF OtherCalls

LEMMA OtherStepMain ==
  ASSUME CalledInv, MainInv, command \notin DOMAIN OpOf, UNCHANGED <<flags, board, null>>, ~null,
         OtherCalls,
         \/ pc' = "close"
         \/ pc' = "resetting" /\ command = "program" /\ board.program # NULL
         \/ pc' = "programming" /\ command = "program"
         \/ pc' = "only resetting" /\ command = "reset"
         \/ pc' = "reloading" /\ command = "reload"
  PROVE  MainInv'
<1>1. command' = command /\ board' = board /\ ~null' /\ command # "write" /\ FlashUntouched'
  BY SameCommand, StillUntouched DEF MainInv, Reported, OpOf
<1>2. Chosen'
  BY <1>1 DEF Chosen
<1>3. Reported'
  BY <1>1 DEF Reported, BeforeCommand, FlashStatusTrue, FlashUntouched
<1>4. NullCalled'
  BY <1>1 DEF NullCalled, NullOnlyWithoutRegisters
<1> QED BY <1>2, <1>3, <1>4 DEF MainInv

LEMMA NotYetNull ==
  ASSUME MainInv, pc # "off"
  PROVE  ~null
BY DEF MainInv, NullCalled

LEMMA ProgramFpgaMain ==
  ASSUME CalledInv, MainInv, ProgramFpga
  PROVE  MainInv'
<1>1. command = "program" /\ ~null /\ UNCHANGED <<flags, board>>
  BY NotYetNull DEF ProgramFpga, MainStep
<1>4. command \notin DOMAIN OpOf /\ OtherCalls
  BY <1>1 DEF ProgramFpga, OpOf, OtherCalls
<1>2. CASE CanProgram
  <2>1. pc' = "resetting" /\ UNCHANGED null /\ board.program # NULL
    BY <1>2 DEF ProgramFpga, CanProgram, HasReset, CallsBoard, GoOn
  <2> QED BY <1>1, <1>4, <2>1, OtherStepMain
<1>3. CASE ~CanProgram
  <2>1. pc' = "close" /\ UNCHANGED null
    BY <1>3 DEF ProgramFpga, Refuses, Finish, GoOn
  <2> QED BY <1>1, <1>4, <2>1, OtherStepMain
<1> QED BY <1>2, <1>3

LEMMA ResetReturnsMain ==
  ASSUME CalledInv, MainInv, ResetReturns
  PROVE  MainInv'
<1>1. command = "program" /\ board.program # NULL /\ ~null /\ UNCHANGED <<flags, board>>
  BY NotYetNull DEF ResetReturns, Returned, MainStep, MainInv, Chosen
<1>3. command \notin DOMAIN OpOf /\ OtherCalls
  <2>1. "reset" \in {"reset", "program", "reload"}
    OBVIOUS
  <2> QED BY <1>1, <2>1 DEF ResetReturns, Called, OpOf, OtherCalls
<1>2. pc' \in {"close", "programming"} /\ UNCHANGED null
  BY <1>1 DEF ResetReturns, Refuses, Finish, CallsBoard, GoOn
<1> QED BY <1>1, <1>2, <1>3, OtherStepMain

LEMMA ProgramReturnsMain ==
  ASSUME CalledInv, MainInv, ProgramReturns
  PROVE  MainInv'
<1>1. command = "program" /\ ~null /\ UNCHANGED <<flags, board>>
  BY NotYetNull DEF ProgramReturns, Returned, MainStep, MainInv, Chosen
<1>3. command \notin DOMAIN OpOf /\ OtherCalls
  <2>1. "program" \in {"reset", "program", "reload"}
    OBVIOUS
  <2> QED BY <1>1, <2>1 DEF ProgramReturns, Called, OpOf, OtherCalls
<1>2. pc' = "close" /\ UNCHANGED null
  BY DEF ProgramReturns, Finish, GoOn
<1> QED BY <1>1, <1>2, <1>3, OtherStepMain

LEMMA ResetMain ==
  ASSUME CalledInv, MainInv, Reset
  PROVE  MainInv'
<1>1. command = "reset" /\ ~null /\ UNCHANGED <<flags, board>>
  BY NotYetNull DEF Reset, MainStep
<1>3. command \notin DOMAIN OpOf /\ OtherCalls
  BY <1>1 DEF Reset, OpOf, OtherCalls
<1>2. pc' \in {"close", "only resetting"} /\ UNCHANGED null
  BY DEF Reset, HasReset, Refuses, Finish, CallsBoard, GoOn
<1> QED BY <1>1, <1>2, <1>3, OtherStepMain

LEMMA OnlyResetReturnsMain ==
  ASSUME CalledInv, MainInv, OnlyResetReturns
  PROVE  MainInv'
<1>1. command = "reset" /\ ~null /\ UNCHANGED <<flags, board>>
  BY NotYetNull DEF OnlyResetReturns, Returned, MainStep, MainInv, Chosen
<1>3. command \notin DOMAIN OpOf /\ OtherCalls
  <2>1. "reset" \in {"reset", "program", "reload"}
    OBVIOUS
  <2> QED BY <1>1, <2>1 DEF OnlyResetReturns, Called, OpOf, OtherCalls
<1>2. pc' = "close" /\ UNCHANGED null
  BY DEF OnlyResetReturns, Finish, GoOn
<1> QED BY <1>1, <1>2, <1>3, OtherStepMain

\* A step of --write after its verification, to closing or to reloading.
LEMMA WriteStepMain ==
  ASSUME MainInv, command = "write", UNCHANGED <<flags, board, null>>, ~null,
         \/ pc' = "close" /\ (ret' = 0 => called' = AllAsked)
         \/ pc' = "reloading" /\ called' = Verified /\ "reload" \in flags
  PROVE  MainInv'
<1>1. /\ command' = command /\ board' = board /\ ~null' /\ flags' = flags
      /\ command' \in DOMAIN OpOf
  BY SameCommand DEF OpOf
<1>2. AllAsked' = AllAsked /\ Verified' = Verified
  BY <1>1 DEF AllAsked, Verified, WithVerify, Ok
<1>3. Chosen'
  BY <1>1 DEF Chosen
<1>4. Reported'
  BY <1>1, <1>2 DEF Reported, BeforeCommand, FlashStatusTrue, FlashUntouched
<1>5. NullCalled'
  BY <1>1 DEF NullCalled, NullOnlyWithoutRegisters
<1> QED BY <1>3, <1>4, <1>5 DEF MainInv

LEMMA ReloadMain ==
  ASSUME CalledInv, MainInv, Reload
  PROVE  MainInv'
<1>1. ~null /\ UNCHANGED <<flags, board, called>>
  BY NotYetNull DEF Reload, MainStep
<1>2. pc' \in {"close", "reloading"} /\ UNCHANGED null
  BY DEF Reload, Refuses, Finish, CallsBoard, GoOn
<1>3. CASE pc = "command" /\ command = "reload"
  <2>1. command \notin DOMAIN OpOf /\ OtherCalls
    BY <1>1, <1>3 DEF OpOf, OtherCalls
  <2> QED BY <1>1, <1>2, <1>3, <2>1, OtherStepMain
<1>4. CASE pc = "reload" /\ "reload" \in flags
  <2>1. command = "write" /\ called = Verified
    BY <1>4 DEF MainInv, Chosen, Reported
  <2>2. pc' = "close" => ret' # 0
    BY <1>4 DEF Reload, Refuses, Finish, CallsBoard, GoOn, EINVAL
  <2> QED BY <1>1, <1>2, <1>4, <2>1, <2>2, WriteStepMain
<1> QED BY <1>3, <1>4 DEF Reload

LEMMA NoReloadMain ==
  ASSUME MainInv, NoReload
  PROVE  MainInv'
<1>1. /\ ~null /\ UNCHANGED <<flags, board, called, null>>
      /\ command = "write" /\ called = Verified /\ "reload" \notin flags /\ pc' = "close"
  BY NotYetNull DEF NoReload, MainStep, MainInv, Chosen, Reported, GoOn
<1>2. called' = AllAsked
  BY <1>1 DEF AllAsked, Verified
<1> QED BY <1>1, <1>2, WriteStepMain

LEMMA ReloadReturnsMain ==
  ASSUME CalledInv, MainInv, ReloadReturns
  PROVE  MainInv'
<1>1. ~null /\ UNCHANGED <<flags, board, null>> /\ pc' = "close"
  BY NotYetNull DEF ReloadReturns, Returned, MainStep, Finish, GoOn
<1>2. CASE command # "write"
  <2>1. command = "reload"
    BY <1>2 DEF ReloadReturns, Returned, MainInv, Chosen
  <2>2. OtherCalls
    <3>1. "reload" \in {"reset", "program", "reload"}
      OBVIOUS
    <3> QED BY <3>1 DEF ReloadReturns, Called, OtherCalls
  <2>3. command \notin DOMAIN OpOf
    BY <2>1 DEF OpOf
  <2> QED BY <1>1, <1>2, <2>2, <2>3, OtherStepMain
<1>3. CASE command = "write"
  <2>1. called = Verified /\ "reload" \in flags
    BY <1>3 DEF ReloadReturns, Returned, MainInv, Chosen, Reported
  <2>2. ret' = result.ret /\ called' = Append(called, [of |-> "reload", ret |-> result.ret])
    BY <1>3 DEF ReloadReturns, Finish, Called
  <2>3. ret' = 0 => called' = AllAsked
    BY <1>3, <2>1, <2>2 DEF AllAsked, Verified, Ok
  <2> QED BY <1>1, <1>3, <2>3, WriteStepMain
<1> QED BY <1>2, <1>3

LEMMA CloseMain ==
  ASSUME MainInv, Close \/ Cleanup
  PROVE  MainInv'
<1>1. /\ ~null' /\ UNCHANGED <<flags, board, called, ret>> /\ command' = command
      /\ pc \in {"close", "cleanup"} /\ pc' \in {"cleanup", "off"}
  BY NotYetNull, SameCommand DEF Close, Cleanup, MainStep, GoOn, Exit
<1>2. AllAsked' = AllAsked /\ (FlashUntouched <=> FlashUntouched')
  BY <1>1 DEF AllAsked, WithVerify, Ok, FlashUntouched
<1>3. Chosen'
  BY <1>1 DEF Chosen
<1>4. Reported'
  BY <1>1, <1>2 DEF MainInv, Reported, BeforeCommand, FlashStatusTrue, FlashUntouched
<1>5. NullCalled'
  BY <1>1 DEF NullCalled, NullOnlyWithoutRegisters
<1> QED BY <1>3, <1>4, <1>5 DEF MainInv

\* A run that has lost an answer calls nothing any more.
LEMMA AnswerLostMain ==
  ASSUME MainInv, AnswerLost
  PROVE  MainInv'
<1>0. pc # "off" /\ ~null
  BY NotYetNull DEF AnswerLost, EthernetAsked, SerialAsked, BusToScan, PrintsMore, AsksVersion
<1>1. /\ UNCHANGED <<flags, board, called>> /\ ~null'
      /\ pc' \in {"unanswered", "off"} /\ (pc' = "off" => ended' = "killed" \/ ret' = -1)
  BY <1>0 DEF AnswerLost, Exit, Dies, GoOn
<1>2. /\ command' = command /\ FlashUntouched' = FlashUntouched
  BY <1>1, AskedSame
<1>3. Chosen'
  BY <1>1 DEF Chosen
<1>4. Reported'
  BY <1>1, <1>2 DEF MainInv, Reported, BeforeCommand, FlashStatusTrue, FlashUntouched
<1>5. NullCalled'
  BY <1>1 DEF NullCalled, NullOnlyWithoutRegisters
<1> QED BY <1>3, <1>4, <1>5 DEF MainInv

LEMMA MainNext == CalledInv /\ MainInv /\ [Next]_vars => MainInv'
<1> SUFFICES ASSUME CalledInv, MainInv, [Next]_vars PROVE MainInv'
  OBVIOUS
<1>1. CASE Start \/ Kill \/ AnswerLost
  BY <1>1, StartMain, KillMain, AnswerLostMain
<1>2. CASE Process
  BY <1>2, OptionsMain, BusesMain, GetDevMain, OpenMain, AccessRegistersMain, SetRemoteMain,
     FlashCommandMain, VerifyMain, ProgramFpgaMain, ResetReturnsMain, ProgramReturnsMain,
     ReloadMain, NoReloadMain, ReloadReturnsMain, ResetMain, OnlyResetReturnsMain, CloseMain
     DEF Process
<1>3. CASE UNCHANGED <<mainVars, worldVars, pc>>
  BY <1>3, MainSame
<1>4. CASE UNCHANGED vars
  BY <1>4, MainSame DEF vars
<1> QED BY <1>1, <1>2, <1>3, <1>4 DEF Next

\* main: an exit status of 0 means that the command that main took from the
\* line, if it is for the flash memory, was done with the verification and the
\* reload that belong to it, and else that the flash memory was not touched;
\* whatever the board can and whatever options were given besides.
THEOREM SessionFlashStatusTrue == Spec => []FlashStatusTrue
<1>1. MainInv => FlashStatusTrue
  BY DEF MainInv, Reported
<1> QED BY <1>1, CalledInit, CalledNext, MainInit, MainNext, PTL DEF Spec

\* NULL is called only for boards without the functions that every command
\* needs: resetting, loading and reloading are looked at before the call.
THEOREM SessionNullOnlyWithoutRegisters == Spec => []NullOnlyWithoutRegisters
<1>1. MainInv => NullOnlyWithoutRegisters
  BY DEF MainInv, NullCalled
<1> QED BY <1>1, CalledInit, CalledNext, MainInit, MainNext, PTL DEF Spec

-----------------------------------------------------------------------------
(* What a function returned is forgotten when the next one is called *)

ConfigInv == routine # Idle => result.of = Idle

LEMMA ConfigInit == Init => ConfigInv
BY DEF Init, LoadInit, ConfigInv

\* The functions that do not reload a PCI card.
OtherRoutine ==
  \/ Plx9030Reset \/ Plx9030Program \/ Plx905xReset \/ Plx905xProgram
  \/ EppReset \/ EppProgram \/ SpiReload \/ Lbp16Reload \/ Lbp16Reset
  \/ EppCycleLost \/ DatagramLost

LEMMA OtherRoutineSteps ==
  ASSUME OtherRoutine
  PROVE  /\ routine \notin PciReloads /\ routine # Idle
         /\ \/ routine' = routine /\ UNCHANGED result
            \/ \E v : Return(v)
<1>1. CASE Plx9030Reset
  BY <1>1 DEF Plx9030Reset, Control, Look, PollInit, Goto, PciReloads, Idle
<1>2. CASE Plx9030Program
  BY <1>2 DEF Plx9030Program, OpenFile, Control, SendChunk, Look, ControlAndReturn, Goto,
              PciReloads, Idle
<1>3. CASE Plx905xReset
  BY <1>3 DEF Plx905xReset, Control, Look, Delay, Goto, PciReloads, Idle
<1>4. CASE Plx905xProgram
  BY <1>4 DEF Plx905xProgram, OpenFile, SendChunk, Look, PollDone, Goto, PciReloads, Idle
<1>5. CASE EppReset
  BY <1>5 DEF EppReset, Control, Look, Delay, Goto, PciReloads, Idle
<1>6. CASE EppProgram \/ EppCycleLost
  BY <1>6 DEF EppProgram, OpenFile, SendChunk, Look, EppCycleLost, InRoutine, Goto, PciReloads,
              Idle
<1>7. CASE SpiReload
  BY <1>7 DEF SpiReload, CheckCookie, WriteIcap, Look, Goto, PciReloads, Idle
<1>8. CASE Lbp16Reload \/ Lbp16Reset \/ DatagramLost
  BY <1>8 DEF Lbp16Reload, Lbp16Reset, DatagramLost, CheckCookie, InRoutine, Look, Goto,
              PciReloads, Idle
<1> QED BY <1>1, <1>2, <1>3, <1>4, <1>5, <1>6, <1>7, <1>8 DEF OtherRoutine

LEMMA PciSteps ==
  ASSUME PciReload \/ PciEfxReload
  PROVE  /\ routine \in PciReloads /\ routine # Idle
         /\ \/ routine' = routine /\ UNCHANGED result
            \/ \E v : Return(v)
<1>1. CASE PciReload
  BY <1>1 DEF PciReload, CheckCookie, SaveConfig, WriteIcap, ConfigBack, Look, Goto, PciReloads, Idle
<1>2. CASE PciEfxReload
  BY <1>2 DEF PciEfxReload, SaveConfig, ConfigBack, Look, Goto, PciReloads, Idle
<1> QED BY <1>1, <1>2

LEMMA ConfigInBoard ==
  ASSUME ConfigInv, InBoard \/ Chip
  PROVE  ConfigInv'
<1>1. CASE InBoard
  <2>1. (routine' = routine /\ UNCHANGED result) \/ \E v : Return(v)
    BY <1>1, OtherRoutineSteps, PciSteps DEF InBoard, RoutineStep, FaultStep, OtherRoutine
  <2> QED BY <2>1 DEF ConfigInv, Return
<1>2. CASE Chip
  BY <1>2 DEF Chip, FpgaStep, FpgaClears, FpgaStarts, codeVars, ConfigInv
<1> QED BY <1>1, <1>2

LEMMA ConfigSame ==
  ASSUME ConfigInv, UNCHANGED codeVars
  PROVE  ConfigInv'
BY DEF codeVars, ConfigInv

LEMMA ConfigCall ==
  ASSUME NEW r, NEW f, NEW fb, CallRoutine(r, f, fb)
  PROVE  ConfigInv'
BY DEF CallRoutine, ConfigInv, NoResult

\* A step of main calls one function of the board, or leaves all as it is.
LEMMA MainCallsOrLeaves ==
  ASSUME Start \/ Process
  PROVE  \/ \E r, f, fb : CallRoutine(r, f, fb)
         \/ UNCHANGED <<codeVars, cfg>>
<1>1. CASE Start \/ GetOption \/ EndOfOptions \/ Main \/ ScanBus \/ ScanDevice \/ GetDev \/ Open
  BY <1>1 DEF Start, GetOption, EndOfOptions, Main, ScanBus, ScanDevice, GetDev, Open, RestUnchanged,
              loadVars, boardVars
<1>2. CASE AccessRegisters \/ SetRemote \/ FlashCommand \/ Verify \/ Close \/ Cleanup \/ NoReload
  BY <1>2 DEF AccessRegisters, SetRemote, FlashCommand, Verify, CallFlash, Close, Cleanup,
              NoReload, loadVars, boardVars
<1>3. CASE ProgramReturns \/ ReloadReturns \/ OnlyResetReturns
  BY <1>3 DEF ProgramReturns, ReloadReturns, OnlyResetReturns, loadVars, boardVars
<1>4. CASE ProgramFpga \/ ResetReturns \/ Reload \/ Reset
  BY <1>4 DEF ProgramFpga, ResetReturns, Reload, Reset, CallsBoard, Refuses, loadVars, boardVars
<1> QED BY <1>1, <1>2, <1>3, <1>4 DEF Process

\* An answer is lost while main searches, opens, reads or writes the board or
\* has it reloaded over Ethernet or the serial line.
LEMMA AnswerLostMoves ==
  ASSUME AnswerLost
  PROVE  /\ pc \in {"search", "open", "verify", "command", "reloading"}
         /\ pc # "search" => board.bus \in {"ETH", "SER"}
         /\ pc = "reloading" => routine = "lbp16_board_reload"
         /\ pc' \in {"off", "unanswered"} /\ routine' = Idle /\ at' = Idle
         /\ ret' \in {ret, -1}
         /\ faults < MaxFaults /\ faults' = faults + 1
         /\ UNCHANGED <<args, access, flags, bitfile_name, buses, devices, boards, board, called,
                        bench, enabled, sessions, kills, file, fallback, left, count, saved,
                        result, boardVars, broken, old>>
<1>1. /\ pc \in {"search", "open", "verify", "command", "reloading"}
      /\ pc # "search" => board.bus \in {"ETH", "SER"}
      /\ pc = "reloading" => routine = "lbp16_board_reload"
  BY DEF AnswerLost, EthernetAsked, SerialAsked, BusToScan, PrintsMore, AsksVersion, InRoutine
<1>2. pc' \in {"off", "unanswered"} /\ ret' \in {ret, -1}
  BY DEF AnswerLost, Exit, Dies, GoOn
<1> QED BY <1>1, <1>2 DEF AnswerLost

LEMMA ConfigNext == ConfigInv /\ [Next]_vars => ConfigInv'
<1> SUFFICES ASSUME ConfigInv, [Next]_vars PROVE ConfigInv'
  OBVIOUS
<1>1. CASE Start \/ Process
  BY <1>1, MainCallsOrLeaves, ConfigCall, ConfigSame
<1>2. CASE Kill \/ AnswerLost
  BY <1>2 DEF Kill, AnswerLost, ConfigInv
<1>3. CASE InBoard \/ Chip
  BY <1>3, ConfigInBoard
<1>4. CASE UNCHANGED vars
  BY <1>4, ConfigSame DEF vars, loadVars
<1> QED BY <1>1, <1>2, <1>3, <1>4 DEF Next

-----------------------------------------------------------------------------
(* The boards *)

Values(f) == {f[x] : x \in DOMAIN f}

KnownBoards ==
  Values(EthBoards) \cup Values(PciBoards) \cup Values(EppHm2Boards) \cup Values(UsbBoards)
    \cup Values(SpiBoards)
    \cup {RecoverBoard, EppioBoard, EppCpldBoard, UsbCpldBoard, SerialBoard, NoBoard}

Pairs ==
  {<<"plx9030_reset", "plx9030_program_fpga">>, <<"plx905x_reset", "plx905x_program_fpga">>,
   <<"epp_reset", "epp_program_fpga">>}

\* What every board_t that a scan fills in keeps to.
BoardOK(b) ==
  /\ b.mem => b.life /\ b.io /\ b.bus \notin {"ETH", "SER"}
  /\ b.reset \in Resets \cup {NULL} /\ b.reload \in Reloads \cup {NULL}
  /\ b.reset # NULL /\ b.program # NULL => <<b.reset, b.program>> \in Pairs

LEMMA EthBoardOK ==
  ASSUME NEW n, NEW p
  PROVE  BoardOK(EthBoard(n, p))
BY DEF EthBoard, NoBoard, BoardOK, Resets, Reloads, NULL

LEMMA PciBoardOK == \A n : BoardOK(PciBoard(n))
BY DEF PciBoard, NoBoard, BoardOK, Resets, Reloads, NULL

LEMMA PciLoadBoardOK ==
  ASSUME NEW n, NEW p, NEW r, <<r, p>> \in Pairs, r \in Resets
  PROVE  BoardOK(PciLoadBoard(n, p, r))
BY DEF PciLoadBoard, PciBoard, NoBoard, BoardOK, Resets, Reloads, NULL

LEMMA PciFlashBoardOK ==
  ASSUME NEW n, NEW p, NEW r \in Reloads \cup {NULL}
  PROVE  BoardOK(PciFlashBoard(n, r, p))
BY DEF PciFlashBoard, PciBoard, NoBoard, BoardOK, Resets, Reloads, NULL

LEMMA EthBoardsOK == \A b \in Values(EthBoards) : BoardOK(b)
<1>1. /\ \A n \in DOMAIN EthBoards80 : BoardOK(EthBoards80[n])
      /\ \A n \in DOMAIN EthBoards76 : BoardOK(EthBoards76[n])
      /\ \A n \in DOMAIN EthBoards94 : BoardOK(EthBoards94[n])
      /\ \A n \in DOMAIN EthBoards96 : BoardOK(EthBoards96[n])
  BY EthBoardOK DEF EthBoards80, EthBoards76, EthBoards94, EthBoards96
<1> QED BY <1>1 DEF EthBoards, Values

LEMMA PciBoardsOK == \A b \in Values(PciBoards) : BoardOK(b)
<1>1. /\ \A n \in DOMAIN PciMesa2 : BoardOK(PciMesa2[n])
      /\ \A n \in DOMAIN PciMesa6 : BoardOK(PciMesa6[n])
  BY PciFlashBoardOK DEF PciMesa2, PciMesa6, Reloads
<1>2. /\ \A n \in DOMAIN PciPlx9030 : BoardOK(PciPlx9030[n])
      /\ \A n \in DOMAIN PciPlx9054 : BoardOK(PciPlx9054[n])
      /\ \A n \in DOMAIN PciPlx8112 : BoardOK(PciPlx8112[n])
  BY PciLoadBoardOK, PciBoardOK DEF PciPlx9030, PciPlx9054, PciPlx8112, Resets, Pairs
<1>3. \A n \in DOMAIN PciPlx9056 : BoardOK(PciPlx9056[n])
  <2>1. <<"plx905x_reset", "plx905x_program_fpga">> \in Pairs /\ "plx905x_reset" \in Resets
    BY DEF Pairs, Resets
  <2> DEFINE loaded(n) == PciLoadBoard(n, "plx905x_program_fpga", "plx905x_reset")
  <2>2. ASSUME NEW n PROVE BoardOK([loaded(n) EXCEPT !.flashOps = WriteVerify, !.flash = "IO"])
    <3>1. BoardOK(loaded(n))
      BY <2>1, PciLoadBoardOK
    <3> QED BY <3>1 DEF BoardOK, PciLoadBoard, PciBoard, NoBoard
  <2> QED BY <2>2 DEF PciPlx9056
<1> QED BY <1>1, <1>2, <1>3 DEF PciBoards, Values

LEMMA KnownBoardsOK == \A b \in KnownBoards : BoardOK(b)
<1>1. \A n \in DOMAIN EppHm2Boards : BoardOK(EppHm2Boards[n])
  BY DEF EppHm2Boards, EppHm2Board, EppBoard, NoBoard, BoardOK, Resets, Reloads, Pairs, NULL
<1>2. BoardOK(EppioBoard) /\ BoardOK(EppCpldBoard)
  BY DEF EppioBoard, EppCpldBoard, EppBoard, NoBoard, BoardOK, Resets, Reloads, Pairs, NULL
<1>3. (\A n \in DOMAIN UsbBoards : BoardOK(UsbBoards[n])) /\ BoardOK(UsbCpldBoard)
  BY DEF UsbBoards, UsbCpldBoard, UsbBoard, NoBoard, BoardOK, Resets, Reloads, NULL
<1>4. (\A n \in DOMAIN SpiBoards : BoardOK(SpiBoards[n])) /\ BoardOK(SerialBoard)
  BY DEF SpiBoards, SerialBoard, NoBoard, BoardOK, Resets, Reloads, NULL
<1>5. BoardOK(RecoverBoard) /\ BoardOK(NoBoard)
  BY DEF RecoverBoard, PciBoard, NoBoard, BoardOK, Resets, Reloads, NULL
<1> QED BY <1>1, <1>2, <1>3, <1>4, <1>5, EthBoardsOK, PciBoardsOK DEF KnownBoards, Values

\* The resets of the PCI cards, by their bridges.
LEMMA PciResets ==
  /\ \A n \in DOMAIN PciMesa2 : PciMesa2[n].reset = NULL
  /\ \A n \in DOMAIN PciMesa6 : PciMesa6[n].reset = NULL
  /\ \A n \in DOMAIN PciPlx9054 : PciPlx9054[n].reset = "plx905x_reset"
  /\ \A n \in DOMAIN PciPlx9056 : PciPlx9056[n].reset = "plx905x_reset"
  /\ \A n \in DOMAIN PciPlx9030 : PciPlx9030[n].reset = "plx9030_reset"
  /\ \A n \in DOMAIN PciPlx8112 : PciPlx8112[n].reset = NULL
<1>1. \A n, r, p : PciFlashBoard(n, r, p).reset = NULL
  BY DEF PciFlashBoard, PciBoard, NoBoard
<1>2. \A n, p, r : PciLoadBoard(n, p, r).reset = r
  BY DEF PciLoadBoard, PciBoard, NoBoard
<1>3. \A n : PciBoard(n).reset = NULL
  BY DEF PciBoard, NoBoard
<1>4. \A n : [PciLoadBoard(n, "plx905x_program_fpga", "plx905x_reset")
               EXCEPT !.flashOps = WriteVerify, !.flash = "IO"].reset = "plx905x_reset"
  BY <1>2 DEF PciLoadBoard, PciBoard, NoBoard
<1>5. /\ \A n \in DOMAIN PciMesa2 : PciMesa2[n].reset = NULL
      /\ \A n \in DOMAIN PciMesa6 : PciMesa6[n].reset = NULL
  BY <1>1 DEF PciMesa2, PciMesa6
<1>6. /\ \A n \in DOMAIN PciPlx9054 : PciPlx9054[n].reset = "plx905x_reset"
      /\ \A n \in DOMAIN PciPlx9030 : PciPlx9030[n].reset = "plx9030_reset"
  BY <1>2 DEF PciPlx9054, PciPlx9030
<1>7. /\ \A n \in DOMAIN PciPlx9056 : PciPlx9056[n].reset = "plx905x_reset"
      /\ \A n \in DOMAIN PciPlx8112 : PciPlx8112[n].reset = NULL
  BY <1>3, <1>4 DEF PciPlx9056, PciPlx8112
<1> QED BY <1>5, <1>6, <1>7

\* A card of PciBoards is in the table of one bridge.
LEMMA PciTables ==
  ASSUME NEW n \in DOMAIN PciBoards
  PROVE  \/ n \in DOMAIN PciMesa2 /\ PciBoards[n] = PciMesa2[n]
         \/ n \in DOMAIN PciMesa6 /\ PciBoards[n] = PciMesa6[n]
         \/ n \in DOMAIN PciPlx9030 /\ PciBoards[n] = PciPlx9030[n]
         \/ n \in DOMAIN PciPlx9054 /\ PciBoards[n] = PciPlx9054[n]
         \/ n \in DOMAIN PciPlx9056 /\ PciBoards[n] = PciPlx9056[n]
         \/ n \in DOMAIN PciPlx8112 /\ PciBoards[n] = PciPlx8112[n]
BY DEF PciBoards

\* Only the cards with a PLX9030 are reset by plx9030_reset ...
LEMMA Plx9030Cards ==
  ASSUME NEW n \in DOMAIN PciBoards, PciBoards[n].reset = "plx9030_reset"
  PROVE  n \in DOMAIN PciPlx9030
BY PciTables, PciResets DEF NULL

\* ... and only what EPP finds by epp_reset.
LEMMA ResetOfPci ==
  ASSUME NEW n \in DOMAIN PciBoards
  PROVE  PciBoards[n].reset # "epp_reset"
BY PciTables, PciResets DEF NULL

LEMMA ResetOfEth == \A b \in Values(EthBoards) : b.reset = "lbp16_board_reset"
<1>1. \A n, p : EthBoard(n, p).reset = "lbp16_board_reset"
  BY DEF EthBoard, NoBoard
<1>2. /\ \A n \in DOMAIN EthBoards80 : EthBoards80[n].reset = "lbp16_board_reset"
      /\ \A n \in DOMAIN EthBoards76 : EthBoards76[n].reset = "lbp16_board_reset"
      /\ \A n \in DOMAIN EthBoards94 : EthBoards94[n].reset = "lbp16_board_reset"
      /\ \A n \in DOMAIN EthBoards96 : EthBoards96[n].reset = "lbp16_board_reset"
  BY <1>1 DEF EthBoards80, EthBoards76, EthBoards94, EthBoards96
<1> QED BY <1>2 DEF EthBoards, Values

LEMMA ResetOfEpp ==
  \A b \in Values(EppHm2Boards) \cup {EppioBoard, EppCpldBoard} : b.reset # "plx9030_reset"
<1>1. \A n : EppHm2Board(n).reset = NULL /\ EppBoard(n).reset = NULL
  BY DEF EppHm2Board, EppBoard, NoBoard
<1>2. \A n \in DOMAIN EppHm2Boards : EppHm2Boards[n].reset \in {"epp_reset", NULL}
  BY <1>1 DEF EppHm2Boards, EppHm2Board, EppBoard, NoBoard
<1>3. EppioBoard.reset = NULL /\ EppCpldBoard.reset = "epp_reset"
  BY <1>1 DEF EppioBoard, EppCpldBoard, EppBoard, NoBoard
<1> QED BY <1>2, <1>3 DEF Values, NULL

LEMMA ResetOfOthers ==
  \A b \in Values(UsbBoards) \cup Values(SpiBoards)
             \cup {UsbCpldBoard, SerialBoard, RecoverBoard, NoBoard} :
    b.reset \in {"lbp16_board_reset", NULL}
<1>1. \A n \in DOMAIN UsbBoards : UsbBoards[n].reset = NULL
  BY DEF UsbBoards, UsbBoard, NoBoard
<1>2. \A n \in DOMAIN SpiBoards : SpiBoards[n].reset = NULL
  BY DEF SpiBoards, NoBoard
<1>3. UsbCpldBoard.reset = NULL /\ RecoverBoard.reset = NULL /\ NoBoard.reset = NULL
  BY DEF UsbCpldBoard, UsbBoard, RecoverBoard, PciBoard, NoBoard
<1>4. SerialBoard.reset = "lbp16_board_reset"
  BY DEF SerialBoard, NoBoard
<1> QED BY <1>1, <1>2, <1>3, <1>4 DEF Values


-----------------------------------------------------------------------------
(* The options, and the search for boards *)

AllFlags == Flags \cup ValueOptions \cup {"ip", "ledmode"}

EppHolder(b) == b.root => \A there \in EppMayShow(b) : NamedAs(b.holder, EppFound(there))
EppBench ==
  bench.line.enabled /\ bench.line.WRITE = 0 /\ ~HasPlx9030(bench) /\ EppHolder(bench)

Options ==
  /\ args \in Seq([name : STRING, arg : STRING])
  /\ \A i \in DOMAIN args :
       args[i].name \in FileOptions => args[i].arg \in Files \cup {"toolong"}
  /\ flags \subseteq AllFlags /\ bitfile_name \in Files \cup {Nothing}
  /\ "type" \in DOMAIN access /\ access.type \in {"ANY", "EPP", "USB", "SPI", "SER"}

Buses == {"ETH", "PCI", "EPP", "USB", "SPI", "SER"}

EppAsked ==
  /\ buses \subseteq Buses
  /\ Given(args, "epp") \/ "epp" \in flags => EppBench
  /\ access.type = "EPP" \/ "EPP" \in buses => "epp" \in flags

Devices ==
  /\ devices \in Seq(STRING)
  /\ \A i \in DOMAIN devices : \E j \in DOMAIN bench.pci : devices[i] = bench.pci[j]

\* A board is loaded through the bridge or port that is there, and has the name
\* of the holder of the FPGA if it drives anything.
Here(b) ==
  /\ Drives(b) => b.name = bench.holder
  /\ b.reset = "plx9030_reset" => HasPlx9030(bench)
  /\ b.reset = "epp_reset" => EppBench

FoundBoards ==
  /\ boards \in Seq(KnownBoards) /\ \A i \in DOMAIN boards : Here(boards[i])
  /\ board \in KnownBoards /\ Here(board)

SearchInv == bench \in Benches /\ Options /\ EppAsked /\ Devices /\ FoundBoards

LEMMA BenchFacts ==
  ASSUME NEW b \in Benches
  PROVE  /\ b.line \in [PROGRAM : 0 .. 1, WRITE : 0 .. 1, enabled : BOOLEAN]
         /\ HasPlx9030(b) => b.line.enabled
         /\ b.pci \in Seq(STRING)
         /\ \A found \in FoundOn(b) : NamedAs(b.holder, found)
BY BenchAssumption

LEMMA LineFacts ==
  ASSUME NEW b \in Benches, NEW l \in b.lines
  PROVE  /\ l \in Seq([name : STRING, arg : STRING])
         /\ \A i \in DOMAIN l : l[i].name \in FileOptions => l[i].arg \in Files \cup {"toolong"}
         /\ Given(l, "epp") => b.line.enabled /\ b.line.WRITE = 0 /\ ~HasPlx9030(b)
                                /\ EppHolder(b)
BY BenchAssumption DEF EppHolder

LEMMA NoBoardHere == NoBoard \in KnownBoards /\ Here(NoBoard)
BY DEF KnownBoards, Here, Drives, NoBoard, NULL

LEMMA SearchInit == Init => SearchInv
<1> SUFFICES ASSUME Init PROVE SearchInv
  OBVIOUS
<1>1. /\ bench \in Benches /\ args = <<>> /\ flags = {} /\ bitfile_name = Nothing
      /\ access = NoAccess /\ buses = {} /\ devices = <<>> /\ boards = <<>> /\ board = NoBoard
  BY DEF Init, SessionInit
<1>2. access.type = "ANY" /\ "type" \in DOMAIN access
  BY <1>1 DEF NoAccess
<1>3. Options
  BY <1>1, <1>2 DEF Options
<1>4. EppAsked
  BY <1>1, <1>2 DEF EppAsked, Given
<1>5. Devices
  BY <1>1 DEF Devices
<1>6. FoundBoards
  BY <1>1, NoBoardHere DEF FoundBoards
<1> QED BY <1>1, <1>3, <1>4, <1>5, <1>6 DEF SearchInv

LEMMA SearchSame ==
  ASSUME SearchInv, UNCHANGED <<bench, args, access, flags, bitfile_name, buses, devices, boards,
                                board>>
  PROVE  SearchInv'
BY DEF SearchInv, Options, EppAsked, EppBench, Devices, FoundBoards, Here

LEMMA SearchStart ==
  ASSUME SearchInv, Start
  PROVE  SearchInv'
<1>1. /\ bench' = bench /\ bench \in Benches /\ args' \in bench.lines
      /\ flags' = {} /\ bitfile_name' = Nothing
      /\ access' = NoAccess /\ buses' = {} /\ devices' = <<>> /\ boards' = <<>>
      /\ board' = NoBoard
  BY DEF Start, SearchInv
<1>2. access'.type = "ANY" /\ "type" \in DOMAIN access'
  BY <1>1 DEF NoAccess
<1>3. Options'
  BY <1>1, <1>2, LineFacts DEF Options
<1>4. EppAsked'
  <2>1. Given(args', "epp") => EppBench'
    BY <1>1, LineFacts DEF EppBench
  <2> QED BY <1>1, <1>2, <2>1 DEF EppAsked
<1>5. Devices'
  BY <1>1 DEF Devices
<1>6. FoundBoards'
  <2>1. Here(NoBoard)'
    BY DEF Here, Drives, NoBoard, NULL
  <2> QED BY <1>1, <2>1, NoBoardHere DEF FoundBoards
<1> QED BY <1>1, <1>3, <1>4, <1>5, <1>6 DEF SearchInv

\* The rest of the options, after the first of them.
LEMMA TailOfSeq ==
  ASSUME NEW S, NEW s \in Seq(S), s # <<>>
  PROVE  /\ Tail(s) \in Seq(S) /\ Head(s) \in S /\ 1 \in DOMAIN s /\ Head(s) = s[1]
         /\ \A i \in DOMAIN Tail(s) : i + 1 \in DOMAIN s /\ Tail(s)[i] = s[i + 1]
<1>1. Len(s) \in Nat \ {0} /\ DOMAIN s = 1 .. Len(s)
  OBVIOUS
<1>2. Tail(s) \in Seq(S) /\ Len(Tail(s)) = Len(s) - 1
  BY <1>1
<1>3. DOMAIN Tail(s) = 1 .. Len(s) - 1
  BY <1>2
<1> QED BY <1>1, <1>2, <1>3

LEMMA SearchGetOption ==
  ASSUME SearchInv, GetOption
  PROVE  SearchInv'
<1>1. /\ args \in Seq([name : STRING, arg : STRING]) /\ args # <<>> /\ args' = Tail(args)
      /\ UNCHANGED <<bench, buses, devices, boards, board>>
  BY DEF GetOption, RestUnchanged, SearchInv, Options
<1>2. /\ args' \in Seq([name : STRING, arg : STRING]) /\ option \in [name : STRING, arg : STRING]
      /\ 1 \in DOMAIN args /\ option = args[1]
      /\ \A i \in DOMAIN args' : i + 1 \in DOMAIN args /\ args'[i] = args[i + 1]
  BY <1>1, TailOfSeq DEF option
<1>3. \A i \in DOMAIN args' :
        args'[i].name \in FileOptions => args'[i].arg \in Files \cup {"toolong"}
  BY <1>2 DEF SearchInv, Options
<1>4. /\ flags' \subseteq AllFlags /\ bitfile_name' \in Files \cup {Nothing}
      /\ access'.type = access.type /\ "type" \in DOMAIN access'
      /\ "epp" \in flags' => "epp" \in flags \/ option.name = "epp"
  <2>1. CASE NameTooLong
    BY <2>1 DEF GetOption, SearchInv, Options
  <2>2. CASE ~NameTooLong
    <3>1. option.name \in FileOptions \ flags => option.arg \in Files
      BY <1>2, <2>2 DEF NameTooLong, SearchInv, Options
    <3>2. OptionOnce /\ flags \subseteq AllFlags /\ bitfile_name \in Files \cup {Nothing}
      BY <2>2 DEF GetOption, SearchInv, Options
    <3>3. PICK d : access' = access \/ access' = [access EXCEPT !.device = d]
      BY <3>2 DEF OptionOnce, SetsValue, Refused
    <3>4. bitfile_name' \in Files \cup {Nothing}
      BY <3>1, <3>2 DEF OptionOnce, SetsValue, Refused
    <3>5. flags' \subseteq AllFlags /\ ("epp" \in flags' => "epp" \in flags \/ option.name = "epp")
      BY <3>2 DEF OptionOnce, SetsValue, Refused, AllFlags, ValueOptions
    <3>6. access'.type = access.type /\ "type" \in DOMAIN access'
      BY <3>3 DEF SearchInv, Options
    <3> QED BY <3>4, <3>5, <3>6
  <2> QED BY <2>1, <2>2
<1>5. Options'
  BY <1>2, <1>3, <1>4 DEF Options, SearchInv
<1>6. EppAsked'
  <2>1. Given(args', "epp") \/ "epp" \in flags' => Given(args, "epp") \/ "epp" \in flags
    BY <1>2, <1>4 DEF Given
  <2>2. "epp" \in flags => "epp" \in flags'
    BY DEF GetOption, OptionOnce, SetsValue, Refused
  <2> QED BY <1>1, <1>4, <2>1, <2>2 DEF EppAsked, EppBench, SearchInv
<1> QED BY <1>1, <1>5, <1>6 DEF SearchInv, Devices, FoundBoards, Here, EppBench

LEMMA SearchEndOfOptions ==
  ASSUME SearchInv, EndOfOptions
  PROVE  SearchInv'
<1>1. UNCHANGED <<bench, args, flags, bitfile_name, buses, devices, boards, board>>
  BY DEF EndOfOptions, RestUnchanged
<1>2. access' = [access EXCEPT !.type = TypeAsked]
  BY DEF EndOfOptions
<1>3. /\ TypeAsked \in {"ANY", "EPP", "USB", "SPI", "SER"}
      /\ TypeAsked = "EPP" => "epp" \in flags
  BY DEF TypeAsked
<1>4. access'.type = TypeAsked /\ "type" \in DOMAIN access'
  BY <1>2 DEF SearchInv, Options
<1>5. Options' /\ EppAsked'
  BY <1>1, <1>3, <1>4 DEF SearchInv, Options, EppAsked, EppBench
<1> QED BY <1>1, <1>5 DEF SearchInv, Devices, FoundBoards, Here, EppBench

\* EPP is searched only when it is asked for: no name stands for EPP alone.
LEMMA EppOnlyAsked ==
  ASSUME NEW n \in DOMAIN supported_boards \ DOMAIN Multi
  PROVE  supported_boards[n] \subseteq Buses /\ "EPP" \notin supported_boards[n]
BY DEF supported_boards, Buses

LEMMA EntryKnown == \A n : Entry(n) # NULL => Entry(n) \in DOMAIN supported_boards
BY NamesAssumption DEF Entry

LEMMA SearchMainStep ==
  ASSUME SearchInv, Main
  PROVE  SearchInv'
<1>1. UNCHANGED <<bench, args, flags, bitfile_name, devices, boards, board>>
  BY DEF Main
<1>2. access'.type = access.type /\ "type" \in DOMAIN access'
  <2>1. "type" \in DOMAIN access
    BY DEF SearchInv, Options
  <2>2. \/ access' = access
        \/ access' = [access EXCEPT !.recover = "recover" \in flags,
                                    !.address = "addr" \in flags,
                                    !.open_iface = {"WILDCARD" : n \in {Entry(access.device)}
                                                                 \cap WildcardNames}]
    BY DEF Main
  <2> QED BY <2>1, <2>2
<1>3. buses' \subseteq Buses /\ ("EPP" \in buses' => "EPP" \in buses \/ access.type = "EPP")
  <2> DEFINE entry == Entry(access.device)
             refused == entry = NULL \/ (access.type = "ANY" /\ entry \in DOMAIN Multi)
             asked == IF access.type = "ANY" THEN supported_boards[entry] ELSE {access.type}
  <2>1. ~refused => asked \subseteq Buses /\ ("EPP" \in asked => access.type = "EPP")
    BY EppOnlyAsked, EntryKnown DEF SearchInv, Options, Buses
  <2>2. buses' = buses \/ (~refused /\ buses' = asked)
    BY DEF Main
  <2> QED BY <2>1, <2>2 DEF SearchInv, EppAsked
<1>4. Options' /\ EppAsked'
  BY <1>1, <1>2, <1>3 DEF SearchInv, Options, EppAsked, EppBench
<1> QED BY <1>1, <1>4 DEF SearchInv, Devices, FoundBoards, Here, EppBench

LEMMA NextBusAsked ==
  ASSUME buses \subseteq Buses, buses # {}
  PROVE  NextBus \in buses
<1> DEFINE first(i) == BusOrder[i] \in buses /\ \A j \in 1 .. i - 1 : BusOrder[j] \notin buses
<1>1. DOMAIN BusOrder = 1 .. 6 /\ Buses = {BusOrder[i] : i \in 1 .. 6}
  BY DEF BusOrder, Buses
<1>2. \/ first(1) \/ first(2) \/ first(3) \/ first(4) \/ first(5) \/ first(6)
  <2>1. \/ BusOrder[1] \in buses \/ BusOrder[2] \in buses \/ BusOrder[3] \in buses
        \/ BusOrder[4] \in buses \/ BusOrder[5] \in buses \/ BusOrder[6] \in buses
    BY DEF BusOrder, Buses
  <2> QED BY <2>1
<1>3. \E i \in DOMAIN BusOrder : first(i)
  BY <1>1, <1>2
<1> QED BY <1>3 DEF NextBus

LEMMA FoundMore ==
  ASSUME FoundBoards, NEW found \in Seq(KnownBoards), \A i \in DOMAIN found : Here(found[i]),
         boards' = boards \o found, UNCHANGED <<bench, board>>
  PROVE  FoundBoards'
<1>1. boards \in Seq(KnownBoards) /\ board \in KnownBoards /\ Here(board)
  BY DEF FoundBoards
<1>2. boards' \in Seq(KnownBoards)
  BY <1>1
<1>3. \A b : Here(b)' <=> Here(b)
  BY DEF Here, EppBench
<1>4. \A i \in DOMAIN boards' : Here(boards'[i])
  <2> SUFFICES ASSUME NEW i \in DOMAIN boards' PROVE Here(boards'[i])
    OBVIOUS
  <2>1. Len(boards) \in Nat /\ Len(found) \in Nat /\ i \in 1 .. Len(boards) + Len(found)
    BY <1>1
  <2>2. CASE i <= Len(boards)
    BY <2>1, <2>2, <1>1 DEF FoundBoards
  <2>3. CASE i > Len(boards)
    <3>1. boards'[i] = found[i - Len(boards)] /\ i - Len(boards) \in DOMAIN found
      BY <2>1, <2>3, <1>1
    <3> QED BY <3>1
  <2> QED BY <2>1, <2>2, <2>3
<1> QED BY <1>1, <1>2, <1>3, <1>4 DEF FoundBoards

\* One board that is found, or none.
LEMMA OneFound ==
  ASSUME NEW b \in KnownBoards, Here(b)
  PROVE  <<b>> \in Seq(KnownBoards) /\ \A i \in DOMAIN <<b>> : Here(<<b>>[i])
OBVIOUS

LEMMA NoneFound == <<>> \in Seq(KnownBoards) /\ \A i \in DOMAIN <<>> : Here((<<>>)[i])
OBVIOUS

FindsHere(found) == found \in Seq(KnownBoards) /\ \A i \in DOMAIN found : Here(found[i])

\* What a scan of the bench found, other than on EPP.
LEMMA NamedHere ==
  ASSUME bench \in Benches, NEW b, <<b>> \in FoundOn(bench)
  PROVE  Drives(b) => b.name = bench.holder
<1>1. NamedAs(bench.holder, <<b>>)
  BY BenchFacts
<1> QED BY <1>1 DEF NamedAs

LEMMA OthersHere ==
  ASSUME NEW b \in KnownBoards, b.reset \in {"lbp16_board_reset", NULL},
         Drives(b) => b.name = bench.holder
  PROVE  FindsHere(<<b>>)
BY OneFound DEF Here, FindsHere, NULL

LEMMA EthFinds ==
  ASSUME bench \in Benches
  PROVE  \A given : FindsHere(EthScan(bench.eth, given).found)
<1>1. ASSUME bench.eth \in DOMAIN EthBoards PROVE FindsHere(<<EthBoards[bench.eth]>>)
  <2>1. EthBoards[bench.eth] \in Values(EthBoards) /\ EthBoards[bench.eth] \in KnownBoards
    BY <1>1 DEF Values, KnownBoards
  <2>2. EthScan(bench.eth, TRUE).found = <<EthBoards[bench.eth]>>
    BY <1>1 DEF EthScan
  <2>3. <<EthBoards[bench.eth]>> \in FoundOn(bench)
    BY <2>2 DEF FoundOn
  <2> QED BY <2>1, <2>3, NamedHere, OthersHere, ResetOfEth
<1> QED BY <1>1, NoneFound DEF EthScan, FindsHere

LEMMA EppFinds ==
  ASSUME EppBench, bench.root
  PROVE  FindsHere(EppFound(EppShows))
<1>1. EppShows \in EppMayShow(bench)
  BY DEF EppShows, EppMayShow
<1>2. NamedAs(bench.holder, EppFound(EppShows))
  BY <1>1 DEF EppBench, EppHolder
<1>3. ASSUME NEW b \in Values(EppHm2Boards) \cup {EppioBoard, EppCpldBoard},
             EppFound(EppShows) = <<b>>
      PROVE  FindsHere(<<b>>)
  <2>1. Drives(b) => b.name = bench.holder
    BY <1>2, <1>3 DEF NamedAs
  <2> QED BY <2>1, ResetOfEpp, OneFound DEF Here, FindsHere, KnownBoards
<1>4. \/ \E b \in Values(EppHm2Boards) \cup {EppioBoard, EppCpldBoard} : EppFound(EppShows) = <<b>>
      \/ EppFound(EppShows) = <<>>
  BY DEF EppFound, Values
<1> QED BY <1>3, <1>4, NoneFound DEF FindsHere

\* The boards of the other ports: at1(there) is what is there, or nothing.
LEMMA OthersFind ==
  ASSUME bench \in Benches
  PROVE  /\ FindsHere(UsbFound(bench.usb)) /\ FindsHere(SerialFound(bench.ser))
         /\ FindsHere(SpiFound(bench.spi)) /\ FindsHere(SpiFound("none"))
<1>1. ASSUME NEW b \in Values(UsbBoards) \cup Values(SpiBoards)
                          \cup {UsbCpldBoard, SerialBoard},
             <<b>> \in FoundOn(bench)
      PROVE  FindsHere(<<b>>)
  BY <1>1, ResetOfOthers, NamedHere, OthersHere DEF KnownBoards
<1>2. UsbFound(bench.usb) = <<>> \/ \E b \in Values(UsbBoards) \cup {UsbCpldBoard} :
                                       UsbFound(bench.usb) = <<b>>
  BY DEF UsbFound, Values
<1>3. SpiFound(bench.spi) = <<>> \/ \E b \in Values(SpiBoards) : SpiFound(bench.spi) = <<b>>
  BY DEF SpiFound, Values
<1>4. SerialFound(bench.ser) \in {<<>>, <<SerialBoard>>}
  BY DEF SerialFound
<1>5. SpiFound("none") = <<>>
  BY DEF SpiFound, SpiBoards
<1>6. {UsbFound(bench.usb), SpiFound(bench.spi), SerialFound(bench.ser)} \subseteq FoundOn(bench)
  BY DEF FoundOn
<1>7. FindsHere(UsbFound(bench.usb))
  BY <1>1, <1>2, <1>6, NoneFound DEF FindsHere
<1>8. FindsHere(SpiFound(bench.spi))
  BY <1>1, <1>3, <1>6, NoneFound DEF FindsHere
<1>9. FindsHere(SerialFound(bench.ser))
  BY <1>1, <1>4, <1>6, NoneFound DEF FindsHere
<1> QED BY <1>5, <1>7, <1>8, <1>9, NoneFound DEF FindsHere

LEMMA PciFinds ==
  ASSUME bench \in Benches, NEW d, \E j \in DOMAIN bench.pci : d = bench.pci[j], NEW recover
  PROVE  FindsHere(PciFound(d, recover))
<1>1. ASSUME d \in DOMAIN PciBoards PROVE FindsHere(<<PciBoards[d]>>)
  <2>1. PciBoards[d] \in KnownBoards
    BY <1>1 DEF KnownBoards, Values
  <2>2. d \in DOMAIN PciPlx9030 => HasPlx9030(bench)
    BY DEF HasPlx9030
  <2>3. <<PciBoards[d]>> \in FoundOn(bench)
    <3>1. PciFound(d, FALSE) = <<PciBoards[d]>>
      BY <1>1 DEF PciFound
    <3> QED BY <3>1 DEF FoundOn
  <2>4. Here(PciBoards[d])
    BY <1>1, <2>2, <2>3, NamedHere, Plx9030Cards, ResetOfPci DEF Here
  <2> QED BY <2>1, <2>4, OneFound DEF FindsHere
<1>2. FindsHere(<<RecoverBoard>>)
  <2>1. ~Drives(RecoverBoard)
    BY DEF Drives, RecoverBoard, PciBoard, NoBoard
  <2> QED BY <2>1, ResetOfOthers, OthersHere DEF KnownBoards
<1> QED BY <1>1, <1>2, NoneFound DEF PciFound, FindsHere

LEMMA ScanFinds ==
  ASSUME bench \in Benches, NextBus = "EPP" => EppBench, Scan(NextBus)
  PROVE  (\E found : FindsHere(found) /\ Found(found)) \/ UNCHANGED boards
<1>1. CASE NextBus = "ETH"
  BY <1>1, EthFinds DEF Scan, NothingFound
<1>2. CASE NextBus = "EPP"
  BY <1>2, EppFinds DEF Scan, NothingFound
<1>3. CASE NextBus \notin {"ETH", "EPP"}
  BY <1>3, OthersFind DEF Scan, NothingFound
<1> QED BY <1>1, <1>2, <1>3

LEMMA SearchScanBus ==
  ASSUME SearchInv, ScanBus
  PROVE  SearchInv'
<1>1. /\ UNCHANGED <<bench, args, flags, bitfile_name, board>>
      /\ devices' = IF NextBus = "PCI" /\ bench.root THEN bench.pci ELSE <<>>
      /\ buses' = buses \ {NextBus} /\ Scan(NextBus)
      /\ access' = [access EXCEPT !.open_iface = @ \cup {NextBus}]
  BY DEF ScanBus
<1>2. NextBus = "EPP" => EppBench
  BY NextBusAsked DEF ScanBus, SearchInv, EppAsked
<1>3. UNCHANGED boards \/ \E found : FindsHere(found) /\ boards' = boards \o found
  BY <1>1, <1>2, ScanFinds DEF Found, SearchInv
<1>4. FoundBoards'
  <2>1. CASE UNCHANGED boards
    BY <1>1, <2>1 DEF SearchInv, FoundBoards, Here, EppBench
  <2>2. CASE \E found : FindsHere(found) /\ boards' = boards \o found
    BY <1>1, <2>2, FoundMore DEF FindsHere, SearchInv
  <2> QED BY <1>3, <2>1, <2>2
<1>5. access'.type = access.type /\ "type" \in DOMAIN access'
  BY <1>1 DEF SearchInv, Options
<1>6. Options' /\ EppAsked'
  BY <1>1, <1>5 DEF SearchInv, Options, EppAsked, EppBench
<1>7. Devices'
  <2>1. bench.pci \in Seq(STRING)
    BY BenchFacts DEF SearchInv
  <2>2. devices' = <<>> \/ devices' = bench.pci
    BY <1>1
  <2>3. devices' \in Seq(STRING)
    <3>1. CASE devices' = <<>>
      BY <3>1
    <3>2. CASE devices' = bench.pci
      BY <2>1, <3>2
    <3> QED BY <2>2, <3>1, <3>2
  <2>4. \A i \in DOMAIN devices' : \E j \in DOMAIN bench.pci : devices'[i] = bench.pci[j]
    BY <2>2
  <2> QED BY <1>1, <2>3, <2>4 DEF Devices
<1> QED BY <1>1, <1>4, <1>6, <1>7 DEF SearchInv

LEMMA SearchScanDevice ==
  ASSUME SearchInv, ScanDevice
  PROVE  SearchInv'
<1>1. /\ UNCHANGED <<bench, args, access, flags, bitfile_name, buses, board>>
      /\ devices # <<>> /\ (devices' = <<>> \/ devices' = Tail(devices))
      /\ boards' = boards \o PciFound(Head(devices), access.recover)
  BY DEF ScanDevice, Found
<1>2. /\ Tail(devices) \in Seq(STRING) /\ Head(devices) = devices[1] /\ 1 \in DOMAIN devices
      /\ \A i \in DOMAIN Tail(devices) :
           i + 1 \in DOMAIN devices /\ Tail(devices)[i] = devices[i + 1]
  BY <1>1, TailOfSeq DEF SearchInv, Devices
<1>3. \E j \in DOMAIN bench.pci : Head(devices) = bench.pci[j]
  BY <1>2 DEF SearchInv, Devices
<1>4. FoundBoards'
  BY <1>1, <1>3, PciFinds, FoundMore DEF FindsHere, SearchInv
<1>5. Devices'
  <2>1. \A i \in DOMAIN devices' : \E j \in DOMAIN devices : devices'[i] = devices[j]
    <3>1. CASE devices' = <<>>
      BY <3>1
    <3>2. CASE devices' = Tail(devices)
      BY <1>2, <3>2
    <3> QED BY <1>1, <3>1, <3>2
  <2>2. devices' \in Seq(STRING)
    <3>1. CASE devices' = <<>>
      BY <3>1
    <3>2. CASE devices' = Tail(devices)
      BY <1>2, <3>2
    <3> QED BY <1>1, <3>1, <3>2
  <2> QED BY <1>1, <2>1, <2>2 DEF SearchInv, Devices
<1> QED BY <1>1, <1>4, <1>5 DEF SearchInv, Options, EppAsked, EppBench

LEMMA FirstIndex ==
  ASSUME NEW S \in SUBSET Nat, S # {}
  PROVE  (CHOOSE i \in S : \A j \in S : i <= j) \in S
<1>1. PICK n \in S : \A m \in S : ~ (<<m, n>> \in OpToRel(<, Nat))
  BY NatLessThanWellFounded, WFMin
<1>2. \A m \in S : ~ (m < n)
  BY <1>1, Zenon DEF OpToRel
<1>3. \A m \in S : n <= m
  BY <1>2
<1> QED BY <1>3

LEMMA SearchGetDev ==
  ASSUME SearchInv, GetDev
  PROVE  SearchInv'
<1>1. /\ UNCHANGED <<bench, args, access, flags, bitfile_name, buses, devices, boards>>
      /\ board' = anyio_get_dev(boards, access.device, "WILDCARD" \in access.open_iface)
  BY DEF GetDev, MainStep
<1>2. board' = NoBoard \/ \E i \in DOMAIN boards : board' = boards[i]
  <2> DEFINE mine == {i \in DOMAIN boards :
                        \/ "WILDCARD" \in access.open_iface
                        \/ NameMatches(access.device, boards[i])}
             first == CHOOSE i \in mine : \A j \in mine : i <= j
  <2>1. mine \in SUBSET Nat /\ mine \subseteq DOMAIN boards
    BY DEF SearchInv, FoundBoards
  <2>2. mine # {} => first \in mine
    BY <2>1, FirstIndex
  <2>3. board' = IF mine = {} THEN NoBoard ELSE boards[first]
    BY <1>1 DEF anyio_get_dev
  <2> QED BY <2>1, <2>2, <2>3
<1>3. board' \in KnownBoards /\ Here(board')
  BY <1>2, NoBoardHere DEF SearchInv, FoundBoards
<1> QED BY <1>1, <1>3 DEF SearchInv, Options, EppAsked, EppBench, Devices, FoundBoards, Here

\* The steps of main after the choice of the board.
Commands ==
  \/ Open \/ AccessRegisters \/ SetRemote \/ FlashCommand \/ Verify
  \/ ProgramFpga \/ ResetReturns \/ ProgramReturns \/ Reload \/ NoReload \/ ReloadReturns
  \/ Reset \/ OnlyResetReturns \/ Close

LEMMA CommandsKeep == Commands => MainStep /\ UNCHANGED board
<1> SUFFICES ASSUME Commands PROVE MainStep /\ UNCHANGED board
  OBVIOUS
<1>1. CASE Open \/ AccessRegisters \/ SetRemote \/ FlashCommand \/ Verify
  BY <1>1 DEF Open, AccessRegisters, SetRemote, FlashCommand, Verify, CallFlash
<1>2. CASE ProgramFpga \/ ResetReturns \/ ProgramReturns \/ Reload \/ NoReload
  BY <1>2 DEF ProgramFpga, ResetReturns, ProgramReturns, Reload, NoReload
<1>3. CASE ReloadReturns \/ Reset \/ OnlyResetReturns \/ Close
  BY <1>3 DEF ReloadReturns, Reset, OnlyResetReturns, Close
<1> QED BY <1>1, <1>2, <1>3 DEF Commands

LEMMA SearchNext == SearchInv /\ [Next]_vars => SearchInv'
<1> SUFFICES ASSUME SearchInv, [Next]_vars PROVE SearchInv'
  OBVIOUS
<1>1. CASE Start
  BY <1>1, SearchStart
<1>2. CASE Kill \/ AnswerLost
  BY <1>2, SearchSame DEF Kill, AnswerLost
<1>3. CASE GetOption \/ EndOfOptions \/ Main \/ ScanBus \/ ScanDevice \/ GetDev
  BY <1>3, SearchGetOption, SearchEndOfOptions, SearchMainStep, SearchScanBus,
     SearchScanDevice, SearchGetDev
<1>4. CASE Commands
  BY <1>4, CommandsKeep, SearchSame DEF MainStep
<1>5. CASE Cleanup
  <2>1. access'.type = access.type /\ "type" \in DOMAIN access'
    BY <1>5 DEF Cleanup, SearchInv, Options
  <2>2. UNCHANGED <<bench, args, flags, bitfile_name, buses, devices, boards, board>>
    BY <1>5 DEF Cleanup
  <2>3. Options' /\ EppAsked'
    BY <2>1, <2>2 DEF SearchInv, Options, EppAsked, EppBench
  <2> QED BY <2>2, <2>3 DEF SearchInv, Devices, FoundBoards, Here, EppBench
<1>6. CASE UNCHANGED <<mainVars, worldVars, pc>>
  BY <1>6, SearchSame DEF mainVars, worldVars
<1>7. CASE UNCHANGED vars
  BY <1>7, SearchSame DEF vars, mainVars, worldVars
<1> QED BY <1>1, <1>2, <1>3, <1>4, <1>5, <1>6, <1>7 DEF Next, Process, Commands

-----------------------------------------------------------------------------
(* The enabling of a PCI card *)

\* main has opened the board and not closed it.
Opened ==
  pc \in {"command", "verify", "reload", "programming", "resetting", "reloading",
          "only resetting", "close"}

EnableInv ==
  /\ enabled \in Nat /\ kills \in Nat
  /\ IF Opened /\ board.mem THEN enabled \in 1 .. kills + 1 ELSE enabled <= kills

LEMMA BoardFacts == SearchInv => BoardOK(board)
BY KnownBoardsOK DEF SearchInv, FoundBoards

LEMMA EnableNotOpened ==
  ASSUME EnableInv, ~(Opened /\ board.mem), ~Opened', UNCHANGED enabled, kills' \in {kills, kills + 1}
  PROVE  EnableInv'
BY DEF EnableInv

\* Nothing that main calls while the board is open ends the process, if the
\* board has its memory enabled.
LEMMA CommandsStayOpen ==
  ASSUME BoardOK(board), Chosen,
         \/ AccessRegisters \/ SetRemote \/ FlashCommand \/ Verify
         \/ ProgramFpga \/ ResetReturns \/ ProgramReturns \/ Reload \/ NoReload \/ ReloadReturns
         \/ Reset \/ OnlyResetReturns
  PROVE  /\ UNCHANGED <<enabled, kills, board>> /\ Opened
         /\ board.mem => Opened'
<1>1. CASE AccessRegisters
  BY <1>1 DEF AccessRegisters, MainStep, Opened, GoOn, BoardOK
<1>2. CASE SetRemote \/ NoReload
  BY <1>2 DEF SetRemote, NoReload, MainStep, Opened, GoOn
<1>3. CASE FlashCommand \/ Verify
  BY <1>3 DEF FlashCommand, Verify, CallFlash, NextAfter, AfterWrite, AfterVerify, MainStep,
              Opened, GoOn
<1>4. CASE ProgramFpga \/ Reload \/ Reset
  BY <1>4 DEF ProgramFpga, Reload, Reset, CanProgram, HasReset, Refuses, Finish, CallsBoard,
              MainStep, Opened, GoOn
<1>5. CASE ResetReturns
  BY <1>5 DEF ResetReturns, Returned, Chosen, Refuses, Finish, CallsBoard, MainStep, Opened,
              GoOn
<1>6. CASE ProgramReturns \/ ReloadReturns \/ OnlyResetReturns
  BY <1>6 DEF ProgramReturns, ReloadReturns, OnlyResetReturns, Returned, Finish, MainStep,
              Opened, GoOn
<1> QED BY <1>1, <1>2, <1>3, <1>4, <1>5, <1>6

\* Before the board is opened.
LEMMA SearchNotOpened ==
  ASSUME GetOption \/ EndOfOptions \/ Main \/ ScanBus \/ ScanDevice \/ GetDev
  PROVE  ~Opened /\ ~Opened' /\ UNCHANGED <<enabled, kills>>
<1>1. CASE GetOption \/ EndOfOptions
  BY <1>1 DEF GetOption, EndOfOptions, RestUnchanged, OptionOnce, SetsValue, Refused, Exit, GoOn,
              Opened
<1>2. CASE Main \/ GetDev
  BY <1>2 DEF Main, GetDev, MainStep, Exit, GoOn, Opened
<1>3. CASE ScanBus
  BY <1>3 DEF ScanBus, Scan, Found, NothingFound, Exit, Dies, GoOn, Opened
<1>4. CASE ScanDevice
  BY <1>4 DEF ScanDevice, Found, GoOn, Opened
<1> QED BY <1>1, <1>2, <1>3, <1>4

LEMMA EnableNext ==
  ASSUME SearchInv, MainInv, EnableInv, [Next]_vars
  PROVE  EnableInv'
<1>1. BoardOK(board) /\ Chosen
  BY BoardFacts DEF MainInv
<1>2. CASE Start
  BY <1>2, EnableNotOpened DEF Start, Opened, worldVars
<1>3. CASE Kill
  <2>1. pc' = "off" /\ enabled' = enabled /\ kills' = kills + 1
    BY <1>3 DEF Kill, Dies
  <2>2. enabled \in Nat /\ kills \in Nat /\ enabled <= kills + 1
    BY DEF EnableInv
  <2>3. ~Opened'
    BY <2>1 DEF Opened
  <2>4. enabled' \in Nat /\ kills' \in Nat /\ enabled' <= kills'
    BY <2>1, <2>2
  <2> QED BY <2>3, <2>4 DEF EnableInv
<1>4. CASE GetOption \/ EndOfOptions \/ Main \/ ScanBus \/ ScanDevice \/ GetDev
  BY <1>4, SearchNotOpened, EnableNotOpened
<1>10. CASE AnswerLost
  <2>1. /\ pc = "search" \/ board.bus \in {"ETH", "SER"}
        /\ UNCHANGED <<enabled, kills>> /\ pc' \in {"off", "unanswered"}
    BY <1>10, AnswerLostMoves
  <2>2. ~(Opened /\ board.mem) /\ ~Opened'
    BY <1>1, <2>1 DEF Opened, BoardOK
  <2> QED BY <2>1, <2>2, EnableNotOpened
<1>5. CASE Open
  <2>1. pc = "open" /\ board' = board /\ kills' = kills
    BY <1>5 DEF Open, MainStep
  <2>2. enabled \in Nat /\ kills \in Nat /\ enabled <= kills
    BY <2>1 DEF EnableInv, Opened
  <2>3. CASE board.mem
    <3>1. enabled' = enabled + 1 /\ pc' = "command" /\ board'.mem
      BY <1>1, <1>5, <2>1, <2>3 DEF Open, GoOn, BoardOK
    <3>2. Opened' /\ enabled' \in Nat /\ kills' \in Nat /\ enabled' \in 1 .. kills' + 1
      BY <2>1, <2>2, <3>1 DEF Opened
    <3> QED BY <3>1, <3>2 DEF EnableInv
  <2>4. CASE ~board.mem
    <3>1. enabled' = enabled /\ ~board'.mem
      BY <1>5, <2>1, <2>4 DEF Open
    <3>2. enabled' \in Nat /\ kills' \in Nat /\ enabled' <= kills'
      BY <2>1, <2>2, <3>1
    <3> QED BY <3>1, <3>2 DEF EnableInv
  <2> QED BY <2>3, <2>4
<1>6. CASE \/ AccessRegisters \/ SetRemote \/ FlashCommand \/ Verify
           \/ ProgramFpga \/ ResetReturns \/ ProgramReturns \/ Reload \/ NoReload
           \/ ReloadReturns \/ Reset \/ OnlyResetReturns
  BY <1>1, <1>6, CommandsStayOpen DEF EnableInv
<1>7. CASE Close
  BY <1>7 DEF Close, EnabledLess, GoOn, MainStep, EnableInv, Opened
<1>8. CASE Cleanup
  BY <1>8, EnableNotOpened DEF Cleanup, Exit, Opened
<1>9. CASE UNCHANGED <<mainVars, worldVars, pc>> \/ UNCHANGED vars
  BY <1>9 DEF vars, mainVars, worldVars, EnableInv, Opened
<1> QED BY <1>2, <1>3, <1>4, <1>5, <1>6, <1>7, <1>8, <1>9, <1>10 DEF Next, Process

\* pci_board_open and pci_board_close: a card is left enabled by a run of
\* mesaflash only if that was killed.
THEOREM SessionEnableBalanced == Spec => []EnableBalanced
<1>1. Init => EnableInv
  BY DEF Init, SessionInit, EnableInv, Opened
<1>2. EnableInv => EnableBalanced
  BY DEF EnableInv, EnableBalanced, Opened
<1>3. SearchInv /\ MainInv /\ EnableInv /\ [Next]_vars => EnableInv'
  BY EnableNext
<1> QED BY <1>1, <1>2, <1>3, SearchInit, SearchNext, CalledInit, CalledNext, MainInit, MainNext, PTL DEF Spec


-----------------------------------------------------------------------------
(* Which function runs *)

Waiting == {"resetting", "programming", "reloading", "only resetting"}

\* The function that main waits for.
Waited ==
  CASE pc \in {"resetting", "only resetting"} -> board.reset
    [] pc = "programming" -> board.program
    [] pc = "reloading" -> board.reload

RunsInv ==
  /\ routine # Idle => pc \in Waiting /\ routine = Waited
  /\ pc \in Waiting => Waited # NULL
  /\ pc \in Waiting /\ routine = Idle => result.of = Waited
  /\ pc \in {"resetting", "programming"} => board.reset # NULL /\ board.program # NULL

LEMMA NotWaited ==
  ASSUME pc \notin Waiting
  PROVE  RunsInv <=> routine = Idle
BY DEF RunsInv, Waiting

\* A step of a function goes on in it, or is its last.
LEMMA InBoardMoves ==
  ASSUME InBoard
  PROVE  /\ routine # Idle
         /\ \/ UNCHANGED <<routine, file, fallback, result>>
            \/ \E v \in {0, -1, -EIO} : Return(v)
<1>1. CASE Plx9030Reset
  BY <1>1 DEF Plx9030Reset, Control, Look, PollInit, Goto, Idle
<1>2. CASE Plx9030Program
  BY <1>2 DEF Plx9030Program, OpenFile, Control, SendChunk, Look, ControlAndReturn, Goto, Idle
<1>3. CASE Plx905xReset \/ Plx905xProgram
  BY <1>3 DEF Plx905xReset, Plx905xProgram, OpenFile, SendChunk, Control, Look, Delay, PollDone,
              Goto, Idle
<1>4. CASE EppReset \/ EppProgram \/ EppCycleLost
  BY <1>4 DEF EppReset, EppProgram, EppCycleLost, InRoutine, OpenFile, SendChunk, Control, Look,
              Delay, Goto, Idle
<1>5. CASE PciReload
  BY <1>5 DEF PciReload, CheckCookie, SaveConfig, WriteIcap, ConfigBack, Look, Goto, Idle
<1>6. CASE PciEfxReload
  BY <1>6 DEF PciEfxReload, SaveConfig, ConfigBack, Look, Goto, Idle
<1>7. CASE SpiReload
  BY <1>7 DEF SpiReload, CheckCookie, WriteIcap, Look, Goto, Idle
<1>8. CASE Lbp16Reload \/ Lbp16Reset \/ DatagramLost
  BY <1>8 DEF Lbp16Reload, Lbp16Reset, DatagramLost, InRoutine, CheckCookie, Look, Goto, Idle
<1> QED BY <1>1, <1>2, <1>3, <1>4, <1>5, <1>6, <1>7, <1>8 DEF InBoard, RoutineStep, FaultStep

Calls == ProgramFpga \/ ResetReturns \/ Reload \/ Reset

\* The steps of main other than those that may call a function of the board.
Others ==
  \/ GetOption \/ EndOfOptions \/ Main \/ ScanBus \/ ScanDevice \/ GetDev \/ Open
  \/ AccessRegisters \/ SetRemote \/ FlashCommand \/ Verify \/ ProgramReturns \/ NoReload
  \/ ReloadReturns \/ OnlyResetReturns \/ Close \/ Cleanup

LEMMA OthersQuiet ==
  ASSUME Start \/ Others
  PROVE  /\ UNCHANGED <<codeVars, line, cfg, fpga, icap, broken, old, faults>>
         /\ pc' \notin Waiting
         /\ pc \in Waiting => routine = Idle
<1>1. CASE Start
  BY <1>1 DEF Start, loadVars, boardVars, Waiting
<1>2. CASE GetOption \/ EndOfOptions \/ Main
  BY <1>2 DEF GetOption, EndOfOptions, Main, RestUnchanged, OptionOnce, SetsValue, Refused, Exit,
              GoOn, loadVars, boardVars, Waiting
<1>3. CASE ScanBus
  BY <1>3 DEF ScanBus, Scan, Found, NothingFound, Exit, Dies, GoOn, Waiting
<1>4. CASE ScanDevice \/ GetDev \/ Open \/ Close \/ Cleanup
  BY <1>4 DEF ScanDevice, GetDev, Open, Close, Cleanup, Found, Exit, Dies, GoOn, loadVars,
              boardVars, Waiting
<1>5. CASE AccessRegisters \/ SetRemote \/ NoReload
  BY <1>5 DEF AccessRegisters, SetRemote, NoReload, Dies, GoOn, loadVars, boardVars, Waiting
<1>6. CASE FlashCommand \/ Verify
  BY <1>6 DEF FlashCommand, Verify, CallFlash, NextAfter, AfterWrite, AfterVerify, GoOn,
              loadVars, boardVars, Waiting
<1>7. CASE ProgramReturns \/ ReloadReturns \/ OnlyResetReturns
  BY <1>7 DEF ProgramReturns, ReloadReturns, OnlyResetReturns, Returned, Finish, GoOn, loadVars,
              boardVars, Waiting
<1> QED BY <1>1, <1>2, <1>3, <1>4, <1>5, <1>6, <1>7 DEF Others

\* One that may: it refuses, or calls what main then waits for.
CallsWaited ==
  /\ CallRoutine(Waited', bitfile_name, "fallback" \in flags)
  /\ UNCHANGED <<boardVars, broken, old, faults>>
  /\ pc' \in Waiting /\ Waited' # NULL

LEMMA CallsBoardCalls ==
  ASSUME NEW function, NEW next \in Waiting, CallsBoard(function, bitfile_name, next),
         function # NULL,
         CASE next \in {"resetting", "only resetting"} -> function = board'.reset
           [] next = "programming" -> function = board'.program
           [] next = "reloading" -> function = board'.reload
  PROVE  CallsWaited
<1>1. /\ CallRoutine(function, bitfile_name, "fallback" \in flags)
      /\ UNCHANGED <<boardVars, broken, old, faults>> /\ pc' = next
  BY DEF CallsBoard, GoOn
<1>2. Waited' = function
  BY <1>1 DEF Waited, Waiting
<1>3. CallRoutine(Waited', bitfile_name, "fallback" \in flags)
  BY <1>1, <1>2
<1>4. pc' \in Waiting /\ Waited' # NULL
  BY <1>1, <1>2
<1> QED BY <1>1, <1>3, <1>4 DEF CallsWaited

LEMMA CallsCall ==
  ASSUME Calls, Chosen
  PROVE  /\ \/ CallsWaited
            \/ UNCHANGED loadVars /\ pc' = "close"
         /\ pc \in Waiting => routine = Idle
<1>0. board' = board
  BY DEF Calls, ProgramFpga, ResetReturns, Reload, Reset
<1>1. CASE ProgramFpga
  <2>1. CASE CanProgram
    <3>1. CallsBoard(board.reset, bitfile_name, "resetting") /\ board.reset # NULL /\ pc = "command"
      BY <1>1, <2>1 DEF ProgramFpga, CanProgram, HasReset
    <3> QED BY <1>0, <3>1, CallsBoardCalls DEF Waiting
  <2>2. CASE ~CanProgram
    BY <1>1, <2>2 DEF ProgramFpga, Refuses, Finish, GoOn, Waiting
  <2> QED BY <2>1, <2>2
<1>2. CASE ResetReturns
  <2>0. routine = Idle
    BY <1>2 DEF ResetReturns, Returned
  <2>1. CASE result.ret = 0
    <3>1. CallsBoard(board.program, bitfile_name, "programming") /\ board.program # NULL
      BY <1>2, <2>1 DEF ResetReturns, Returned, Chosen
    <3> QED BY <1>0, <2>0, <3>1, CallsBoardCalls DEF Waiting
  <2>2. CASE result.ret # 0
    BY <1>2, <2>0, <2>2 DEF ResetReturns, Refuses, Finish, GoOn
  <2> QED BY <2>1, <2>2
<1>3. CASE Reload
  <2>0. pc \notin Waiting
    BY <1>3 DEF Reload, Waiting
  <2>1. CASE board.reload # NULL
    <3>1. CallsBoard(board.reload, bitfile_name, "reloading")
      BY <1>3, <2>1 DEF Reload
    <3> QED BY <1>0, <2>0, <2>1, <3>1, CallsBoardCalls DEF Waiting
  <2>2. CASE board.reload = NULL
    BY <1>3, <2>0, <2>2 DEF Reload, Refuses, Finish, GoOn
  <2> QED BY <2>1, <2>2
<1>4. CASE Reset
  <2>0. pc \notin Waiting
    BY <1>4 DEF Reset, Waiting
  <2>1. CASE HasReset
    <3>1. CallsBoard(board.reset, bitfile_name, "only resetting") /\ board.reset # NULL
      BY <1>4, <2>1 DEF Reset, HasReset
    <3> QED BY <1>0, <2>0, <3>1, CallsBoardCalls DEF Waiting
  <2>2. CASE ~HasReset
    BY <1>4, <2>0, <2>2 DEF Reset, Refuses, Finish, GoOn
  <2> QED BY <2>1, <2>2
<1> QED BY <1>1, <1>2, <1>3, <1>4 DEF Calls

LEMMA RunsNext ==
  ASSUME RunsInv, MainInv, [Next]_vars
  PROVE  RunsInv'
<1>1. CASE Start \/ Others
  <2>1. routine' = Idle /\ pc' \notin Waiting
    BY <1>1, OthersQuiet DEF RunsInv, codeVars
  <2> QED BY <2>1 DEF RunsInv, Waiting
<1>2. CASE Kill \/ AnswerLost
  BY <1>2, AnswerLostMoves DEF Kill, Dies, RunsInv, Waiting
<1>3. CASE Calls
  <2>1. CASE UNCHANGED loadVars /\ pc' = "close"
    BY <1>3, <2>1, CallsCall DEF MainInv, RunsInv, Waiting, loadVars, codeVars
  <2>2. CASE CallsWaited
    <3>1. routine' = Waited' /\ pc' \in Waiting /\ Waited' # NULL
      BY <2>2 DEF CallsWaited, CallRoutine
    <3>2. pc' \in {"resetting", "programming"} => board'.reset # NULL /\ board'.program # NULL
      BY <1>3 DEF Calls, ProgramFpga, ResetReturns, Reload, Reset, Returned, CanProgram,
                  HasReset, CallsBoard, Refuses, Finish, GoOn, RunsInv
    <3>3. routine' = Idle => result'.of = Idle
      BY <2>2 DEF CallsWaited, CallRoutine, NoResult
    <3> QED BY <3>1, <3>2, <3>3 DEF RunsInv
  <2> QED BY <1>3, <2>1, <2>2, CallsCall DEF MainInv
<1>4. CASE InBoard /\ UNCHANGED <<mainVars, worldVars, pc>>
  <2>1. UNCHANGED <<board, pc, Waited>>
    BY <1>4 DEF mainVars, Waited
  <2>2. CASE UNCHANGED <<routine, file, fallback, result>>
    BY <2>1, <2>2 DEF RunsInv
  <2>3. CASE \E v : Return(v)
    BY <1>4, <2>1, <2>3, InBoardMoves DEF RunsInv, Return
  <2> QED BY <1>4, <2>2, <2>3, InBoardMoves
<1>5. CASE Chip /\ UNCHANGED <<mainVars, worldVars, pc>>
  BY <1>5 DEF Chip, FpgaStep, FpgaClears, FpgaStarts, codeVars, mainVars, RunsInv, Waited
<1>6. CASE UNCHANGED vars
  BY <1>6 DEF vars, mainVars, loadVars, codeVars, RunsInv, Waited
<1> QED BY <1>1, <1>2, <1>3, <1>4, <1>5, <1>6 DEF Next, Process, Others, Calls


-----------------------------------------------------------------------------
(* Booting through ICAP *)

IcapReloads == {"pci_board_reload", "spi_board_reload"}

Shapes ==
  /\ {"state", "runs", "took", "of"} \subseteq DOMAIN fpga
  /\ {"next", "start"} \subseteq DOMAIN icap
  /\ cfg \in {"set", "lost"}
  /\ routine \in PciReloads /\ at \in {"words", "restore", "select", "start"} =>
       saved \in {"set", "lost"}

\* The register that the last of n words named.
NextAt(n) == CASE n = 5 -> "low" [] n = 7 -> "high" [] n = 9 -> "command" [] OTHER -> Nothing

\* What the first words do, whatever ICAP was left with.
WordsSent ==
  /\ count \in 0 .. 14
  /\ count < 10 => Reached
  /\ count \in 1 .. 9 => icap.next = NextAt(count)
  /\ count \in 8 .. 9 => icap.start = Area
  /\ count >= 10 => fpga.runs = Area

IcapSteps ==
  routine \in IcapReloads =>
    /\ at \in {"begin", "save"} => count = 0
    /\ at = "save" => Reached
    /\ at = "words" => WordsSent
    /\ at = "restore" => fpga.runs = Area

EfxSteps ==
  routine = "pci_efx_board_reload" =>
    /\ at \in {"select", "start"} => saved = cfg
    /\ at = "start" /\ cfg = "set" => icap.start = Area
    /\ at = "restore" /\ saved # "lost" => fpga.runs = Area

\* Nothing that is loaded starts later in place of what was booted.
Booted ==
  /\ routine = Idle /\ result.ret = 0
  /\ result.of \in {"pci_board_reload", "pci_efx_board_reload", "spi_board_reload"}
  /\ ~(result.of = "pci_efx_board_reload" /\ saved = "lost")
  => fpga.runs = result.area /\ fpga.state # "startup"

Starting == {"off", "programming", "close", "cleanup"}
NoStart == fpga.state = "startup" => pc \in Starting

BootsInv == Shapes /\ IcapSteps /\ EfxSteps /\ Booted /\ NoStart

LEMMA WordsAre ==
  /\ Len(IcapWords) = 14
  /\ IcapWords[1] = "dummy" /\ IcapWords[2] = "dummy" /\ IcapWords[3] = "sync"
  /\ IcapWords[4] = "sync" /\ IcapWords[5] = "low" /\ IcapWords[6] = "0"
  /\ IcapWords[7] = "high" /\ IcapWords[8] = Area /\ IcapWords[9] = "command"
  /\ IcapWords[10] = "IPROG" /\ \A n \in 11 .. 14 : IcapWords[n] = "NOP"
BY DEF IcapWords, StartOf, Area

\* The word after the first n, as far as these are taken.
LEMMA NextWord ==
  ASSUME Shapes, WordsSent, count < 14, Reached, IcapTakes(IcapWords[count + 1])
  PROVE  /\ {"state", "runs", "took", "of"} \subseteq DOMAIN fpga'
         /\ {"next", "start"} \subseteq DOMAIN icap' /\ cfg' \in {"set", "lost"}
         /\ count < 9 => icap'.next = NextAt(count + 1) /\ UNCHANGED <<cfg, fpga>>
         /\ count \in 7 .. 8 => icap'.start = Area
         /\ count >= 9 => fpga'.runs = Area
         /\ fpga'.state = fpga.state
<1>1. count \in 0 .. 13
  BY DEF WordsSent
<1>2. \/ fpga' = fpga \/ fpga' = [fpga EXCEPT !.runs = icap.start]
  BY DEF IcapTakes, Boots
<1>3. {"state", "runs", "took", "of"} \subseteq DOMAIN fpga' /\ fpga'.state = fpga.state
  BY <1>2 DEF Shapes
<1>4. {"next", "start"} \subseteq DOMAIN icap' /\ cfg' \in {"set", "lost"}
  BY DEF IcapTakes, Boots, Shapes
<1>5. CASE count = 0
  BY <1>3, <1>4, <1>5, WordsAre DEF IcapTakes, NextAt, Nothing, Shapes
<1>6. CASE count \in {1, 2, 3}
  <2>1. icap.next = Nothing /\ IcapWords[count + 1] \in {"dummy", "sync"}
    BY <1>6, WordsAre DEF WordsSent, NextAt
  <2>2. icap'.next = Nothing /\ UNCHANGED <<cfg, fpga>>
    BY <2>1 DEF IcapTakes, Nothing, Shapes
  <2> QED BY <1>3, <1>4, <1>6, <2>2 DEF NextAt
<1>7. CASE count \in {4, 5, 6}
  <2>1. CASE count = 4
    <3>1. icap.next = Nothing /\ IcapWords[count + 1] = "low"
      BY <2>1, WordsAre DEF WordsSent, NextAt
    <3> QED BY <1>3, <1>4, <2>1, <3>1 DEF IcapTakes, NextAt, Nothing, Shapes
  <2>2. CASE count = 5
    <3>1. icap.next = "low" /\ IcapWords[count + 1] = "0"
      BY <2>2, WordsAre DEF WordsSent, NextAt
    <3> QED BY <1>3, <1>4, <2>2, <3>1 DEF IcapTakes, NextAt, Nothing, Shapes
  <2>3. CASE count = 6
    <3>1. icap.next = Nothing /\ IcapWords[count + 1] = "high"
      BY <2>3, WordsAre DEF WordsSent, NextAt
    <3> QED BY <1>3, <1>4, <2>3, <3>1 DEF IcapTakes, NextAt, Nothing, Shapes
  <2> QED BY <1>7, <2>1, <2>2, <2>3
<1>8. CASE count \in {7, 8}
  <2>1. CASE count = 7
    <3>1. icap.next = "high" /\ IcapWords[count + 1] = Area
      BY <2>1, WordsAre DEF WordsSent, NextAt
    <3> QED BY <1>3, <1>4, <2>1, <3>1 DEF IcapTakes, NextAt, Nothing, Shapes
  <2>2. CASE count = 8
    <3>1. icap.next = Nothing /\ icap.start = Area /\ IcapWords[count + 1] = "command"
      BY <2>2, WordsAre DEF WordsSent, NextAt
    <3> QED BY <1>3, <1>4, <2>2, <3>1 DEF IcapTakes, NextAt, Nothing, Shapes
  <2> QED BY <1>8, <2>1, <2>2
<1>9. CASE count = 9
  <2>1. icap.next = "command" /\ icap.start = Area /\ IcapWords[count + 1] = "IPROG"
    BY <1>9, WordsAre DEF WordsSent, NextAt
  <2>2. fpga' = [fpga EXCEPT !.runs = Area]
    BY <2>1 DEF IcapTakes, Boots, Nothing
  <2> QED BY <1>3, <1>4, <1>9, <2>2 DEF Shapes
<1>10. CASE count \in 10 .. 13
  <2>1. fpga.runs = Area /\ IcapWords[count + 1] = "NOP"
    BY <1>10, WordsAre DEF WordsSent
  <2>2. fpga' = fpga
    BY <2>1 DEF IcapTakes
  <2> QED BY <1>3, <1>4, <1>10, <2>1, <2>2
<1> QED BY <1>1, <1>5, <1>6, <1>7, <1>8, <1>9, <1>10

LEMMA OneWord ==
  ASSUME Shapes, WordsSent, routine \in IcapReloads, at = "words", count < 14,
         IF Reached THEN IcapTakes(IcapWords[count + 1]) ELSE UNCHANGED <<cfg, fpga, icap>>,
         count' = count + 1, UNCHANGED <<routine, at, fallback, saved>>
  PROVE  Shapes' /\ WordsSent' /\ fpga'.state = fpga.state
<1>1. count \in 0 .. 13 /\ count + 1 \in 0 .. 14 /\ Area' = Area
  BY DEF WordsSent, Area
<1>2. CASE Reached
  <2>1. /\ {"state", "runs", "took", "of"} \subseteq DOMAIN fpga'
        /\ {"next", "start"} \subseteq DOMAIN icap' /\ cfg' \in {"set", "lost"}
        /\ count < 9 => icap'.next = NextAt(count + 1) /\ UNCHANGED <<cfg, fpga>>
        /\ count \in 7 .. 8 => icap'.start = Area
        /\ count >= 9 => fpga'.runs = Area
        /\ fpga'.state = fpga.state
    BY <1>2, NextWord
  <2>2. Shapes'
    BY <2>1 DEF Shapes
  <2>3. count' < 10 => Reached'
    BY <1>1, <1>2, <2>1 DEF Reached
  <2>4. /\ count' \in 0 .. 14
        /\ count' \in 1 .. 9 => icap'.next = NextAt(count')
        /\ count' \in 8 .. 9 => icap'.start = Area
        /\ count' >= 10 => fpga'.runs = Area
    BY <1>1, <2>1
  <2> QED BY <1>1, <2>1, <2>2, <2>3, <2>4 DEF WordsSent, NextAt
<1>3. CASE ~Reached
  <2>1. count >= 10 /\ UNCHANGED <<cfg, fpga, icap>> /\ fpga.runs = Area
    BY <1>1, <1>3 DEF WordsSent
  <2>2. Shapes'
    BY <2>1 DEF Shapes
  <2>3. count' \in 11 .. 14
    BY <1>1, <2>1
  <2> QED BY <1>1, <2>1, <2>2, <2>3 DEF WordsSent
<1> QED BY <1>2, <1>3

LEMMA ReturnBooted ==
  ASSUME NEW v, Return(v), UNCHANGED saved,
         \/ routine \notin {"pci_board_reload", "pci_efx_board_reload", "spi_board_reload"}
         \/ v # 0
         \/ routine = "pci_efx_board_reload" /\ saved = "lost"
         \/ fpga'.runs = Area /\ fpga'.state # "startup"
  PROVE  Booted'
<1>1. /\ result' = [of |-> routine, file |-> file, area |-> Area, ret |-> v]
      /\ UNCHANGED saved
  BY DEF Return
<1> QED BY <1>1 DEF Booted

\* Nothing of this is said of a process that runs none of the three functions.
LEMMA IdleBoots ==
  ASSUME routine' \notin {"pci_board_reload", "pci_efx_board_reload", "spi_board_reload"}
  PROVE  IcapSteps' /\ EfxSteps'
BY DEF IcapSteps, EfxSteps, IcapReloads

LEMMA RunningNotBooted ==
  ASSUME routine' # Idle
  PROVE  Booted'
BY DEF Booted

LEMMA IcapWrites ==
  ASSUME BootsInv, routine \in IcapReloads, fpga.state # "startup", UNCHANGED pc,
         \/ WriteIcap(IcapWords, Goto("restore")) /\ routine = "pci_board_reload"
         \/ WriteIcap(IcapWords, Return(0))
  PROVE  BootsInv'
<1>1. at = "words" /\ UNCHANGED saved /\ WordsSent /\ Shapes /\ count \in 0 .. 14
  BY DEF WriteIcap, BootsInv, IcapSteps, WordsSent
<1>2. CASE count < 14
  <2>1. /\ IF Reached THEN IcapTakes(IcapWords[count + 1]) ELSE UNCHANGED <<cfg, fpga, icap>>
        /\ count' = count + 1 /\ UNCHANGED <<routine, at, fallback>>
    BY <1>2, WordsAre DEF WriteIcap
  <2>2. Shapes' /\ WordsSent' /\ fpga'.state = fpga.state
    BY <1>1, <1>2, <2>1, OneWord
  <2>3. IcapSteps' /\ EfxSteps' /\ NoStart'
    BY <1>1, <2>1, <2>2 DEF IcapSteps, EfxSteps, IcapReloads, NoStart
  <2>4. Booted'
    BY <2>1, RunningNotBooted DEF IcapReloads, Idle
  <2> QED BY <2>2, <2>3, <2>4 DEF BootsInv
<1>3. CASE count = 14
  <2>1. /\ UNCHANGED <<count, cfg, fpga, icap>> /\ fpga.runs = Area
        /\ (Goto("restore") /\ routine = "pci_board_reload") \/ Return(0)
    BY <1>1, <1>3, WordsAre DEF WriteIcap, WordsSent
  <2>2. NoStart'
    BY <2>1 DEF NoStart
  <2>3. CASE Goto("restore") /\ routine = "pci_board_reload"
    <3>1. routine' = routine /\ at' = "restore" /\ Area' = Area
      BY <2>3 DEF Goto, Area
    <3>2. Shapes' /\ IcapSteps' /\ EfxSteps'
      BY <1>1, <2>1, <2>3, <3>1 DEF Shapes, IcapSteps, EfxSteps
    <3>3. Booted'
      BY <2>3, <3>1, RunningNotBooted DEF Idle
    <3> QED BY <2>2, <3>2, <3>3 DEF BootsInv
  <2>4. CASE Return(0)
    <3>1. routine' = Idle
      BY <2>4 DEF Return
    <3>2. IcapSteps' /\ EfxSteps' /\ Shapes'
      BY <1>1, <2>1, <3>1, IdleBoots DEF Shapes, PciReloads, Idle
    <3>3. Booted'
      BY <1>1, <2>1, <2>4, ReturnBooted
    <3> QED BY <2>2, <3>2, <3>3 DEF BootsInv
  <2> QED BY <2>1, <2>3, <2>4
<1> QED BY <1>1, <1>2, <1>3


LEMMA BootsCheckCookie ==
  ASSUME BootsInv, routine \in IcapReloads, fpga.state # "startup", UNCHANGED pc,
         NEW next \in {"save", "words"}, CheckCookie(next),
         next = "words" => routine = "spi_board_reload"
  PROVE  BootsInv'
<1>1. /\ at = "begin" /\ count = 0 /\ Shapes /\ UNCHANGED <<saved, cfg, fpga, icap, count>>
  BY DEF CheckCookie, Look, boardVars, BootsInv, IcapSteps
<1>2. NoStart'
  BY <1>1 DEF NoStart
<1>3. CASE Return(-1)
  <2>1. routine' = Idle
    BY <1>3 DEF Return
  <2>2. Shapes' /\ IcapSteps' /\ EfxSteps'
    BY <1>1, <2>1, IdleBoots DEF Shapes, PciReloads, Idle
  <2>3. Booted'
    BY <1>1, <1>3, ReturnBooted
  <2> QED BY <1>2, <2>2, <2>3 DEF BootsInv
<1>4. CASE Goto(next) /\ Reached
  <2>1. routine' = routine /\ at' = next
    BY <1>4 DEF Goto
  <2>2. Reached'
    BY <1>1, <1>4, <2>1 DEF Reached
  <2>3. Shapes'
    BY <1>1, <2>1 DEF Shapes, PciReloads
  <2>4. WordsSent'
    BY <1>1, <2>2 DEF WordsSent
  <2>5. IcapSteps' /\ EfxSteps'
    BY <1>1, <2>1, <2>2, <2>4 DEF IcapSteps, EfxSteps, IcapReloads
  <2>6. Booted'
    BY <2>1, RunningNotBooted DEF IcapReloads, Idle
  <2> QED BY <1>2, <2>3, <2>5, <2>6 DEF BootsInv
<1> QED BY <1>3, <1>4 DEF CheckCookie, Look

LEMMA BootsSaveConfig ==
  ASSUME BootsInv, fpga.state # "startup", UNCHANGED pc,
         \/ routine = "pci_board_reload" /\ SaveConfig("words")
         \/ routine = "pci_efx_board_reload" /\ SaveConfig("select")
  PROVE  BootsInv'
<1>1. /\ at = "save" /\ Shapes /\ UNCHANGED <<routine, cfg, fpga, icap, count>>
      /\ saved' = cfg /\ at' \in {"words", "select"}
      /\ routine = "pci_board_reload" => at' = "words"
      /\ routine = "pci_efx_board_reload" => at' = "select"
  BY DEF SaveConfig, Goto, boardVars, BootsInv
<1>2. NoStart' /\ Shapes'
  BY <1>1 DEF NoStart, Shapes
<1>3. Booted'
  BY <1>1, RunningNotBooted DEF Idle
<1>4. EfxSteps'
  BY <1>1 DEF EfxSteps
<1>5. IcapSteps'
  <2>1. CASE routine = "pci_board_reload"
    <3>1. count = 0 /\ Reached
      BY <1>1, <2>1 DEF BootsInv, IcapSteps, IcapReloads
    <3>2. WordsSent'
      BY <1>1, <3>1 DEF WordsSent, Reached
    <3> QED BY <1>1, <2>1, <3>2 DEF IcapSteps
  <2>2. CASE routine = "pci_efx_board_reload"
    BY <1>1, <2>2 DEF IcapSteps, IcapReloads
  <2> QED BY <2>1, <2>2
<1> QED BY <1>2, <1>3, <1>4, <1>5 DEF BootsInv

LEMMA BootsConfigBack ==
  ASSUME BootsInv, routine \in PciReloads, fpga.state # "startup", UNCHANGED pc, ConfigBack
  PROVE  BootsInv'
<1>1. /\ at = "restore" /\ Shapes /\ saved \in {"set", "lost"} /\ cfg' = saved
      /\ UNCHANGED <<saved, fpga, icap>> /\ Return(0) /\ routine' = Idle
  BY DEF ConfigBack, RestoreConfig, Return, BootsInv, Shapes
<1>2. \/ fpga.runs = Area
      \/ routine = "pci_efx_board_reload" /\ saved = "lost"
  BY <1>1 DEF PciReloads, IcapReloads, BootsInv, IcapSteps, EfxSteps
<1>3. Booted'
  BY <1>1, <1>2, ReturnBooted
<1>4. Shapes' /\ IcapSteps' /\ EfxSteps'
  BY <1>1, IdleBoots DEF Shapes, PciReloads, Idle
<1>5. NoStart'
  BY <1>1 DEF NoStart
<1> QED BY <1>3, <1>4, <1>5 DEF BootsInv

LEMMA BootsEfx ==
  ASSUME BootsInv, fpga.state # "startup", UNCHANGED pc, PciEfxReload
  PROVE  BootsInv'
<1>1. routine = "pci_efx_board_reload" /\ Shapes
  BY DEF PciEfxReload, BootsInv
<1>2. CASE Look("begin", Goto("save") /\ UNCHANGED count)
  <2>1. at' = "save" /\ UNCHANGED <<routine, saved, cfg, fpga, icap>>
    BY <1>2 DEF Look, Goto, boardVars
  <2>2. Shapes' /\ IcapSteps' /\ EfxSteps' /\ NoStart' /\ Booted'
    BY <1>1, <2>1, RunningNotBooted DEF Shapes, IcapSteps, EfxSteps, NoStart, IcapReloads, Idle
  <2> QED BY <2>2 DEF BootsInv
<1>3. CASE SaveConfig("select")
  BY <1>1, <1>3, BootsSaveConfig
<1>4. CASE /\ at = "select"
           /\ icap' = IF Reached THEN [icap EXCEPT !.start = StartOf(fallback)] ELSE icap
           /\ Goto("start")
           /\ UNCHANGED <<left, count, saved, line, timeout, cfg, fpga>>
  <2>1. /\ at' = "start" /\ UNCHANGED <<routine, saved, cfg, fpga>> /\ saved = cfg
        /\ Area' = Area
    BY <1>1, <1>4 DEF Goto, BootsInv, EfxSteps, Area
  <2>2. cfg = "set" => icap'.start = Area
    BY <1>1, <1>4 DEF Reached, Shapes, StartOf, Area
  <2>3. Shapes'
    BY <1>1, <1>4, <2>1 DEF Shapes
  <2>4. IcapSteps' /\ EfxSteps' /\ NoStart' /\ Booted'
    BY <1>1, <2>1, <2>2, RunningNotBooted DEF IcapSteps, EfxSteps, NoStart, IcapReloads, Idle
  <2> QED BY <2>3, <2>4 DEF BootsInv
<1>5. CASE /\ at = "start"
           /\ IF Reached THEN Boots(icap.start) ELSE UNCHANGED <<fpga, cfg, icap>>
           /\ Goto("restore")
           /\ UNCHANGED <<left, count, saved, line, timeout>>
  <2>1. /\ at' = "restore" /\ UNCHANGED <<routine, saved>> /\ saved = cfg /\ Area' = Area
        /\ cfg = "set" => icap.start = Area
    BY <1>1, <1>5 DEF Goto, BootsInv, EfxSteps, Area
  <2>2. CASE Reached
    <3>1. /\ fpga' = [fpga EXCEPT !.runs = icap.start] /\ cfg' = "lost"
          /\ icap' = [next |-> Nothing, start |-> Nothing] /\ icap.start = Area
      BY <1>1, <1>5, <2>1, <2>2 DEF Boots, Reached, PciReloads
    <3>2. Shapes' /\ fpga'.runs = Area /\ fpga'.state # "startup"
      BY <1>1, <2>1, <3>1 DEF Shapes, PciReloads
    <3>3. IcapSteps' /\ EfxSteps' /\ NoStart' /\ Booted'
      BY <1>1, <2>1, <3>2, RunningNotBooted DEF IcapSteps, EfxSteps, NoStart, IcapReloads, Idle
    <3> QED BY <3>2, <3>3 DEF BootsInv
  <2>3. CASE ~Reached
    <3>1. UNCHANGED <<fpga, cfg, icap>> /\ saved = "lost"
      BY <1>1, <1>5, <2>1, <2>3 DEF Reached, Shapes
    <3>2. Shapes' /\ IcapSteps' /\ EfxSteps' /\ NoStart' /\ Booted'
      BY <1>1, <2>1, <3>1, RunningNotBooted DEF Shapes, IcapSteps, EfxSteps, NoStart, IcapReloads,
         Idle, PciReloads
    <3> QED BY <3>2 DEF BootsInv
  <2> QED BY <2>2, <2>3
<1>6. CASE ConfigBack
  BY <1>1, <1>6, BootsConfigBack DEF PciReloads
<1> QED BY <1>2, <1>3, <1>4, <1>5, <1>6 DEF PciEfxReload

\* The functions that boot nothing through ICAP, and the FPGA.
LEMMA LoadMoves ==
  ASSUME Shapes,
         \/ Plx9030Reset \/ Plx9030Program \/ Plx905xReset \/ Plx905xProgram
         \/ EppReset \/ EppProgram \/ EppCycleLost
  PROVE  /\ {"state", "runs", "took", "of"} \subseteq DOMAIN fpga'
         /\ UNCHANGED <<icap, cfg, saved>> /\ routine \in Programs \cup Resets
         /\ fpga'.state = "startup" => fpga.state = "startup" \/ routine \in Programs
<1>0. {"state", "runs", "took", "of"} \subseteq DOMAIN Cleared /\ Cleared.state # "startup"
  BY DEF Cleared
<1>1. \A new : Drive(new) => /\ {"state", "runs", "took", "of"} \subseteq DOMAIN fpga'
                             /\ fpga'.state = "startup" => fpga.state = "startup"
  BY <1>0 DEF Drive, Shapes
<1>2. \A f : Takes(f) => {"state", "runs", "took", "of"} \subseteq DOMAIN fpga'
  BY DEF Takes, Shapes
<1>3. CASE Plx9030Reset
  BY <1>1, <1>3 DEF Plx9030Reset, Control, Look, boardVars, Shapes, Resets
<1>4. CASE Plx9030Program
  BY <1>1, <1>2, <1>4 DEF Plx9030Program, OpenFile, Control, SendChunk, Look, ControlAndReturn,
                          boardVars, Shapes, Programs
<1>5. CASE Plx905xReset
  BY <1>1, <1>5 DEF Plx905xReset, Control, Look, Delay, boardVars, Shapes, Resets
<1>6. CASE Plx905xProgram
  BY <1>1, <1>2, <1>6 DEF Plx905xProgram, OpenFile, SendChunk, Look, boardVars, Shapes, Programs
<1>7. CASE EppReset
  <2>1. CASE fpga' = [Cleared EXCEPT !.state = "clearing"] /\ UNCHANGED <<saved, cfg, icap>>
    <3>1. {"state", "runs", "took", "of"} \subseteq DOMAIN fpga' /\ fpga'.state = "clearing"
      BY <1>0, <2>1
    <3> QED BY <1>7, <2>1, <3>1 DEF EppReset, Resets
  <2>2. CASE fpga' = fpga /\ UNCHANGED <<saved, cfg, icap>>
    BY <1>7, <2>2 DEF EppReset, Resets, Shapes
  <2> QED BY <1>1, <1>7, <2>1, <2>2 DEF EppReset, Control, Look, Delay, boardVars, Resets
<1>8. CASE EppProgram \/ EppCycleLost
  BY <1>1, <1>2, <1>8 DEF EppProgram, EppCycleLost, InRoutine, OpenFile, SendChunk, Look,
                          boardVars, Shapes, Programs
<1> QED BY <1>3, <1>4, <1>5, <1>6, <1>7, <1>8

LEMMA Lbp16Moves ==
  ASSUME Shapes, Lbp16Reload \/ Lbp16Reset \/ DatagramLost
  PROVE  /\ {"state", "runs", "took", "of"} \subseteq DOMAIN fpga'
         /\ {"next", "start"} \subseteq DOMAIN icap' /\ cfg' \in {"set", "lost"}
         /\ UNCHANGED saved /\ routine \in {"lbp16_board_reload", "lbp16_board_reset"}
         /\ fpga'.state = fpga.state
BY DEF Lbp16Reload, Lbp16Reset, DatagramLost, InRoutine, CheckCookie, Look, Boots, boardVars, Shapes

\* Which function runs at which step of main.
LEMMA RunsAt ==
  ASSUME RunsInv, BoardOK(board)
  PROVE  /\ routine \in Programs => pc = "programming"
         /\ routine \in Reloads => pc = "reloading"
<1>1. routine # Idle => pc \in Waiting /\ routine = Waited
  BY DEF RunsInv
<1>2. /\ board.reset \notin Programs \cup Reloads /\ board.reload \notin Programs
      /\ Idle \notin Programs \cup Reloads
  BY DEF BoardOK, Resets, Programs, Reloads, NULL, Idle
<1>3. pc = "programming" => board.program \notin Reloads
  <2>1. pc = "programming" => <<board.reset, board.program>> \in Pairs
    BY DEF RunsInv, BoardOK
  <2>2. \A r, p : <<r, p>> \in Pairs => p \notin Reloads
    BY DEF Pairs, Reloads
  <2> QED BY <2>1, <2>2
<1> QED BY <1>1, <1>2, <1>3 DEF Waiting, Waited

LEMMA BootsLoad ==
  ASSUME BootsInv, RunsInv, BoardOK(board), UNCHANGED pc, OtherRoutine, ~SpiReload
  PROVE  BootsInv'
<1>1. /\ {"state", "runs", "took", "of"} \subseteq DOMAIN fpga'
      /\ {"next", "start"} \subseteq DOMAIN icap' /\ cfg' \in {"set", "lost"}
      /\ UNCHANGED saved
      /\ routine \in Programs \cup Resets \cup {"lbp16_board_reload", "lbp16_board_reset"}
      /\ fpga'.state = "startup" => fpga.state = "startup" \/ routine \in Programs
  BY LoadMoves, Lbp16Moves DEF OtherRoutine, BootsInv, Shapes
<1>2. routine \notin {"pci_board_reload", "pci_efx_board_reload", "spi_board_reload", Idle}
  BY <1>1 DEF Programs, Resets, Idle
<1>3. NoStart'
  BY <1>1, RunsAt DEF BootsInv, NoStart, Starting
<1>4. routine' \in {routine, Idle} /\ Booted'
  <2>1. CASE routine' = routine
    BY <1>2, <2>1, RunningNotBooted
  <2>2. CASE \E v : Return(v)
    BY <1>1, <1>2, <2>2, ReturnBooted DEF Return
  <2> QED BY <2>1, <2>2, OtherRoutineSteps
<1>5. routine' \notin {"pci_board_reload", "pci_efx_board_reload", "spi_board_reload"}
  BY <1>2, <1>4 DEF Idle
<1>6. Shapes' /\ IcapSteps' /\ EfxSteps'
  BY <1>1, <1>5, IdleBoots DEF Shapes, PciReloads
<1> QED BY <1>3, <1>4, <1>6 DEF BootsInv

LEMMA BootsChip ==
  ASSUME BootsInv, RunsInv, BoardOK(board), Chip, UNCHANGED pc
  PROVE  BootsInv'
<1>1. /\ UNCHANGED <<codeVars, cfg, icap>> /\ Shapes
      /\ \/ fpga' = [fpga EXCEPT !.state = "ready"]
         \/ /\ fpga.state = "startup"
            /\ fpga' = [fpga EXCEPT !.state = "running", !.runs = fpga.of]
  BY DEF Chip, FpgaStep, FpgaClears, FpgaStarts, BootsInv
<1>2. /\ {"state", "runs", "took", "of"} \subseteq DOMAIN fpga' /\ fpga'.state # "startup"
      /\ fpga.state # "startup" => fpga'.runs = fpga.runs
  BY <1>1 DEF Shapes
<1>3. Shapes' /\ NoStart'
  BY <1>1, <1>2 DEF Shapes, NoStart, codeVars
<1>4. UNCHANGED <<routine, at, count, saved, result, Area, Reached>>
  BY <1>1 DEF codeVars, Area, Reached
<1>5. Booted'
  BY <1>2, <1>4 DEF BootsInv, Booted
<1>6. routine \in Reloads => fpga'.runs = fpga.runs
  <2>1. routine \in Reloads => fpga.state # "startup"
    BY RunsAt DEF BootsInv, NoStart, Starting
  <2> QED BY <1>2, <2>1
<1>7. WordsSent /\ routine \in IcapReloads => WordsSent'
  BY <1>1, <1>4, <1>6 DEF WordsSent, IcapReloads, Reloads
<1>8. IcapSteps'
  BY <1>1, <1>4, <1>6, <1>7 DEF BootsInv, IcapSteps, IcapReloads, Reloads
<1>9. EfxSteps'
  BY <1>1, <1>4, <1>6 DEF BootsInv, EfxSteps, Reloads
<1> QED BY <1>3, <1>5, <1>8, <1>9 DEF BootsInv

LEMMA BootsInBoard ==
  ASSUME BootsInv, RunsInv, BoardOK(board), InBoard, UNCHANGED pc
  PROVE  BootsInv'
<1>1. routine \in Reloads => fpga.state # "startup"
  BY RunsAt DEF BootsInv, NoStart, Starting
<1>2. CASE PciReload
  <2>1. routine = "pci_board_reload" /\ fpga.state # "startup"
    BY <1>1, <1>2 DEF PciReload, Reloads
  <2>2. CASE CheckCookie("save")
    BY <2>1, <2>2, BootsCheckCookie DEF IcapReloads
  <2>3. CASE SaveConfig("words")
    BY <2>1, <2>3, BootsSaveConfig
  <2>4. CASE WriteIcap(IcapWords, Goto("restore"))
    BY <2>1, <2>4, IcapWrites DEF IcapReloads
  <2>5. CASE ConfigBack
    BY <2>1, <2>5, BootsConfigBack DEF PciReloads
  <2> QED BY <1>2, <2>2, <2>3, <2>4, <2>5 DEF PciReload
<1>3. CASE SpiReload
  <2>1. routine = "spi_board_reload" /\ fpga.state # "startup"
    BY <1>1, <1>3 DEF SpiReload, Reloads
  <2>2. CASE CheckCookie("words")
    BY <2>1, <2>2, BootsCheckCookie DEF IcapReloads
  <2>3. CASE WriteIcap(IcapWords, Return(0))
    BY <2>1, <2>3, IcapWrites DEF IcapReloads
  <2> QED BY <1>3, <2>2, <2>3 DEF SpiReload
<1>4. CASE PciEfxReload
  BY <1>1, <1>4, BootsEfx DEF PciEfxReload, Reloads
<1>5. CASE OtherRoutine /\ ~SpiReload
  BY <1>5, BootsLoad
<1> QED BY <1>2, <1>3, <1>4, <1>5 DEF InBoard, RoutineStep, FaultStep, OtherRoutine

\* The steps of main: a function that may boot is called from a step at which
\* no FPGA is starting, and mesaflash is not started while one is.
LEMMA StartingSteps ==
  ASSUME Start \/ Others
  PROVE  pc \in Starting /\ ~Start => pc' \in Starting
BY DEF Start, Others, GetOption, EndOfOptions, Main, ScanBus, ScanDevice, GetDev, Open,
       AccessRegisters, SetRemote, FlashCommand, Verify, ProgramReturns, NoReload, ReloadReturns,
       OnlyResetReturns, Returned, Close, Cleanup, Finish, Exit, GoOn, Starting

LEMMA CallingSteps ==
  ASSUME Calls
  PROVE  pc \notin Starting
BY DEF Calls, ProgramFpga, ResetReturns, Reload, Reset, Returned, Starting

LEMMA BootsMain ==
  ASSUME BootsInv, MainInv, Start \/ Others \/ Calls
  PROVE  BootsInv'
<1>1. CASE UNCHANGED <<codeVars, cfg, fpga, icap>>
  <2>1. UNCHANGED <<routine, at, count, saved, result, Area, Reached, cfg, fpga, icap>>
    BY <1>1 DEF codeVars, Area, Reached
  <2>2. Shapes' /\ IcapSteps' /\ EfxSteps' /\ Booted'
    BY <2>1 DEF BootsInv, Shapes, IcapSteps, EfxSteps, Booted, WordsSent
  <2>3. NoStart'
    <3>1. CASE Start
      BY <2>1, <3>1 DEF Start, NoStart
    <3>2. CASE ~Start /\ Others
      BY <2>1, <3>2, StartingSteps DEF BootsInv, NoStart
    <3>3. CASE Calls
      BY <2>1, <3>3, CallingSteps DEF BootsInv, NoStart
    <3> QED BY <3>1, <3>2, <3>3
  <2> QED BY <2>2, <2>3 DEF BootsInv
<1>2. CASE CallsWaited /\ Calls
  <2>1. /\ at' = "begin" /\ count' = 0 /\ result'.of = Idle /\ UNCHANGED <<cfg, fpga, icap>>
    BY <1>2 DEF CallsWaited, CallRoutine, NoResult, boardVars
  <2>2. Shapes' /\ IcapSteps' /\ EfxSteps'
    BY <2>1 DEF BootsInv, Shapes, IcapSteps, EfxSteps
  <2>3. Booted' /\ NoStart'
    BY <1>2, <2>1, CallingSteps DEF BootsInv, Booted, NoStart, Idle
  <2> QED BY <2>2, <2>3 DEF BootsInv
<1> QED BY <1>1, <1>2, OthersQuiet, CallsCall DEF MainInv, loadVars, boardVars

LEMMA BootsNext ==
  ASSUME BootsInv, RunsInv, MainInv, ConfigInv, SearchInv, [Next]_vars
  PROVE  BootsInv'
<1>1. BoardOK(board)
  BY BoardFacts
<1>2. CASE Start \/ Process
  BY <1>2, BootsMain DEF Process, Others, Calls
<1>3. CASE Kill \/ AnswerLost
  <2>1. /\ UNCHANGED <<saved, result, cfg, fpga, icap>> /\ routine' = Idle
        /\ pc' = "off" \/ (AnswerLost /\ pc \notin Starting)
    BY <1>3, AnswerLostMoves DEF Kill, Dies, boardVars, Starting
  <2>2. Shapes' /\ IcapSteps' /\ EfxSteps' /\ NoStart'
    BY <2>1, IdleBoots DEF BootsInv, Shapes, NoStart, Starting, PciReloads, Idle
  <2>3. Booted'
    BY <2>1 DEF BootsInv, Booted, ConfigInv, Idle
  <2> QED BY <2>2, <2>3 DEF BootsInv
<1>4. CASE InBoard /\ UNCHANGED <<mainVars, worldVars, pc>>
  BY <1>1, <1>4, BootsInBoard
<1>5. CASE Chip /\ UNCHANGED <<mainVars, worldVars, pc>>
  BY <1>1, <1>5, BootsChip
<1>6. CASE UNCHANGED vars
  <2>1. UNCHANGED <<pc, routine, at, count, saved, result, Area, Reached, cfg, fpga, icap>>
    BY <1>6 DEF vars, loadVars, codeVars, boardVars, Area, Reached
  <2> QED BY <2>1 DEF BootsInv, Shapes, IcapSteps, EfxSteps, Booted, WordsSent, NoStart
<1> QED BY <1>2, <1>3, <1>4, <1>5, <1>6 DEF Next

LEMMA RunsInit == Init => RunsInv
BY NotWaited DEF Init, SessionInit, LoadInit, Waiting

LEMMA BootsInit == Init => BootsInv
<1> SUFFICES ASSUME Init PROVE BootsInv
  OBVIOUS
<1>1. /\ routine = Idle /\ at = Idle /\ result.of = Idle /\ pc = "off" /\ cfg = "set"
      /\ icap = [next |-> Nothing, start |-> Nothing]
  BY DEF Init, LoadInit, SessionInit, NoResult
<1>2. {"state", "runs", "took", "of"} \subseteq DOMAIN fpga
  BY DEF Init, SessionInit, Cleared
<1> QED BY <1>1, <1>2 DEF BootsInv, Shapes, IcapSteps, EfxSteps, Booted, NoStart, Starting,
                          IcapReloads, PciReloads, Idle

\* The reload functions over PCI and SPI: 0 means that the FPGA has booted the
\* area that --fallback selects, whatever killed runs left in ICAP.
THEOREM SessionBootsAsked == Spec => []BootsAsked
<1>1. BootsInv => BootsAsked
  BY DEF BootsInv, Booted, BootsAsked, PciReloads
<1>2. /\ RunsInv /\ MainInv /\ [Next]_vars => RunsInv'
      /\ BootsInv /\ RunsInv /\ MainInv /\ ConfigInv /\ SearchInv /\ [Next]_vars => BootsInv'
  BY RunsNext, BootsNext
<1> QED BY <1>1, <1>2, BootsInit, RunsInit, SearchInit, SearchNext, CalledInit, CalledNext, MainInit, MainNext,
        ConfigInit, ConfigNext, PTL DEF Spec


-----------------------------------------------------------------------------
(* The configuration of a PCI card *)

\* A card that lost it has it in saved, as long as no run is killed.
KeptInv ==
  /\ kills \in Nat
  /\ kills = 0 =>
       IF routine \in PciReloads /\ at \notin {"begin", "save"} THEN saved = "set"
                                                                ELSE cfg = "set"

LEMMA OthersKeepConfig ==
  ASSUME Shapes, OtherRoutine
  PROVE  UNCHANGED cfg
<1>1. CASE Lbp16Reload \/ Lbp16Reset \/ DatagramLost
  BY <1>1, OtherRoutineSteps DEF Lbp16Reload, Lbp16Reset, DatagramLost, Look, Boots, boardVars
<1>2. CASE SpiReload
  <2>1. routine \notin PciReloads
    BY OtherRoutineSteps
  <2> QED BY <1>2, <2>1 DEF SpiReload, CheckCookie, WriteIcap, IcapTakes, Look, Boots, boardVars
<1> QED BY <1>1, <1>2, LoadMoves DEF OtherRoutine

LEMMA PciKeptSteps ==
  ASSUME KeptInv, kills = 0, PciReload \/ PciEfxReload
  PROVE  IF routine' \in PciReloads /\ at' \notin {"begin", "save"} THEN saved' = "set"
                                                                    ELSE cfg' = "set"
<1>1. routine \in PciReloads /\ Idle \notin PciReloads
  BY PciSteps DEF PciReloads, Idle
<1>2. CASE at = "begin"
  <2>1. cfg = "set" /\ UNCHANGED cfg /\ (routine' = Idle \/ at' = "save")
    BY <1>2 DEF KeptInv, PciReload, PciEfxReload, CheckCookie, SaveConfig, WriteIcap, ConfigBack,
       Look, Return, Goto, boardVars
  <2> QED BY <1>1, <2>1
<1>3. CASE at = "save"
  <2>1. cfg = "set" /\ saved' = cfg /\ at' \in {"words", "select"} /\ routine' = routine
    BY <1>3 DEF KeptInv, PciReload, PciEfxReload, CheckCookie, SaveConfig, WriteIcap, ConfigBack,
       Look, Goto
  <2> QED BY <1>1, <2>1
<1>4. CASE at = "restore"
  <2>1. saved = "set" /\ cfg' = saved /\ routine' = Idle
    BY <1>1, <1>4 DEF KeptInv, PciReload, PciEfxReload, CheckCookie, SaveConfig, WriteIcap, ConfigBack,
       RestoreConfig, Look, Return
  <2> QED BY <1>1, <2>1
<1>5. CASE at \notin {"begin", "save", "restore"}
  <2>1. saved = "set" /\ saved' = saved /\ routine' = routine
        /\ (at' = at \/ at' \in {"start", "restore"})
    BY <1>1, <1>5 DEF KeptInv, PciReload, PciEfxReload, CheckCookie, SaveConfig, WriteIcap,
       ConfigBack, Look, Goto
  <2> QED BY <1>1, <1>5, <2>1
<1> QED BY <1>2, <1>3, <1>4, <1>5

LEMMA KillsKept ==
  ASSUME Start \/ Others \/ Calls
  PROVE  UNCHANGED kills
BY DEF Start, Others, Calls, GetOption, EndOfOptions, RestUnchanged, Main, ScanBus, ScanDevice,
       GetDev, Open, AccessRegisters, SetRemote, FlashCommand, Verify, CallFlash, ProgramReturns,
       NoReload, ReloadReturns, OnlyResetReturns, Close, Cleanup, ProgramFpga, ResetReturns, Reload,
       Reset, MainStep

LEMMA KeptNext ==
  ASSUME KeptInv, BootsInv, RunsInv, MainInv, [Next]_vars
  PROVE  KeptInv'
<1>0. Idle \notin PciReloads
  BY DEF PciReloads, Idle
<1>1. CASE Start \/ Others
  <2>1. UNCHANGED <<routine, at, saved, cfg, kills>>
    BY <1>1, OthersQuiet, KillsKept DEF codeVars
  <2> QED BY <2>1 DEF KeptInv
<1>2. CASE Calls /\ UNCHANGED loadVars
  <2>1. UNCHANGED <<routine, at, saved, cfg, kills>>
    BY <1>2, KillsKept DEF loadVars, codeVars, boardVars
  <2> QED BY <2>1 DEF KeptInv
<1>3. CASE Calls /\ CallsWaited
  <2>1. routine = Idle
    BY <1>3, CallsCall DEF RunsInv, MainInv
  <2>2. at' = "begin" /\ UNCHANGED <<cfg, kills>>
    BY <1>3, KillsKept DEF CallsWaited, CallRoutine, boardVars
  <2> QED BY <1>0, <2>1, <2>2 DEF KeptInv
<1>4. CASE Kill
  <2>1. kills' = kills + 1 /\ kills \in Nat
    BY <1>4 DEF Kill, KeptInv
  <2>2. kills' \in Nat /\ kills' # 0
    BY <2>1
  <2> QED BY <2>2 DEF KeptInv
<1>5. CASE AnswerLost
  <2>1. /\ pc \notin Waiting \/ routine = "lbp16_board_reload"
        /\ routine' = Idle /\ UNCHANGED <<cfg, kills>>
    BY <1>5, AnswerLostMoves DEF Waiting, boardVars
  <2>2. routine \notin PciReloads
    BY <1>0, <2>1 DEF RunsInv, PciReloads
  <2> QED BY <1>0, <2>1, <2>2 DEF KeptInv
<1>6. CASE InBoard /\ UNCHANGED <<mainVars, worldVars, pc>>
  <2>0. kills' = kills
    BY <1>6 DEF worldVars
  <2>1. CASE OtherRoutine
    <3>1. /\ routine \notin PciReloads /\ (routine' = routine \/ routine' = Idle)
          /\ UNCHANGED cfg
      BY <2>1, OtherRoutineSteps, OthersKeepConfig DEF Return, BootsInv
    <3> QED BY <1>0, <2>0, <3>1 DEF KeptInv
  <2>2. CASE PciReload \/ PciEfxReload
    BY <2>0, <2>2, PciKeptSteps DEF KeptInv
  <2> QED BY <1>6, <2>1, <2>2 DEF InBoard, RoutineStep, FaultStep, OtherRoutine
<1>7. CASE Chip /\ UNCHANGED <<mainVars, worldVars, pc>>
  <2>1. UNCHANGED <<routine, at, saved, cfg, kills>>
    BY <1>7 DEF Chip, FpgaStep, FpgaClears, FpgaStarts, codeVars, worldVars
  <2> QED BY <2>1 DEF KeptInv
<1>8. CASE UNCHANGED vars
  <2>1. UNCHANGED <<routine, at, saved, cfg, kills>>
    BY <1>8 DEF vars, loadVars, codeVars, boardVars, worldVars
  <2> QED BY <2>1 DEF KeptInv
<1> QED BY <1>1, <1>2, <1>3, <1>4, <1>5, <1>6, <1>7, <1>8, CallsCall
        DEF Next, Process, Others, Calls, MainInv

\* pci_board_reload, pci_efx_board_reload: a PCI card is without its
\* configuration only while one of them runs, or after a run was killed; no
\* sequence of runs, commands, failures and lost answers leaves it so.
THEOREM SessionConfigKept == Spec => []ConfigKept
<1>1. Init => KeptInv
  BY DEF Init, SessionInit, LoadInit, KeptInv, PciReloads, Idle
<1>2. KeptInv => ConfigKept
  BY DEF KeptInv, ConfigKept
<1>3. /\ RunsInv /\ MainInv /\ [Next]_vars => RunsInv'
      /\ BootsInv /\ RunsInv /\ MainInv /\ ConfigInv /\ SearchInv /\ [Next]_vars => BootsInv'
      /\ KeptInv /\ BootsInv /\ RunsInv /\ MainInv /\ [Next]_vars => KeptInv'
  BY RunsNext, BootsNext, KeptNext
<1> QED BY <1>1, <1>2, <1>3, BootsInit, RunsInit, SearchInit, SearchNext, CalledInit, CalledNext,
        MainInit, MainNext, ConfigInit, ConfigNext, PTL DEF Spec


-----------------------------------------------------------------------------
(* The outputs of the bridge *)

Plx9030Functions == {"plx9030_reset", "plx9030_program_fpga"}
EppFunctions == {"epp_reset", "epp_program_fpga"}

BridgeInv ==
  /\ {"PROGRAM", "WRITE", "enabled"} \subseteq DOMAIN line
  /\ HasPlx9030(bench) => line.enabled
  /\ EppBench => line.enabled /\ line.WRITE = 0
  /\ routine = "plx9030_reset" /\ at # "begin" => line.WRITE = 1
  /\ routine = "plx9030_program_fpga" /\ at = "begin" => line.WRITE = 1
  /\ BridgeIdle

\* A function for a bridge or a CPLD runs only where there is one.
LEMMA HereRuns ==
  ASSUME RunsInv, BoardOK(board), Here(board)
  PROVE  /\ routine \in Plx9030Functions => HasPlx9030(bench)
         /\ routine \in EppFunctions => EppBench
<1>1. routine # Idle => pc \in Waiting /\ routine = Waited
  BY DEF RunsInv
<1>2. pc = "programming" => <<board.reset, board.program>> \in Pairs
  BY DEF RunsInv, BoardOK
<1>3. board.reload \notin Plx9030Functions \cup EppFunctions
  BY DEF BoardOK, Plx9030Functions, EppFunctions, Reloads, NULL
<1>4. board.reset \notin Programs
  BY DEF BoardOK, Resets, Programs, NULL
<1>5. /\ pc = "programming" /\ board.program \in Plx9030Functions => board.reset = "plx9030_reset"
      /\ pc = "programming" /\ board.program \in EppFunctions => board.reset = "epp_reset"
  BY <1>2 DEF Pairs, Plx9030Functions, EppFunctions
<1>6. Idle \notin Plx9030Functions \cup EppFunctions
  BY DEF Plx9030Functions, EppFunctions, Idle
<1>7. CASE pc = "programming"
  BY <1>1, <1>5, <1>6, <1>7 DEF Waited, Here
<1>8. CASE pc \in {"resetting", "only resetting"}
  BY <1>1, <1>4, <1>6, <1>8 DEF Waited, Here, Plx9030Functions, EppFunctions, Programs
<1>9. CASE pc = "reloading"
  BY <1>1, <1>3, <1>6, <1>9 DEF Waited
<1> QED BY <1>1, <1>6, <1>7, <1>8, <1>9 DEF Waiting

LEMMA SearchBench ==
  ASSUME Start \/ Others
  PROVE  bench' = bench
BY DEF Start, Others, GetOption, EndOfOptions, RestUnchanged, Main, ScanBus, ScanDevice, GetDev,
       Open, AccessRegisters, SetRemote, FlashCommand, Verify, CallFlash, ProgramReturns, NoReload,
       ReloadReturns, OnlyResetReturns, Close, Cleanup, MainStep

LEMMA BridgeReset ==
  ASSUME BridgeInv, HasPlx9030(bench), Plx9030Reset, UNCHANGED bench
  PROVE  BridgeInv'
<1>1. /\ routine = "plx9030_reset" /\ line.enabled
      /\ {"PROGRAM", "WRITE", "enabled"} \subseteq DOMAIN line
  BY DEF Plx9030Reset, BridgeInv
<1>2. /\ {"PROGRAM", "WRITE", "enabled"} \subseteq DOMAIN line'
      /\ line'.enabled /\ line'.WRITE = 1
  <2>1. CASE Control("begin", [line EXCEPT !.PROGRAM = 0, !.WRITE = 1], "check")
    BY <1>1, <2>1 DEF Control, Drive
  <2>2. CASE Control("high", [line EXCEPT !.PROGRAM = 1], "poll")
    BY <1>1, <2>2 DEF Control, Drive, BridgeInv
  <2>3. CASE UNCHANGED line /\ at # "begin"
    BY <1>1, <2>3 DEF BridgeInv
  <2> QED BY <2>1, <2>2, <2>3 DEF Plx9030Reset, Look, boardVars
<1>3. \/ routine' = routine /\ at' # "begin"
      \/ \E v : Return(v)
  BY DEF Plx9030Reset, Control, Look, PollInit, Goto
<1>4. ~EppBench'
  BY DEF EppBench
<1>5. routine' = routine \/ (routine' = Idle /\ result'.of = "plx9030_reset")
  BY <1>1, <1>3 DEF Return
<1>6. BridgeIdle'
  BY <1>1, <1>2, <1>5 DEF BridgeIdle, Idle
<1> QED BY <1>1, <1>2, <1>4, <1>5, <1>6 DEF BridgeInv, Idle

LEMMA BridgeProgram ==
  ASSUME BridgeInv, HasPlx9030(bench), Plx9030Program, UNCHANGED bench
  PROVE  BridgeInv'
<1>1. /\ routine = "plx9030_program_fpga" /\ line.enabled
      /\ {"PROGRAM", "WRITE", "enabled"} \subseteq DOMAIN line /\ ~EppBench'
  BY DEF Plx9030Program, BridgeInv, EppBench
<1>2. CASE OpenFile("write")
  <2>1. UNCHANGED line /\ line.WRITE = 1
    BY <1>1, <1>2 DEF OpenFile, boardVars, BridgeInv
  <2>2. (routine' = routine /\ at' = "write") \/ Return(-1)
    BY <1>2 DEF OpenFile, Goto
  <2>3. \/ routine' = routine /\ at' = "write"
        \/ /\ routine' = Idle
           /\ result' = [of |-> routine, file |-> file, area |-> Area, ret |-> -1]
    BY <2>2 DEF Return
  <2> QED BY <1>1, <2>1, <2>3 DEF BridgeInv, BridgeIdle, EIO, Idle
<1>3. CASE Control("write", [line EXCEPT !.WRITE = 0], "send")
  <2>1. routine' = routine /\ at' = "send" /\ line' = [line EXCEPT !.WRITE = 0]
    BY <1>3 DEF Control, Drive, Goto
  <2> QED BY <1>1, <2>1 DEF BridgeInv, BridgeIdle, Idle
<1>4. CASE \/ SendChunk("check")
           \/ Look("check", Goto(IF INIT /\ DONE THEN "done" ELSE "fail") /\ UNCHANGED count)
  <2>1. routine' = routine /\ at' # "begin" /\ line' = line
    BY <1>4 DEF SendChunk, Look, Goto, boardVars
  <2> QED BY <1>1, <2>1 DEF BridgeInv, BridgeIdle, Idle
<1>5. CASE ControlAndReturn("done", [line EXCEPT !.WRITE = 1], 0)
  <2>1. /\ routine' = Idle /\ line' = [line EXCEPT !.WRITE = 1] /\ result'.ret = 0
    BY <1>5 DEF ControlAndReturn, Drive, Return
  <2> QED BY <1>1, <2>1 DEF BridgeInv, BridgeIdle, EIO, Idle
<1>6. CASE ControlAndReturn("fail", Fail, -EIO)
  <2>1. routine' = Idle /\ line' = [line EXCEPT !.PROGRAM = 0, !.WRITE = 1]
    BY <1>6 DEF ControlAndReturn, Drive, Return, Fail
  <2>2. line'.enabled /\ line'.PROGRAM = 0 /\ line'.WRITE = 1
    BY <1>1, <2>1
  <2>3. Held'
    BY <2>2 DEF Held
  <2> QED BY <1>1, <2>1, <2>2, <2>3 DEF BridgeInv, BridgeIdle, Idle
<1> QED BY <1>2, <1>3, <1>4, <1>5, <1>6 DEF Plx9030Program

\* The other functions leave /WRITE as it is and disable nothing.
LEMMA OthersKeepWrite ==
  ASSUME InBoard, ~Plx9030Reset, ~Plx9030Program,
         {"PROGRAM", "WRITE", "enabled"} \subseteq DOMAIN line
  PROVE  /\ {"PROGRAM", "WRITE", "enabled"} \subseteq DOMAIN line'
         /\ line'.WRITE = line.WRITE /\ (line.enabled => line'.enabled)
         /\ routine \notin Plx9030Functions
<1>1. CASE Plx905xReset
  BY <1>1 DEF Plx905xReset, Control, Drive, Look, Delay, boardVars, Plx9030Functions
<1>2. CASE EppReset
  BY <1>2 DEF EppReset, Control, Drive, Look, Delay, boardVars, Plx9030Functions
<1>3. CASE Plx905xProgram \/ EppProgram \/ EppCycleLost
  BY <1>3 DEF Plx905xProgram, EppProgram, EppCycleLost, InRoutine, OpenFile, SendChunk, Look,
              boardVars, Plx9030Functions
<1>4. CASE PciReload \/ PciEfxReload \/ SpiReload
  BY <1>4 DEF PciReload, PciEfxReload, SpiReload, CheckCookie, SaveConfig, WriteIcap, ConfigBack,
              Look, boardVars, Plx9030Functions
<1>5. CASE Lbp16Reload \/ Lbp16Reset \/ DatagramLost
  BY <1>5 DEF Lbp16Reload, Lbp16Reset, DatagramLost, InRoutine, CheckCookie, Look, boardVars,
              Plx9030Functions
<1> QED BY <1>1, <1>2, <1>3, <1>4, <1>5 DEF InBoard, RoutineStep, FaultStep

LEMMA BridgeNext ==
  ASSUME BridgeInv, RunsInv, SearchInv, MainInv, ConfigInv, [Next]_vars
  PROVE  BridgeInv'
<1>1. BoardOK(board) /\ Here(board)
  BY BoardFacts DEF SearchInv, FoundBoards
<1>2. CASE InBoard /\ UNCHANGED <<mainVars, worldVars, pc>>
  <2>0. bench' = bench
    BY <1>2 DEF worldVars
  <2>1. CASE Plx9030Reset
    BY <1>1, <2>0, <2>1, HereRuns, BridgeReset DEF Plx9030Reset, Plx9030Functions
  <2>2. CASE Plx9030Program
    BY <1>1, <2>0, <2>2, HereRuns, BridgeProgram DEF Plx9030Program, Plx9030Functions
  <2>3. CASE ~Plx9030Reset /\ ~Plx9030Program
    <3>1. /\ {"PROGRAM", "WRITE", "enabled"} \subseteq DOMAIN line'
          /\ line'.WRITE = line.WRITE /\ (line.enabled => line'.enabled)
          /\ routine \notin Plx9030Functions
      BY <1>2, <2>3, OthersKeepWrite DEF BridgeInv
    <3>2. routine' = routine \/ (routine' = Idle /\ result'.of = routine)
      BY <1>2, InBoardMoves DEF Return
    <3>3. routine' \notin Plx9030Functions
      BY <3>1, <3>2 DEF Plx9030Functions, Idle
    <3>4. BridgeIdle'
      BY <1>2, <3>1, <3>2, InBoardMoves DEF BridgeIdle, Plx9030Functions
    <3> QED BY <2>0, <3>1, <3>3, <3>4 DEF BridgeInv, EppBench, Plx9030Functions
  <2> QED BY <2>1, <2>2, <2>3
<1>3. CASE UNCHANGED <<bench, line, routine, at, result>>
  BY <1>3 DEF BridgeInv, BridgeIdle, Held, EppBench
<1>4. CASE Kill \/ AnswerLost
  <2>1. UNCHANGED <<bench, line, result>> /\ routine' = Idle /\ at' = Idle
    BY <1>4 DEF Kill, AnswerLost, boardVars
  <2>2. CASE routine = Idle
    BY <2>1, <2>2 DEF BridgeInv, BridgeIdle, Held, EppBench, Idle
  <2>3. CASE routine # Idle
    <3>1. result'.of = Idle
      BY <2>1, <2>3 DEF ConfigInv
    <3> QED BY <2>1, <3>1 DEF BridgeInv, BridgeIdle, EppBench, Idle
  <2> QED BY <2>2, <2>3
<1>5. CASE Calls /\ CallsWaited
  <2>1. /\ UNCHANGED <<bench, board, line>> /\ at' = "begin" /\ routine' = Waited'
        /\ result'.of = Idle /\ pc' \in Waiting
    BY <1>5 DEF Calls, ProgramFpga, ResetReturns, Reload, Reset, MainStep, CallsWaited,
                CallRoutine, NoResult, boardVars
  <2>2. routine' = "plx9030_program_fpga" => ResetReturns /\ board.program = routine'
    <3>1. board.reset # "plx9030_program_fpga" /\ board.reload # "plx9030_program_fpga"
      BY <1>1 DEF BoardOK, Resets, Reloads, NULL
    <3>2. pc' = "programming" => ResetReturns
      BY <1>5 DEF Calls, ProgramFpga, Reload, Reset, CallsBoard, Refuses, Finish, Dies, GoOn
    <3> QED BY <2>1, <3>1, <3>2 DEF Waited, Waiting
  <2>3. routine' = "plx9030_program_fpga" => line.WRITE = 1
    <3> SUFFICES ASSUME routine' = "plx9030_program_fpga" PROVE line.WRITE = 1
      OBVIOUS
    <3>1. pc = "resetting" /\ routine = Idle /\ board.program = "plx9030_program_fpga"
      BY <2>2 DEF ResetReturns, Returned
    <3>2. result.of = board.reset /\ <<board.reset, board.program>> \in Pairs
      BY <1>1, <3>1 DEF RunsInv, Waited, Waiting, BoardOK
    <3>3. result.of = "plx9030_reset"
      BY <3>1, <3>2 DEF Pairs
    <3> QED BY <3>1, <3>3 DEF BridgeInv, BridgeIdle
  <2>4. BridgeIdle'
    BY <2>1 DEF BridgeIdle, Idle
  <2> QED BY <2>1, <2>3, <2>4 DEF BridgeInv, EppBench
<1>6. CASE Start \/ Others
  BY <1>3, <1>6, OthersQuiet, SearchBench DEF codeVars
<1>7. CASE Calls /\ UNCHANGED loadVars
  BY <1>3, <1>7 DEF Calls, ProgramFpga, ResetReturns, Reload, Reset, MainStep, loadVars, codeVars,
                    boardVars
<1>8. CASE Chip /\ UNCHANGED <<mainVars, worldVars, pc>>
  BY <1>3, <1>8 DEF Chip, FpgaStep, FpgaClears, FpgaStarts, worldVars, codeVars
<1>9. CASE UNCHANGED vars
  BY <1>3, <1>9 DEF vars, worldVars, loadVars, codeVars, boardVars
<1> QED BY <1>2, <1>4, <1>5, <1>6, <1>7, <1>8, <1>9, CallsCall
        DEF Next, Process, Others, Calls, MainInv


LEMMA BridgeInit == Init => BridgeInv
<1> SUFFICES ASSUME Init PROVE BridgeInv
  OBVIOUS
<1>1. /\ bench \in Benches /\ line = bench.line /\ routine = Idle /\ result.of = Idle
  BY DEF Init, LoadInit, SessionInit, NoResult
<1>2. /\ line \in [PROGRAM : 0 .. 1, WRITE : 0 .. 1, enabled : BOOLEAN]
      /\ HasPlx9030(bench) => line.enabled
  BY <1>1, BenchFacts
<1>3. {"PROGRAM", "WRITE", "enabled"} \subseteq DOMAIN line
  BY <1>2
<1> QED BY <1>1, <1>2, <1>3 DEF BridgeInv, BridgeIdle, EppBench, Idle

\* plx9030_reset and plx9030_program_fpga leave /WRITE high whatever they
\* return, and an FPGA that did not start in reset.
THEOREM SessionBridgeIdle == Spec => []BridgeIdle
<1>1. BridgeInv => BridgeIdle
  BY DEF BridgeInv
<1>2. /\ RunsInv /\ MainInv /\ [Next]_vars => RunsInv'
      /\ BridgeInv /\ RunsInv /\ SearchInv /\ MainInv /\ ConfigInv /\ [Next]_vars => BridgeInv'
  BY RunsNext, BridgeNext
<1> QED BY <1>1, <1>2, BridgeInit, RunsInit, SearchInit, SearchNext, CalledInit, CalledNext, MainInit, MainNext,
        ConfigInit, ConfigNext, PTL DEF Spec


-----------------------------------------------------------------------------
(* The values that the variables of the functions and the FPGA keep to *)

Lines == [PROGRAM : 0 .. 1, WRITE : 0 .. 1, enabled : BOOLEAN]

Fpgas == [state : {"held", "clearing", "ready", "startup", "running", "crc"},
          runs : {"good", "user", "fallback", Nothing}, took : 0 .. CHUNKS,
          of : Files \cup {Nothing}]

CodeTypes ==
  /\ file \in Files \cup {Nothing} /\ fallback \in BOOLEAN
  /\ left \in 0 .. CHUNKS /\ count \in Int /\ saved \in {"set", "lost", Nothing}
  /\ result.ret \in {0, -1, -EIO}
  /\ timeout \in BOOLEAN /\ old \in BOOLEAN /\ broken \in {"init", "done", Nothing}
  /\ line \in Lines /\ faults \in 0 .. MaxFaults

\* Only an FPGA that waits for more of the file takes it.
FpgaTypes ==
  /\ fpga \in Fpgas
  /\ fpga.state \in {"held", "clearing"} => fpga.took = 0
  /\ fpga.state = "ready" => fpga.took < CHUNKS
  /\ fpga.state = "startup" => fpga.of = "good"

LEMMA Bounds == INIT_POLLS \in Nat /\ CHUNKS \in Nat /\ CHUNKS > 0 /\ MaxFaults \in Nat
BY LoadAssumption

LEMMA CodeMoves ==
  ASSUME CodeTypes, cfg \in {"set", "lost"}, InBoard
  PROVE  /\ left' \in 0 .. CHUNKS /\ count' \in Int /\ saved' \in {"set", "lost", Nothing}
         /\ line' \in Lines /\ timeout' \in BOOLEAN
         /\ faults' \in 0 .. MaxFaults /\ UNCHANGED <<broken, old>>
<1>1. /\ left \in 0 .. CHUNKS /\ count \in Int /\ saved \in {"set", "lost", Nothing}
      /\ line \in Lines /\ timeout \in BOOLEAN /\ faults \in 0 .. MaxFaults
      /\ left > 0 => left - 1 \in 0 .. CHUNKS
      /\ count - 1 \in Int /\ count + 1 \in Int /\ INIT_POLLS \in Int
      /\ faults < MaxFaults => faults + 1 \in 0 .. MaxFaults
  BY Bounds DEF CodeTypes
<1>2. /\ \A p \in 0 .. 1, w \in 0 .. 1 :
           /\ [line EXCEPT !.PROGRAM = p] \in Lines /\ [line EXCEPT !.WRITE = w] \in Lines
           /\ [line EXCEPT !.PROGRAM = p, !.WRITE = w] \in Lines
      /\ [line EXCEPT !.enabled = TRUE] \in Lines
  BY <1>1 DEF Lines
<1>3. CASE RoutineStep /\ Plx9030Reset
  BY <1>1, <1>2, <1>3 DEF RoutineStep, Plx9030Reset, Control, Drive, Look, PollInit, boardVars
<1>4. CASE RoutineStep /\ Plx9030Program
  BY <1>1, <1>2, <1>4 DEF RoutineStep, Plx9030Program, OpenFile, Control, ControlAndReturn, Drive,
                          SendChunk, Look, Fail, boardVars
<1>5. CASE RoutineStep /\ (Plx905xReset \/ Plx905xProgram)
  <2>1. CASE RoutineStep /\ Plx905xReset
    <3>1. CASE \/ Control("begin", [line EXCEPT !.enabled = TRUE], "low")
               \/ Control("low", [line EXCEPT !.PROGRAM = 0], "check")
               \/ Control("high", [line EXCEPT !.PROGRAM = 1], "delay")
      <4>1. /\ line' \in {[line EXCEPT !.enabled = TRUE], [line EXCEPT !.PROGRAM = 0],
                          [line EXCEPT !.PROGRAM = 1]}
            /\ UNCHANGED <<left, count, saved, timeout>>
        BY <3>1 DEF Control, Drive
      <4>2. 0 \in 0 .. 1 /\ 1 \in 0 .. 1
        OBVIOUS
      <4>3. line' \in Lines
        BY <1>2, <4>1, <4>2
      <4> QED BY <1>1, <2>1, <4>1, <4>3 DEF RoutineStep
    <3>2. CASE UNCHANGED <<left, count, saved, line, timeout>>
      BY <1>1, <2>1, <3>2 DEF RoutineStep
    <3> QED BY <2>1, <3>1, <3>2 DEF Plx905xReset, Look, Delay, boardVars
  <2>2. CASE RoutineStep /\ Plx905xProgram
    BY <1>1, <2>2 DEF RoutineStep, Plx905xProgram, OpenFile, SendChunk, Look, boardVars
  <2> QED BY <1>5, <2>1, <2>2
<1>6. CASE RoutineStep /\ (EppReset \/ EppProgram)
  BY <1>1, <1>2, <1>6 DEF RoutineStep, EppReset, EppProgram, OpenFile, Control, Drive, SendChunk,
                          Look, Delay, boardVars
<1>7. CASE RoutineStep /\ (PciReload \/ PciEfxReload \/ SpiReload)
  BY <1>1, <1>7 DEF RoutineStep, PciReload, PciEfxReload, SpiReload, CheckCookie, SaveConfig,
                    WriteIcap, ConfigBack, Look, boardVars
<1>8. CASE RoutineStep /\ (Lbp16Reload \/ Lbp16Reset)
  BY <1>1, <1>8 DEF RoutineStep, Lbp16Reload, Lbp16Reset, CheckCookie, Look, boardVars
<1>9. CASE FaultStep
  BY <1>1, <1>9 DEF FaultStep, EppCycleLost, DatagramLost, boardVars
<1> QED BY <1>3, <1>4, <1>5, <1>6, <1>7, <1>8, <1>9 DEF InBoard, RoutineStep

LEMMA CodeTypesNext ==
  ASSUME CodeTypes, BootsInv, SearchInv, MainInv, [Next]_vars
  PROVE  CodeTypes'
<1>1. CASE InBoard
  <2>1. /\ left' \in 0 .. CHUNKS /\ count' \in Int /\ saved' \in {"set", "lost", Nothing}
        /\ line' \in Lines /\ timeout' \in BOOLEAN
        /\ faults' \in 0 .. MaxFaults /\ UNCHANGED <<broken, old>>
    BY <1>1, CodeMoves DEF BootsInv, Shapes
  <2>2. UNCHANGED <<file, fallback>> /\ result'.ret \in {0, -1, -EIO}
    BY <1>1, InBoardMoves DEF Return, CodeTypes
  <2> QED BY <2>1, <2>2 DEF CodeTypes
<1>2. CASE Chip
  BY <1>2 DEF Chip, FpgaStep, FpgaClears, FpgaStarts, codeVars, CodeTypes
<1>3. CASE Start \/ Others
  <2>1. timeout' \in {timeout, FALSE}
    BY <1>3 DEF Start, Others, GetOption, EndOfOptions, RestUnchanged, Main, ScanBus, ScanDevice,
                GetDev, Open, AccessRegisters, SetRemote, FlashCommand, Verify, CallFlash,
                ProgramReturns, NoReload, ReloadReturns, OnlyResetReturns, Close, Cleanup,
                loadVars, boardVars
  <2> QED BY <1>3, <2>1, OthersQuiet DEF codeVars, CodeTypes
<1>4. CASE Kill
  BY <1>4 DEF Kill, boardVars, CodeTypes
<1>7. CASE AnswerLost
  <2>1. /\ UNCHANGED <<file, fallback, left, count, saved, result, line, timeout, broken, old>>
        /\ faults < MaxFaults /\ faults' = faults + 1
    BY <1>7, AnswerLostMoves DEF boardVars
  <2>2. faults \in 0 .. MaxFaults
    BY DEF CodeTypes
  <2>3. faults' \in 0 .. MaxFaults
    BY <2>1, <2>2, Bounds
  <2> QED BY <2>1, <2>3 DEF CodeTypes
<1>5. CASE CallsWaited
  <2>1. /\ file' = bitfile_name /\ fallback' = ("fallback" \in flags) /\ left' = CHUNKS
        /\ count' = 0 /\ saved' = Nothing /\ result' = NoResult
        /\ UNCHANGED <<line, timeout, broken, old, faults>>
    BY <1>5 DEF CallsWaited, CallRoutine, boardVars
  <2>2. bitfile_name \in Files \cup {Nothing} /\ CHUNKS \in 0 .. CHUNKS /\ result'.ret = 0
    BY <2>1, Bounds DEF SearchInv, Options, NoResult
  <2>3. fallback' \in BOOLEAN
    BY <2>1
  <2> QED BY <2>1, <2>2, <2>3 DEF CodeTypes
<1>6. CASE UNCHANGED loadVars
  BY <1>6 DEF loadVars, codeVars, boardVars, CodeTypes
<1> QED BY <1>1, <1>2, <1>3, <1>4, <1>5, <1>6, <1>7, CallsCall
        DEF Next, Process, Others, Calls, MainInv, vars

\* What an access may do to the FPGA.
LEMMA DriveTypes ==
  ASSUME FpgaTypes, NEW new, Drive(new)
  PROVE  FpgaTypes'
<1>1. Cleared \in Fpgas /\ Cleared.state = "held" /\ Cleared.took = 0
  BY Bounds DEF Cleared, Fpgas, Nothing
<1>2. CASE fpga' = Cleared
  BY <1>1, <1>2 DEF FpgaTypes
<1>3. CASE fpga' = [Cleared EXCEPT !.state = "clearing"]
  <2>1. fpga' \in Fpgas /\ fpga'.state = "clearing" /\ fpga'.took = 0
    BY <1>1, <1>3 DEF Fpgas
  <2> QED BY <2>1 DEF FpgaTypes
<1>4. CASE fpga' = fpga
  BY <1>4 DEF FpgaTypes
<1> QED BY <1>2, <1>3, <1>4 DEF Drive

LEMMA TakesTypes ==
  ASSUME FpgaTypes, NEW f \in Files \cup {Nothing}, Takes(f)
  PROVE  FpgaTypes'
<1> DEFINE of == IF fpga.took = 0 \/ fpga.of = f THEN f ELSE "bad"
           state == IF fpga.took + 1 < CHUNKS THEN "ready"
                    ELSE IF of = "good" THEN "startup" ELSE "crc"
<1>1. CASE fpga' = fpga
  BY <1>1 DEF FpgaTypes
<1>2. CASE /\ fpga.state = "ready"
           /\ fpga' = [fpga EXCEPT !.took = @ + 1, !.of = of, !.state = state]
  <2>1. /\ of \in Files \cup {Nothing} /\ state \in {"ready", "startup", "crc"}
        /\ state = "ready" => fpga.took + 1 < CHUNKS
        /\ state = "startup" => of = "good"
    BY DEF Files
  <2>2. fpga.took \in 0 .. CHUNKS /\ fpga.took < CHUNKS
    BY <1>2 DEF FpgaTypes, Fpgas
  <2>3. fpga.took + 1 \in 0 .. CHUNKS
    BY <2>2, Bounds
  <2> HIDE DEF of, state
  <2>4. fpga' \in Fpgas /\ fpga'.state = state /\ fpga'.of = of /\ fpga'.took = fpga.took + 1
    BY <1>2, <2>1, <2>3 DEF FpgaTypes, Fpgas
  <2> QED BY <2>1, <2>4 DEF FpgaTypes
<1> QED BY <1>1, <1>2 DEF Takes

LEMMA RunsTypes ==
  ASSUME FpgaTypes, NEW area \in {"good", "user", "fallback"},
         NEW s \in {fpga.state, "running"}, fpga' = [fpga EXCEPT !.state = s, !.runs = area]
  PROVE  FpgaTypes'
<1>1. /\ fpga' \in Fpgas /\ fpga'.took = fpga.took /\ fpga'.of = fpga.of /\ fpga'.state = s
  BY DEF FpgaTypes, Fpgas
<1> QED BY <1>1 DEF FpgaTypes

LEMMA BootsTypes ==
  ASSUME FpgaTypes, NEW start, Boots(start), start \in {"user", "fallback"}
  PROVE  FpgaTypes'
<1>1. fpga' = [fpga EXCEPT !.runs = start]
  BY DEF Boots
<1>2. /\ fpga' \in Fpgas /\ fpga'.took = fpga.took /\ fpga'.of = fpga.of
      /\ fpga'.state = fpga.state
  BY <1>1 DEF FpgaTypes, Fpgas
<1> QED BY <1>2 DEF FpgaTypes

LEMMA FpgaSame ==
  ASSUME FpgaTypes, UNCHANGED fpga
  PROVE  FpgaTypes'
BY DEF FpgaTypes

LEMMA FpgaInBoard ==
  ASSUME FpgaTypes, CodeTypes, BootsInv, InBoard
  PROVE  FpgaTypes'
<1>1. file \in Files \cup {Nothing} /\ Area \in {"user", "fallback"}
  BY DEF CodeTypes, Area
<1>2. \A new : Drive(new) => FpgaTypes'
  BY DriveTypes
<1>3. Takes(file) => FpgaTypes'
  BY <1>1, TakesTypes
<1>4. UNCHANGED fpga => FpgaTypes'
  BY FpgaSame
<1>5. CASE Plx9030Reset \/ Plx9030Program
  BY <1>2, <1>3, <1>4, <1>5 DEF Plx9030Reset, Plx9030Program, OpenFile, Control,
     ControlAndReturn, SendChunk, Look, boardVars
<1>6. CASE Plx905xReset \/ Plx905xProgram
  BY <1>2, <1>3, <1>4, <1>6 DEF Plx905xReset, Plx905xProgram, OpenFile, Control, SendChunk, Look,
     Delay, boardVars
<1>7. CASE EppReset
  <2>1. CASE fpga' = [Cleared EXCEPT !.state = "clearing"]
    <3>1. fpga' \in Fpgas /\ fpga'.state = "clearing" /\ fpga'.took = 0
      BY <2>1, Bounds DEF Cleared, Fpgas, Nothing
    <3> QED BY <3>1 DEF FpgaTypes
  <2> QED BY <1>2, <1>4, <1>7, <2>1 DEF EppReset, Control, Look, Delay, boardVars
<1>8. CASE EppProgram \/ EppCycleLost \/ DatagramLost
  BY <1>3, <1>4, <1>8 DEF EppProgram, EppCycleLost, DatagramLost, OpenFile, SendChunk, Look,
     boardVars
<1>9. CASE PciReload \/ SpiReload
  <2>1. CASE /\ at = "words" /\ Reached /\ count < Len(IcapWords)
             /\ IcapTakes(IcapWords[count + 1])
    <3>1. WordsSent /\ count < 14
      BY <1>9, <2>1, WordsAre DEF BootsInv, IcapSteps, PciReload, SpiReload, IcapReloads
    <3>2. CASE IcapWords[count + 1] = "IPROG" /\ Boots(icap.start)
      <4>1. count + 1 \in 1 .. 14
        BY <3>1 DEF WordsSent
      <4>2. \A n \in 1 .. 14 : IcapWords[n] = "IPROG" => n = 10
        BY <1>1, WordsAre
      <4>3. count + 1 = 10
        BY <3>2, <4>1, <4>2
      <4>4. count = 9
        BY <3>1, <4>3 DEF WordsSent
      <4>5. icap.start = Area
        BY <3>1, <4>4 DEF WordsSent
      <4> QED BY <1>1, <3>2, <4>5, BootsTypes
    <3> QED BY <1>4, <2>1, <3>2 DEF IcapTakes
  <2> QED BY <1>4, <1>9, <2>1 DEF PciReload, SpiReload, CheckCookie, SaveConfig, WriteIcap,
             ConfigBack, Look, boardVars
<1>10. CASE PciEfxReload
  <2>1. CASE at = "start" /\ Reached /\ Boots(icap.start)
    <3>1. icap.start = Area
      BY <1>10, <2>1 DEF PciEfxReload, BootsInv, EfxSteps, Reached, PciReloads
    <3> QED BY <1>1, <2>1, <3>1, BootsTypes
  <2> QED BY <1>4, <1>10, <2>1 DEF PciEfxReload, SaveConfig, ConfigBack, Look, boardVars
<1>11. CASE Lbp16Reload \/ Lbp16Reset
  <2>1. StartOf(fallback) \in {"user", "fallback"}
    BY DEF StartOf
  <2> QED BY <1>4, <1>11, <2>1, BootsTypes DEF Lbp16Reload, Lbp16Reset, CheckCookie, Look, boardVars
<1> QED BY <1>5, <1>6, <1>7, <1>8, <1>9, <1>10, <1>11 DEF InBoard, RoutineStep, FaultStep

LEMMA FpgaNext ==
  ASSUME FpgaTypes, CodeTypes, BootsInv, MainInv, [Next]_vars
  PROVE  FpgaTypes'
<1>1. CASE Chip
  <2>1. CASE FpgaClears
    <3>1. /\ fpga' \in Fpgas /\ fpga'.took = 0 /\ fpga'.state = "ready"
      BY <2>1 DEF FpgaClears, FpgaTypes, Fpgas
    <3> QED BY <3>1, Bounds DEF FpgaTypes
  <2>2. CASE FpgaStarts
    <3>1. fpga.of = "good" /\ fpga' = [fpga EXCEPT !.state = "running", !.runs = "good"]
      BY <2>2 DEF FpgaStarts, FpgaTypes
    <3> QED BY <3>1, RunsTypes
  <2> QED BY <1>1, <2>1, <2>2 DEF Chip, FpgaStep
<1>2. CASE InBoard
  BY <1>2, FpgaInBoard
<1>3. CASE UNCHANGED fpga
  BY <1>3, FpgaSame
<1> QED BY <1>1, <1>2, <1>3, OthersQuiet, CallsCall
        DEF Next, Process, Others, Calls, CallsWaited, MainInv, Kill, AnswerLost, vars, loadVars, boardVars


-----------------------------------------------------------------------------
(* What a loading that returned 0 has done *)

\* The FPGA runs nothing, and its DONE says so.
Unloaded == broken # "done" /\ fpga.state \notin {"running", "startup"}

\* It waits for a file, or will never be cleared.
EmptyOne ==
  fpga.took = 0 /\ (fpga.state = "ready" \/ (fpga.state = "clearing" /\ broken = "init"))

ResetSteps ==
  /\ routine = "plx9030_reset" =>
       /\ at \in {"high", "poll"} => Unloaded
       /\ at = "poll" => line.PROGRAM = 1
  /\ routine = "plx905x_reset" =>
       /\ at = "low" => line.enabled
       /\ at = "check" => fpga.state = "held"
       /\ at \in {"high", "delay"} => Unloaded
  /\ routine = "epp_reset" =>
       /\ at = "high" => fpga.state = "held" /\ line.PROGRAM = 0
       /\ at = "delay" => fpga.state \in {"clearing", "ready"} /\ fpga.took = 0
       /\ at = "check" => EmptyOne

LoadResets == {"plx9030_reset", "plx905x_reset", "epp_reset"}

WasReset ==
  pc = "resetting" /\ routine = Idle /\ result.of \in LoadResets /\ result.ret = 0 =>
    /\ Unloaded
    /\ result.of = "plx9030_reset" => line.PROGRAM = 1
    /\ result.of = "epp_reset" => EmptyOne

PlxPrograms == {"plx9030_program_fpga", "plx905x_program_fpga"}

PlxSteps ==
  routine \in PlxPrograms =>
    /\ broken # "done"
    /\ fpga.state = "running" => fpga.runs = "good" /\ file = "good"
    /\ fpga.state = "startup" => file = "good"
    /\ routine = "plx9030_program_fpga" => line.PROGRAM = 1
    /\ routine = "plx9030_program_fpga" /\ at = "done" => fpga.state = "running"

EppSteps ==
  routine = "epp_program_fpga" /\ broken = Nothing /\ ~timeout =>
    /\ at = "begin" => fpga.state = "ready" /\ fpga.took = 0 /\ left = CHUNKS
    /\ at = "send" => /\ fpga.took = CHUNKS - left
                      /\ left < CHUNKS => fpga.of = file
                      /\ left > 0 => fpga.state = "ready"
    /\ at = "check" => fpga.took = CHUNKS /\ fpga.of = file

Loaded ==
  routine = Idle /\ result.ret = 0 =>
    /\ result.of \in PlxPrograms =>
         fpga.state = "running" /\ fpga.runs = "good" /\ result.file = "good"
    /\ result.of = "epp_program_fpga" /\ broken = Nothing =>
         fpga.of = result.file /\ fpga.took = CHUNKS

LoadInv == ResetSteps /\ WasReset /\ PlxSteps /\ EppSteps /\ Loaded

LoadFunctions == LoadResets \cup PlxPrograms \cup {"epp_program_fpga"}

\* Nothing is said of other functions, nor of what is idle but for its result.
LEMMA OtherLoads ==
  ASSUME routine' \notin LoadFunctions,
         routine' = Idle => result'.of \notin LoadFunctions
  PROVE  LoadInv'
BY DEF LoadInv, ResetSteps, WasReset, PlxSteps, EppSteps, Loaded, LoadFunctions, LoadResets,
       PlxPrograms

\* A function that resets or loads has not returned yet.
LEMMA RunningLoads ==
  ASSUME routine' # Idle
  PROVE  WasReset' /\ Loaded'
BY DEF WasReset, Loaded

\* The first access of a function is still to come.
LEMMA BeginningLoads ==
  ASSUME routine' \in Resets \cup Reloads, at' = "begin"
  PROVE  LoadInv'
<1>1. routine' \notin PlxPrograms \cup {"epp_program_fpga", Idle}
  BY DEF Resets, Reloads, PlxPrograms, Idle
<1> QED BY <1>1, RunningLoads DEF LoadInv, ResetSteps, PlxSteps, EppSteps

\* It returns something other than 0.
LEMMA FailedLoads ==
  ASSUME NEW v, Return(v), v # 0
  PROVE  LoadInv'
BY DEF Return, LoadInv, ResetSteps, WasReset, PlxSteps, EppSteps, Loaded, LoadResets,
       PlxPrograms, Idle

LEMMA LoadChip ==
  ASSUME LoadInv, FpgaTypes, Chip, UNCHANGED pc
  PROVE  LoadInv'
<1>1. /\ UNCHANGED <<pc, routine, at, file, left, result, line, timeout, broken>>
      /\ \/ /\ fpga.state = "clearing" /\ broken # "init"
            /\ fpga' = [fpga EXCEPT !.state = "ready"]
         \/ /\ fpga.state = "startup" /\ fpga.of = "good"
            /\ fpga' = [fpga EXCEPT !.state = "running", !.runs = "good"]
  BY DEF Chip, FpgaStep, FpgaClears, FpgaStarts, FpgaTypes, codeVars
<1>2. /\ fpga'.took = fpga.took /\ fpga'.of = fpga.of
      /\ \/ /\ fpga.state = "clearing" /\ broken # "init"
            /\ fpga'.state = "ready" /\ fpga'.runs = fpga.runs
         \/ fpga.state = "startup" /\ fpga'.state = "running" /\ fpga'.runs = "good"
  BY <1>1 DEF FpgaTypes, Fpgas
<1>3. (Unloaded => Unloaded') /\ (EmptyOne => EmptyOne')
  BY <1>1, <1>2 DEF Unloaded, EmptyOne
<1>4. ResetSteps'
  BY <1>1, <1>2, <1>3 DEF LoadInv, ResetSteps
<1>5. WasReset'
  BY <1>1, <1>3 DEF LoadInv, WasReset
<1>6. PlxSteps'
  BY <1>1, <1>2 DEF LoadInv, PlxSteps
<1>7. EppSteps'
  BY <1>1, <1>2 DEF LoadInv, EppSteps
<1>8. Loaded'
  BY <1>1, <1>2 DEF LoadInv, Loaded
<1> QED BY <1>4, <1>5, <1>6, <1>7, <1>8 DEF LoadInv

\* Neither the bridge nor the FPGA is touched.
LEMMA LoadSame ==
  ASSUME LoadInv, UNCHANGED <<routine, at, file, left, result, line, fpga, broken>>,
         UNCHANGED pc \/ pc' \notin Waiting, routine = Idle \/ UNCHANGED timeout
  PROVE  LoadInv'
<1>1. UNCHANGED <<Unloaded, EmptyOne>>
  BY DEF Unloaded, EmptyOne
<1>2. ResetSteps' /\ WasReset'
  BY <1>1 DEF LoadInv, ResetSteps, WasReset, Waiting
<1>3. PlxSteps' /\ Loaded'
  BY DEF LoadInv, PlxSteps, Loaded
<1>4. EppSteps'
  BY DEF LoadInv, EppSteps, Idle
<1> QED BY <1>2, <1>3, <1>4 DEF LoadInv

LEMMA LoadPlx9030Reset ==
  ASSUME LoadInv, BridgeInv, FpgaTypes, HasPlx9030(bench), Plx9030Reset, UNCHANGED <<pc, broken>>
  PROVE  LoadInv'
<1>1. routine = "plx9030_reset" /\ line.enabled /\ {"PROGRAM", "WRITE", "enabled"} \subseteq DOMAIN line
  BY DEF Plx9030Reset, BridgeInv
<1>2. ASSUME routine' = routine,
             at' \in {"high", "poll"} => Unloaded',
             at' = "poll" => line'.PROGRAM = 1
      PROVE  LoadInv'
  BY <1>1, <1>2, RunningLoads DEF LoadInv, ResetSteps, PlxSteps, EppSteps, PlxPrograms, Idle
<1>3. CASE Control("begin", [line EXCEPT !.PROGRAM = 0, !.WRITE = 1], "check")
  BY <1>2, <1>3 DEF Control, Goto
<1>4. CASE Look("check", /\ IF DONE \/ INIT THEN Return(-EIO) ELSE Goto("high")
                         /\ count' = INIT_POLLS)
  <2>1. CASE Return(-EIO)
    BY <2>1, FailedLoads DEF EIO
  <2>2. CASE ~DONE /\ ~INIT /\ Goto("high")
    <3>1. Unloaded'
      BY <1>4, <2>2 DEF DONE, INIT, Unloaded, Look, boardVars
    <3> QED BY <1>2, <2>2, <3>1 DEF Goto
  <2> QED BY <1>4, <2>1, <2>2 DEF Look
<1>5. CASE Control("high", [line EXCEPT !.PROGRAM = 1], "poll")
  <2>1. line' = [line EXCEPT !.PROGRAM = 1] /\ at' = "poll" /\ routine' = routine
    BY <1>5 DEF Control, Drive, Goto
  <2>2. line'.PROGRAM = 1
    BY <1>1, <2>1
  <2>3. Unloaded
    BY <1>1, <1>5 DEF LoadInv, ResetSteps, Control
  <2>4. fpga' = [Cleared EXCEPT !.state = "clearing"] \/ fpga' = fpga
    BY <1>5, <2>1, <2>2 DEF Control, Drive
  <2>5. Unloaded'
    BY <2>3, <2>4 DEF Unloaded, Cleared
  <2> QED BY <1>2, <2>1, <2>2, <2>5
<1>6. CASE Look("poll", PollInit)
  <2>1. Unloaded' /\ line'.PROGRAM = 1
    BY <1>1, <1>6 DEF LoadInv, ResetSteps, Look, boardVars, Unloaded
  <2>2. CASE Goto("poll")
    BY <1>2, <2>1, <2>2 DEF Goto
  <2>3. CASE \E v : Return(v)
    <3>1. routine' = Idle /\ result'.of = "plx9030_reset"
      BY <1>1, <2>3 DEF Return
    <3> QED BY <2>1, <3>1 DEF LoadInv, ResetSteps, WasReset, PlxSteps, EppSteps, Loaded,
                              PlxPrograms, Idle
  <2> QED BY <1>6, <2>2, <2>3 DEF Look, PollInit
<1> QED BY <1>3, <1>4, <1>5, <1>6 DEF Plx9030Reset

LEMMA LoadPlx905xReset ==
  ASSUME LoadInv, BridgeInv, FpgaTypes, Plx905xReset, UNCHANGED <<pc, broken>>
  PROVE  LoadInv'
<1>1. routine = "plx905x_reset" /\ {"PROGRAM", "WRITE", "enabled"} \subseteq DOMAIN line
  BY DEF Plx905xReset, BridgeInv
<1>2. ASSUME routine' = routine,
             at' = "low" => line'.enabled,
             at' = "check" => fpga'.state = "held",
             at' \in {"high", "delay"} => Unloaded'
      PROVE  LoadInv'
  BY <1>1, <1>2, RunningLoads DEF LoadInv, ResetSteps, PlxSteps, EppSteps, PlxPrograms, Idle
<1>3. CASE Control("begin", [line EXCEPT !.enabled = TRUE], "low")
  <2>1. line' = [line EXCEPT !.enabled = TRUE] /\ at' = "low" /\ routine' = routine
    BY <1>3 DEF Control, Drive, Goto
  <2> QED BY <1>1, <1>2, <2>1
<1>4. CASE Control("low", [line EXCEPT !.PROGRAM = 0], "check")
  <2>1. line' = [line EXCEPT !.PROGRAM = 0] /\ at' = "check" /\ routine' = routine
    BY <1>4 DEF Control, Drive, Goto
  <2>2. line.enabled
    BY <1>1, <1>4 DEF Control, LoadInv, ResetSteps
  <2>3. line'.enabled /\ line'.PROGRAM = 0
    BY <1>1, <2>1, <2>2
  <2>4. fpga'.state = "held"
    BY <1>4, <2>1, <2>3 DEF Control, Drive, Cleared
  <2> QED BY <1>2, <2>1, <2>4
<1>5. CASE Look("check", (IF DONE THEN Return(-EIO) ELSE Goto("high")) /\ UNCHANGED count)
  <2>1. CASE Return(-EIO)
    BY <2>1, FailedLoads DEF EIO
  <2>2. CASE ~DONE /\ Goto("high")
    <3>1. Unloaded'
      BY <1>1, <1>5, <2>2 DEF DONE, Unloaded, Look, boardVars, LoadInv, ResetSteps
    <3> QED BY <1>2, <2>2, <3>1 DEF Goto
  <2> QED BY <1>5, <2>1, <2>2 DEF Look
<1>6. CASE Control("high", [line EXCEPT !.PROGRAM = 1], "delay")
  <2>1. /\ at' = "delay" /\ routine' = routine /\ line' = [line EXCEPT !.PROGRAM = 1]
        /\ Drive([line EXCEPT !.PROGRAM = 1])
    BY <1>6 DEF Control, Drive, Goto
  <2>2. line'.PROGRAM = 1
    BY <1>1, <2>1
  <2>3. Unloaded
    BY <1>1, <1>6 DEF LoadInv, ResetSteps, Control
  <2>4. fpga' = [Cleared EXCEPT !.state = "clearing"] \/ fpga' = fpga
    BY <2>1, <2>2 DEF Drive
  <2>5. Unloaded'
    BY <2>3, <2>4 DEF Unloaded, Cleared
  <2> QED BY <1>2, <2>1, <2>5
<1>7. CASE Delay(Return(0))
  <2>1. Unloaded'
    BY <1>1, <1>7 DEF LoadInv, ResetSteps, Delay, Look, boardVars, Unloaded
  <2>2. routine' = Idle /\ result'.of = "plx905x_reset"
    BY <1>1, <1>7 DEF Delay, Return
  <2> QED BY <2>1, <2>2 DEF LoadInv, ResetSteps, WasReset, PlxSteps, EppSteps, Loaded,
                            PlxPrograms, Idle
<1> QED BY <1>3, <1>4, <1>5, <1>6, <1>7 DEF Plx905xReset

LEMMA LoadEppReset ==
  ASSUME LoadInv, BridgeInv, FpgaTypes, EppBench, EppReset, UNCHANGED <<pc, broken>>
  PROVE  LoadInv'
<1>1. /\ routine = "epp_reset" /\ line.enabled
      /\ {"PROGRAM", "WRITE", "enabled"} \subseteq DOMAIN line
  BY DEF EppReset, BridgeInv
<1>2. ASSUME routine' = routine,
             at' = "high" => fpga'.state = "held" /\ line'.PROGRAM = 0,
             at' = "delay" => fpga'.state \in {"clearing", "ready"} /\ fpga'.took = 0,
             at' = "check" => EmptyOne'
      PROVE  LoadInv'
  BY <1>1, <1>2, RunningLoads DEF LoadInv, ResetSteps, PlxSteps, EppSteps, PlxPrograms, Idle
<1>3. CASE at' = "low" /\ routine' = routine
  BY <1>2, <1>3
<1>4. CASE Control("low", [line EXCEPT !.PROGRAM = 0], "high")
  <2>1. /\ line' = [line EXCEPT !.PROGRAM = 0] /\ at' = "high" /\ routine' = routine
        /\ Drive([line EXCEPT !.PROGRAM = 0])
    BY <1>4 DEF Control, Drive, Goto
  <2>2. line'.enabled /\ line'.PROGRAM = 0
    BY <1>1, <2>1
  <2>3. fpga'.state = "held"
    BY <2>1, <2>2 DEF Drive, Cleared
  <2> QED BY <1>2, <2>1, <2>2, <2>3
<1>5. CASE Control("high", [line EXCEPT !.PROGRAM = 1], "delay")
  <2>1. /\ line' = [line EXCEPT !.PROGRAM = 1] /\ at' = "delay" /\ routine' = routine
        /\ Drive([line EXCEPT !.PROGRAM = 1])
    BY <1>5 DEF Control, Drive, Goto
  <2>2. line'.PROGRAM = 1
    BY <1>1, <2>1
  <2>3. Held
    BY <1>1, <1>5 DEF Control, LoadInv, ResetSteps, Held
  <2>4. fpga' = [Cleared EXCEPT !.state = "clearing"]
    BY <2>1, <2>2, <2>3 DEF Drive
  <2>5. fpga'.state = "clearing" /\ fpga'.took = 0
    BY <2>4 DEF Cleared
  <2> QED BY <1>2, <2>1, <2>5
<1>6. CASE Delay(Goto("check"))
  <2>1. at' = "check" /\ routine' = routine /\ UNCHANGED fpga
    BY <1>6 DEF Delay, Look, Goto, boardVars
  <2>2. EmptyOne
    BY <1>1, <1>6 DEF Delay, Look, LoadInv, ResetSteps, EmptyOne
  <2>3. EmptyOne'
    BY <2>1, <2>2 DEF EmptyOne
  <2> QED BY <1>2, <2>1, <2>3
<1>7. CASE Look("check", Return(IF DONE THEN -EIO ELSE 0) /\ UNCHANGED count)
  <2>1. CASE DONE
    <3>1. Return(-EIO)
      BY <1>7, <2>1 DEF Look
    <3> QED BY <3>1, FailedLoads DEF EIO
  <2>2. CASE ~DONE
    <3>1. /\ EmptyOne' /\ Unloaded' /\ routine' = Idle /\ result'.of = "epp_reset"
      BY <1>1, <1>7, <2>2 DEF Look, LoadInv, ResetSteps, EmptyOne, Unloaded, DONE, Return, boardVars
    <3> QED BY <3>1 DEF LoadInv, ResetSteps, WasReset, PlxSteps, EppSteps, Loaded, PlxPrograms, Idle
  <2> QED BY <2>1, <2>2
<1> QED BY <1>3, <1>4, <1>5, <1>6, <1>7 DEF EppReset, Goto


\* A chunk starts an FPGA only when all the chunks were of a good file.
LEMMA TakesLoads ==
  ASSUME FpgaTypes, NEW f, Takes(f)
  PROVE  /\ fpga'.state = "running" => fpga' = fpga
         /\ fpga'.state = "startup" => fpga.state = "startup" \/ f = "good"
<1>1. CASE fpga' = fpga
  BY <1>1
<1>2. CASE fpga' # fpga
  <2> DEFINE of == IF fpga.took = 0 \/ fpga.of = f THEN f ELSE "bad"
             state == IF fpga.took + 1 < CHUNKS THEN "ready"
                    ELSE IF of = "good" THEN "startup" ELSE "crc"
  <2>1. /\ state \in {"ready", "startup", "crc"}
        /\ state = "startup" => f = "good"
    OBVIOUS
  <2>2. fpga' = [fpga EXCEPT !.took = @ + 1, !.of = of, !.state = state]
    BY <1>2 DEF Takes
  <2> HIDE DEF of, state
  <2>3. fpga'.state = state
    BY <2>2 DEF FpgaTypes, Fpgas
  <2> QED BY <2>1, <2>3
<1> QED BY <1>1, <1>2

LEMMA LoadPlx9030Program ==
  ASSUME LoadInv, BridgeInv, FpgaTypes, Plx9030Program, UNCHANGED <<pc, broken>>
  PROVE  LoadInv'
<1>1. /\ routine = "plx9030_program_fpga" /\ line.PROGRAM = 1 /\ broken # "done"
      /\ fpga.state = "running" => fpga.runs = "good" /\ file = "good"
      /\ fpga.state = "startup" => file = "good"
      /\ {"PROGRAM", "WRITE", "enabled"} \subseteq DOMAIN line
  BY DEF Plx9030Program, LoadInv, PlxSteps, PlxPrograms, BridgeInv
<1>2. ASSUME UNCHANGED <<routine, file>>, line'.PROGRAM = 1,
             fpga'.state = "running" => fpga' = fpga,
             fpga'.state = "startup" => fpga.state = "startup" \/ file = "good",
             at' = "done" => fpga'.state = "running"
      PROVE  LoadInv'
  BY <1>1, <1>2, RunningLoads DEF LoadInv, ResetSteps, PlxSteps, EppSteps, PlxPrograms, Idle
<1>3. \A w : Drive([line EXCEPT !.WRITE = w]) => UNCHANGED fpga /\ line'.PROGRAM = 1
  BY <1>1 DEF Drive, Held
<1>4. CASE OpenFile("write")
  <2>1. CASE Return(-1)
    BY <2>1, FailedLoads
  <2>2. CASE Goto("write")
    BY <1>1, <1>2, <1>4, <2>2 DEF OpenFile, Goto, boardVars
  <2> QED BY <1>4, <2>1, <2>2 DEF OpenFile
<1>5. CASE Control("write", [line EXCEPT !.WRITE = 0], "send")
  BY <1>2, <1>3, <1>5 DEF Control, Goto
<1>6. CASE SendChunk("check")
  <2>1. UNCHANGED <<routine, file, line>> /\ at' \in {"send", "check"}
        /\ (UNCHANGED fpga \/ Takes(file))
    BY <1>6 DEF SendChunk, Goto
  <2> QED BY <1>1, <1>2, <2>1, TakesLoads
<1>7. CASE Look("check", Goto(IF INIT /\ DONE THEN "done" ELSE "fail") /\ UNCHANGED count)
  <2>1. /\ UNCHANGED <<routine, file, line, fpga>>
        /\ at' = "done" => fpga.state = "running"
    BY <1>1, <1>7 DEF Look, Goto, boardVars, DONE
  <2> QED BY <1>1, <1>2, <2>1
<1>8. CASE ControlAndReturn("done", [line EXCEPT !.WRITE = 1], 0)
  <2>1. UNCHANGED fpga /\ fpga.state = "running"
    BY <1>1, <1>3, <1>8 DEF ControlAndReturn, LoadInv, PlxSteps, PlxPrograms
  <2>2. routine' = Idle /\ result'.of = routine /\ result'.file = file
    BY <1>8 DEF ControlAndReturn, Return
  <2> QED BY <1>1, <2>1, <2>2 DEF LoadInv, ResetSteps, WasReset, PlxSteps, EppSteps, Loaded,
                                  PlxPrograms, LoadResets, Idle
<1>9. CASE ControlAndReturn("fail", Fail, -EIO)
  BY <1>9, FailedLoads DEF ControlAndReturn, EIO
<1> QED BY <1>4, <1>5, <1>6, <1>7, <1>8, <1>9 DEF Plx9030Program

LEMMA LoadPlx905xProgram ==
  ASSUME LoadInv, FpgaTypes, Plx905xProgram, UNCHANGED <<pc, broken>>
  PROVE  LoadInv'
<1>1. /\ routine = "plx905x_program_fpga" /\ broken # "done"
      /\ fpga.state = "running" => fpga.runs = "good" /\ file = "good"
      /\ fpga.state = "startup" => file = "good"
  BY DEF Plx905xProgram, LoadInv, PlxSteps, PlxPrograms
<1>2. ASSUME UNCHANGED <<routine, file>>,
             fpga'.state = "running" => fpga' = fpga,
             fpga'.state = "startup" => fpga.state = "startup" \/ file = "good"
      PROVE  LoadInv'
  BY <1>1, <1>2, RunningLoads DEF LoadInv, ResetSteps, PlxSteps, EppSteps, PlxPrograms, Idle
<1>3. CASE OpenFile("send")
  <2>1. CASE Return(-1)
    BY <2>1, FailedLoads
  <2>2. CASE Goto("send")
    BY <1>2, <1>3, <2>2 DEF OpenFile, Goto, boardVars
  <2> QED BY <1>3, <2>1, <2>2 DEF OpenFile
<1>4. CASE SendChunk("poll")
  <2>1. UNCHANGED <<routine, file>> /\ (UNCHANGED fpga \/ Takes(file))
    BY <1>4 DEF SendChunk, Goto
  <2> QED BY <1>2, <2>1, TakesLoads
<1>5. CASE Look("poll", PollDone /\ count' = count + 1)
  <2>1. UNCHANGED fpga
    BY <1>5 DEF Look, boardVars
  <2>2. CASE Goto("poll")
    BY <1>2, <2>1, <2>2 DEF Goto
  <2>3. CASE DONE /\ Return(0)
    <3>1. fpga.state = "running" /\ routine' = Idle /\ result'.of = routine /\ result'.file = file
      BY <1>1, <2>3 DEF DONE, Return
    <3> QED BY <1>1, <2>1, <3>1 DEF LoadInv, ResetSteps, WasReset, PlxSteps, EppSteps, Loaded,
                                    PlxPrograms, LoadResets, Idle
  <2>4. CASE Return(-EIO)
    BY <2>4, FailedLoads DEF EIO
  <2> QED BY <1>5, <2>2, <2>3, <2>4 DEF Look, PollDone
<1> QED BY <1>3, <1>4, <1>5 DEF Plx905xProgram

\* What the CPLD has handed on, and whose it is.
EppSent ==
  /\ fpga.took = CHUNKS - left
  /\ left < CHUNKS => fpga.of = file
  /\ left > 0 => fpga.state = "ready"

LEMMA EppTakes ==
  ASSUME FpgaTypes, left \in 0 .. CHUNKS, EppSent, left > 0, line.WRITE = 0,
         Takes(file), left' = left - 1, UNCHANGED file
  PROVE  EppSent'
<1> DEFINE of == IF fpga.took = 0 \/ fpga.of = file THEN file ELSE "bad"
           state == IF fpga.took + 1 < CHUNKS THEN "ready"
                    ELSE IF of = "good" THEN "startup" ELSE "crc"
<1>1. left \in Nat /\ CHUNKS \in Nat /\ left > 0 /\ left <= CHUNKS /\ CHUNKS' = CHUNKS
  BY Bounds
<1>2. /\ fpga.took + 1 = CHUNKS - (left - 1)
      /\ left - 1 > 0 => fpga.took + 1 < CHUNKS
      /\ fpga.took = 0 \/ left < CHUNKS
  BY <1>1 DEF EppSent
<1>3. of = file
  BY <1>2 DEF EppSent
<1>4. left - 1 > 0 => state = "ready"
  <2> SUFFICES ASSUME left - 1 > 0 PROVE state = "ready"
    OBVIOUS
  <2>1. fpga.took + 1 < CHUNKS
    BY <1>2
  <2> HIDE DEF of
  <2> QED BY <2>1
<1>5. fpga.state = "ready" /\ fpga' = [fpga EXCEPT !.took = @ + 1, !.of = of, !.state = state]
  BY DEF EppSent, Takes
<1> HIDE DEF of, state
<1>6. fpga'.took = fpga.took + 1 /\ fpga'.of = of /\ fpga'.state = state
  BY <1>5 DEF FpgaTypes, Fpgas
<1> QED BY <1>2, <1>3, <1>4, <1>6 DEF EppSent

LEMMA LoadEppProgram ==
  ASSUME LoadInv, FpgaTypes, CodeTypes, BridgeInv, EppBench,
         EppProgram \/ EppCycleLost, UNCHANGED <<pc, broken>>
  PROVE  LoadInv'
<1>1. /\ routine = "epp_program_fpga" /\ line.WRITE = 0 /\ left \in 0 .. CHUNKS
  BY DEF EppProgram, EppCycleLost, InRoutine, BridgeInv, CodeTypes
<1>2. ASSUME routine' = routine,
             broken = Nothing /\ ~timeout' => (at' = "send" => EppSent') /\ at' # "begin",
             broken = Nothing /\ ~timeout' /\ at' = "check" => fpga'.took = CHUNKS /\ fpga'.of = file'
      PROVE  LoadInv'
  BY <1>1, <1>2, RunningLoads DEF LoadInv, ResetSteps, PlxSteps, EppSteps, EppSent, PlxPrograms, Idle
<1>3. CASE OpenFile("send")
  <2>1. CASE Return(-1)
    BY <2>1, FailedLoads
  <2>2. CASE Goto("send")
    <3>1. UNCHANGED <<routine, file, timeout, fpga, left>> /\ at' = "send" /\ at = "begin"
      BY <1>3, <2>2 DEF OpenFile, Goto, boardVars
    <3>2. broken = Nothing /\ ~timeout => EppSent
      <4>1. broken = Nothing /\ ~timeout => fpga.state = "ready" /\ fpga.took = 0 /\ left = CHUNKS
        BY <1>1, <3>1 DEF LoadInv, EppSteps
      <4>2. CHUNKS - CHUNKS = 0 /\ ~(CHUNKS < CHUNKS)
        BY Bounds
      <4> QED BY <4>1, <4>2 DEF EppSent
    <3>3. broken = Nothing /\ ~timeout' => EppSent'
      BY <3>1, <3>2 DEF EppSent
    <3> QED BY <1>2, <3>1, <3>3
  <2> QED BY <1>3, <2>1, <2>2 DEF OpenFile
<1>4. CASE SendChunk("check")
  <2>1. broken = Nothing /\ ~timeout => EppSent
    BY <1>1, <1>4 DEF SendChunk, LoadInv, EppSteps, EppSent
  <2>2. CASE left > 0
    <3>1. /\ UNCHANGED <<routine, at, file, timeout>> /\ at = "send"
          /\ Takes(file) /\ left' = left - 1
      BY <1>4, <2>2 DEF SendChunk
    <3>2. broken = Nothing /\ ~timeout' => EppSent'
      BY <1>1, <2>1, <2>2, <3>1, EppTakes
    <3> QED BY <1>2, <3>1, <3>2
  <2>3. CASE ~(left > 0)
    <3>1. UNCHANGED <<routine, file, timeout, fpga>> /\ at' = "check" /\ left = 0
      BY <1>1, <1>4, <2>3 DEF SendChunk, Goto
    <3>2. broken = Nothing /\ ~timeout => fpga.took = CHUNKS /\ fpga.of = file
      BY <2>1, <3>1, Bounds DEF EppSent
    <3> QED BY <1>2, <3>1, <3>2
  <2> QED BY <2>2, <2>3
<1>5. CASE Look("check", Return(IF timeout THEN -EIO ELSE 0) /\ UNCHANGED count)
  <2>1. CASE timeout
    <3>1. Return(-EIO)
      BY <1>5, <2>1 DEF Look
    <3> QED BY <3>1, FailedLoads DEF EIO
  <2>2. CASE ~timeout
    <3>1. /\ routine' = Idle /\ result'.of = "epp_program_fpga" /\ result'.file = file
          /\ UNCHANGED fpga
      BY <1>1, <1>5 DEF Look, Return, boardVars
    <3>2. broken = Nothing => fpga.took = CHUNKS /\ fpga.of = file
      BY <1>1, <1>5, <2>2 DEF Look, LoadInv, EppSteps
    <3> QED BY <3>1, <3>2 DEF LoadInv, ResetSteps, WasReset, PlxSteps, EppSteps, Loaded,
                              PlxPrograms, LoadResets, Idle
  <2> QED BY <2>1, <2>2
<1>6. CASE EppCycleLost
  BY <1>2, <1>6 DEF EppCycleLost
<1> QED BY <1>3, <1>4, <1>5, <1>6 DEF EppProgram


LEMMA LoadCall ==
  ASSUME LoadInv, RunsInv, MainInv, BoardOK(board), FpgaTypes, Calls, CallsWaited
  PROVE  LoadInv'
<1>1. /\ UNCHANGED <<board, line, fpga, timeout, broken>> /\ at' = "begin" /\ left' = CHUNKS
      /\ routine' = Waited' /\ pc' \in Waiting /\ Waited' # NULL
  BY DEF Calls, ProgramFpga, ResetReturns, Reload, Reset, CallsWaited, CallRoutine, boardVars
<1>2. CASE pc' # "programming"
  <2>1. routine' \in Resets \cup Reloads
    BY <1>1, <1>2 DEF Waited, Waiting, BoardOK
  <2> QED BY <1>1, <2>1, BeginningLoads
<1>3. CASE pc' = "programming"
  <2>1. ResetReturns
    BY <1>3 DEF Calls, ProgramFpga, Reload, Reset, CallsBoard, Refuses, Finish, Dies, GoOn
  <2>2. pc = "resetting" /\ routine = Idle /\ result.ret = 0
    BY <1>3, <2>1 DEF ResetReturns, Returned, Refuses, Finish, GoOn
  <2>3. result.of = board.reset /\ <<board.reset, board.program>> \in Pairs
    BY <2>2 DEF RunsInv, Waited, Waiting, BoardOK
  <2>4. result.of \in LoadResets /\ routine' = board.program
    BY <1>1, <1>3, <2>3 DEF Pairs, LoadResets, Waited
  <2>5. /\ Unloaded
        /\ result.of = "plx9030_reset" => line.PROGRAM = 1
        /\ result.of = "epp_reset" => EmptyOne
    BY <2>2, <2>4 DEF LoadInv, WasReset
  <2>6. /\ routine' \in PlxPrograms \cup {"epp_program_fpga"}
        /\ routine' = "plx9030_program_fpga" => result.of = "plx9030_reset"
        /\ routine' = "epp_program_fpga" => result.of = "epp_reset"
    BY <2>3, <2>4 DEF Pairs, PlxPrograms
  <2>7. WasReset' /\ Loaded' /\ ResetSteps'
    BY <2>6, RunningLoads DEF ResetSteps, PlxPrograms, Idle
  <2>8. PlxSteps'
    BY <1>1, <2>5, <2>6 DEF PlxSteps, Unloaded
  <2>9. EppSteps'
    BY <1>1, <2>5, <2>6 DEF EppSteps, EmptyOne, Nothing
  <2> QED BY <2>7, <2>8, <2>9 DEF LoadInv
<1> QED BY <1>2, <1>3

LEMMA LoadInBoard ==
  ASSUME LoadInv, RunsInv, BridgeInv, FpgaTypes, CodeTypes, BoardOK(board), Here(board),
         InBoard, UNCHANGED pc
  PROVE  LoadInv'
<1>1. UNCHANGED broken
  BY DEF InBoard, RoutineStep, FaultStep, EppCycleLost, DatagramLost
<1>2. /\ routine \in Plx9030Functions => HasPlx9030(bench)
      /\ routine \in EppFunctions => EppBench
  BY HereRuns
<1>3. CASE Plx9030Reset
  BY <1>1, <1>2, <1>3, LoadPlx9030Reset DEF Plx9030Reset, Plx9030Functions
<1>4. CASE Plx9030Program
  BY <1>1, <1>4, LoadPlx9030Program
<1>5. CASE Plx905xReset
  BY <1>1, <1>5, LoadPlx905xReset
<1>6. CASE Plx905xProgram
  BY <1>1, <1>6, LoadPlx905xProgram
<1>7. CASE EppReset
  BY <1>1, <1>2, <1>7, LoadEppReset DEF EppReset, EppFunctions
<1>8. CASE EppProgram \/ EppCycleLost
  BY <1>1, <1>2, <1>8, LoadEppProgram DEF EppProgram, EppCycleLost, InRoutine, EppFunctions
<1>9. CASE PciReload \/ PciEfxReload \/ SpiReload \/ Lbp16Reload \/ Lbp16Reset \/ DatagramLost
  <2>1. routine \notin LoadFunctions
    BY <1>9 DEF PciReload, PciEfxReload, SpiReload, Lbp16Reload, Lbp16Reset, DatagramLost, Look,
                InRoutine, LoadFunctions, LoadResets, PlxPrograms
  <2>2. routine' = routine \/ (routine' = Idle /\ result'.of = routine)
    BY InBoardMoves DEF Return
  <2>3. Idle \notin LoadFunctions
    BY DEF LoadFunctions, LoadResets, PlxPrograms, Idle
  <2>4. routine # Idle
    BY InBoardMoves
  <2> QED BY <2>1, <2>2, <2>3, <2>4, OtherLoads
<1> QED BY <1>3, <1>4, <1>5, <1>6, <1>7, <1>8, <1>9 DEF InBoard, RoutineStep, FaultStep

LEMMA LoadNext ==
  ASSUME LoadInv, RunsInv, BridgeInv, FpgaTypes, CodeTypes, SearchInv, MainInv, ConfigInv,
         [Next]_vars
  PROVE  LoadInv'
<1>1. BoardOK(board) /\ Here(board)
  BY BoardFacts DEF SearchInv, FoundBoards
<1>2. CASE Start \/ Others
  <2>1. routine = Idle
    BY <1>2, OthersQuiet DEF RunsInv
  <2> QED BY <1>2, <2>1, OthersQuiet, LoadSame DEF codeVars
<1>3. CASE Kill \/ AnswerLost
  <2>1. /\ routine' = Idle /\ at' = Idle /\ UNCHANGED <<file, left, result, line, fpga, broken>>
        /\ pc' \notin Waiting /\ UNCHANGED timeout
    BY <1>3, AnswerLostMoves DEF Kill, Dies, boardVars, Waiting
  <2>2. CASE routine = Idle
    BY <2>1, <2>2 DEF LoadInv, ResetSteps, WasReset, PlxSteps, EppSteps, Loaded, PlxPrograms, Waiting,
                      Idle
  <2>3. CASE routine # Idle
    <3>1. result'.of = Idle
      BY <2>1, <2>3 DEF ConfigInv
    <3> QED BY <2>1, <3>1, OtherLoads DEF LoadFunctions, LoadResets, PlxPrograms, Idle
  <2> QED BY <2>2, <2>3
<1>4. CASE Calls /\ CallsWaited
  BY <1>1, <1>4, LoadCall
<1>5. CASE Calls /\ UNCHANGED loadVars /\ pc' = "close"
  BY <1>5, LoadSame DEF loadVars, codeVars, boardVars, Waiting
<1>6. CASE Chip /\ UNCHANGED <<mainVars, worldVars, pc>>
  BY <1>6, LoadChip
<1>7. CASE InBoard /\ UNCHANGED <<mainVars, worldVars, pc>>
  BY <1>1, <1>7, LoadInBoard
<1>8. CASE UNCHANGED vars
  BY <1>8, LoadSame DEF vars, loadVars, codeVars, boardVars
<1> QED BY <1>2, <1>3, <1>4, <1>5, <1>6, <1>7, <1>8, CallsCall
        DEF Next, Process, Others, Calls, MainInv

LEMMA TypesInit == Init => CodeTypes /\ FpgaTypes
<1> SUFFICES ASSUME Init PROVE CodeTypes /\ FpgaTypes
  OBVIOUS
<1>1. /\ bench \in Benches /\ line = bench.line /\ broken \in {"init", "done", Nothing}
      /\ file = Nothing /\ fallback = FALSE /\ left = 0 /\ count = 0 /\ saved = Nothing
      /\ result.ret = 0 /\ timeout = FALSE /\ old \in BOOLEAN /\ faults = 0
  BY DEF Init, LoadInit, SessionInit, NoResult
<1>2. line \in Lines
  BY <1>1, BenchFacts DEF Lines
<1>3. left \in 0 .. CHUNKS /\ faults \in 0 .. MaxFaults /\ 0 \in 0 .. CHUNKS
  BY <1>1, Bounds
<1>4. CodeTypes
  <2>1. fallback \in BOOLEAN /\ timeout \in BOOLEAN /\ count \in Int
    <3>1. FALSE \in BOOLEAN /\ 0 \in Int
      OBVIOUS
    <3> QED BY <1>1, <3>1
  <2> QED BY <1>1, <1>2, <1>3, <2>1 DEF CodeTypes
<1>5. /\ fpga \in Fpgas /\ fpga.took = 0 /\ fpga.state \in {"clearing", "running"}
  BY <1>3 DEF Init, SessionInit, Cleared, Fpgas, Nothing
<1>6. FpgaTypes
  BY <1>5 DEF FpgaTypes
<1> QED BY <1>4, <1>6

LEMMA LoadInvInit == Init => LoadInv
<1>1. Init => routine = Idle /\ result.of = Idle
  BY DEF Init, LoadInit, NoResult
<1> QED BY <1>1 DEF LoadInv, ResetSteps, WasReset, PlxSteps, EppSteps, Loaded, LoadResets, PlxPrograms,
                    Idle

AllInv ==
  SearchInv /\ CalledInv /\ MainInv /\ ConfigInv /\ RunsInv /\ BootsInv /\ BridgeInv /\ CodeTypes /\ FpgaTypes
    /\ LoadInv

LEMMA AllInvariant == Spec => []AllInv
<1>1. Init => AllInv
  BY SearchInit, CalledInit, MainInit, ConfigInit, RunsInit, BootsInit, BridgeInit, TypesInit, LoadInvInit
     DEF AllInv
<1>2. AllInv /\ [Next]_vars => AllInv'
  BY SearchNext, CalledNext, MainNext, ConfigNext, RunsNext, BootsNext, BridgeNext, CodeTypesNext, FpgaNext,
     LoadNext DEF AllInv
<1> QED BY <1>1, <1>2, PTL DEF Spec

\* plx9030_program_fpga, plx905x_program_fpga and epp_program_fpga: a 0 through
\* a PLX bridge means that the FPGA runs the file, through the CPLD that an
\* FPGA which was reset has taken every chunk of it.
THEOREM SessionLoadReported == Spec => []LoadReported
<1>1. LoadInv => LoadReported
  BY DEF LoadInv, Loaded, LoadReported, Programs, PlxPrograms
<1> QED BY <1>1, AllInvariant, PTL DEF AllInv


-----------------------------------------------------------------------------
(* The values that the variables of main keep to *)

MainTypes ==
  /\ pc \in Steps /\ ret \in {0, -1, -EPERM, -EIO, -EINVAL}
  /\ enabled \in Nat /\ sessions \in 0 .. MaxSessions /\ kills \in 0 .. MaxKills

LEMMA SessionBounds == MaxSessions \in Nat /\ MaxKills \in Nat
BY SessionAssumption

Rets == {0, -1, -EPERM, -EIO, -EINVAL}

LEMMA SearchTypes ==
  ASSUME MainTypes, \/ Start \/ Kill \/ AnswerLost \/ GetOption \/ EndOfOptions \/ Main
                    \/ ScanBus \/ ScanDevice \/ GetDev \/ Open
  PROVE  /\ pc' \in Steps /\ ret' \in Rets
         /\ sessions' \in 0 .. MaxSessions /\ kills' \in 0 .. MaxKills
<1>1. /\ ret \in Rets /\ 0 \in Rets /\ -1 \in Rets
      /\ sessions \in 0 .. MaxSessions /\ kills \in 0 .. MaxKills
      /\ sessions < MaxSessions => sessions + 1 \in 0 .. MaxSessions
      /\ kills < MaxKills => kills + 1 \in 0 .. MaxKills
  BY SessionBounds DEF MainTypes, Rets
<1>2. CASE Start \/ Kill
  BY <1>1, <1>2 DEF Start, Kill, Dies, Steps
<1>7. CASE AnswerLost
  BY <1>1, <1>7, AnswerLostMoves DEF Steps
<1>3. CASE GetOption \/ EndOfOptions
  BY <1>1, <1>3 DEF GetOption, EndOfOptions, RestUnchanged, OptionOnce, SetsValue, Refused, Exit,
     GoOn, Steps
<1>4. CASE Main \/ GetDev
  BY <1>1, <1>4 DEF Main, GetDev, MainStep, Exit, GoOn, Steps
<1>5. CASE ScanBus \/ ScanDevice
  BY <1>1, <1>5 DEF ScanBus, ScanDevice, Scan, Found, NothingFound, Exit, Dies, GoOn, Steps
<1>6. CASE Open
  BY <1>1, <1>6 DEF Open, MainStep, Dies, GoOn, Steps
<1> QED BY <1>2, <1>3, <1>4, <1>5, <1>6, <1>7

LEMMA CommandTypes ==
  ASSUME MainTypes, result.ret \in {0, -1, -EIO},
         \/ AccessRegisters \/ SetRemote \/ FlashCommand \/ Verify
         \/ ProgramFpga \/ ResetReturns \/ ProgramReturns \/ Reload \/ NoReload \/ ReloadReturns
         \/ Reset \/ OnlyResetReturns \/ Close \/ Cleanup
  PROVE  pc' \in Steps /\ ret' \in Rets /\ UNCHANGED <<sessions, kills>>
<1>1. /\ ret \in Rets /\ {0, -1, -EPERM, -EINVAL} \subseteq Rets /\ result.ret \in Rets
  BY DEF MainTypes, Rets
<1>2. CASE AccessRegisters \/ SetRemote \/ NoReload \/ Close \/ Cleanup
  BY <1>1, <1>2 DEF AccessRegisters, SetRemote, NoReload, Close, Cleanup, MainStep, Dies, Exit,
     GoOn, Steps
<1>3. CASE FlashCommand \/ Verify
  BY <1>1, <1>3 DEF FlashCommand, Verify, CallFlash, NextAfter, AfterWrite, AfterVerify, MainStep,
     GoOn, Steps
<1>4. CASE ProgramFpga \/ ResetReturns \/ Reload \/ Reset
  BY <1>1, <1>4 DEF ProgramFpga, ResetReturns, Reload, Reset, CallsBoard, Refuses, Finish, Dies,
     MainStep, GoOn, Steps
<1>5. CASE ProgramReturns \/ ReloadReturns \/ OnlyResetReturns
  BY <1>1, <1>5 DEF ProgramReturns, ReloadReturns, OnlyResetReturns, Finish, MainStep, GoOn, Steps
<1> QED BY <1>2, <1>3, <1>4, <1>5

LEMMA MainTypesNext ==
  ASSUME MainTypes, CodeTypes, EnableInv', [Next]_vars
  PROVE  MainTypes'
<1>1. enabled' \in Nat
  BY DEF EnableInv
<1>2. CASE UNCHANGED <<mainVars, worldVars, pc>>
  BY <1>1, <1>2 DEF mainVars, worldVars, MainTypes
<1>3. CASE Start \/ Kill \/ AnswerLost \/ Process
  <2>1. /\ pc' \in Steps /\ ret' \in Rets
        /\ sessions' \in 0 .. MaxSessions /\ kills' \in 0 .. MaxKills
    BY <1>3, SearchTypes, CommandTypes DEF Process, MainTypes, CodeTypes
  <2> QED BY <1>1, <2>1 DEF MainTypes, Rets
<1> QED BY <1>2, <1>3 DEF Next, vars

\* Every variable keeps to its values, and a function of a board runs only
\* while main waits for it.
THEOREM SessionTypeCorrect == Spec => []TypeOK
<1>1. Init => MainTypes /\ EnableInv
  <2>1. Init => MainTypes
    BY SessionBounds DEF Init, SessionInit, MainTypes, Steps
  <2> QED BY <2>1 DEF Init, SessionInit, EnableInv, Opened
<1>2. AllInv /\ EnableInv /\ [Next]_vars => EnableInv'
  BY EnableNext DEF AllInv
<1>3. MainTypes /\ AllInv /\ EnableInv' /\ [Next]_vars => MainTypes'
  BY MainTypesNext DEF AllInv
<1>4. MainTypes /\ AllInv => TypeOK
  <2> SUFFICES ASSUME MainTypes, AllInv PROVE TypeOK
    OBVIOUS
  <2>1. BoardOK(board)
    BY BoardFacts DEF AllInv
  <2>2. routine # Idle => pc \in Waiting /\ routine = Waited /\ routine # NULL
    BY DEF AllInv, RunsInv
  <2>3. routine \in Programs \cup Resets \cup Reloads \cup {Idle}
    <3>1. pc = "programming" => <<board.reset, board.program>> \in Pairs
      BY <2>1 DEF AllInv, RunsInv, BoardOK
    <3>2. pc = "programming" => board.program \in Programs
      BY <3>1 DEF Pairs, Programs
    <3> QED BY <2>1, <2>2, <3>2 DEF Waited, Waiting, BoardOK
  <2>4. cfg \in {"set", "lost"} /\ CodeTypes /\ fpga \in Fpgas
    BY DEF AllInv, BootsInv, Shapes, FpgaTypes
  <2>5. LoadTypeOK
    BY <2>3, <2>4 DEF LoadTypeOK, CodeTypes, Lines, Fpgas
  <2> QED BY <2>2, <2>5 DEF AllInv, SearchInv, Options, AllFlags, MainTypes, TypeOK, Waiting
<1> QED BY <1>1, <1>2, <1>3, <1>4, AllInvariant, PTL DEF Spec


-----------------------------------------------------------------------------
(* The board that is driven is the one that was named *)

\* The board that main has got is the one of --device, or --device has the
\* entry of any board.
Named ==
  /\ {"device", "open_iface"} \subseteq DOMAIN access
  /\ pc \in {"options", "main", "search"} => ~Drives(board)
  /\ pc \in {"options", "main"} => "WILDCARD" \notin access.open_iface
  /\ pc = "search" /\ "WILDCARD" \in access.open_iface =>
       Entry(access.device) \in WildcardNames
  /\ Drives(board) => access.device = board.name \/ Entry(access.device) \in WildcardNames

LEMMA NothingDriven == ~Drives(NoBoard)
BY DEF Drives, NoBoard

LEMMA NamedInit == Init => Named
BY NothingDriven DEF Init, SessionInit, Named, NoAccess

LEMMA NamedKept ==
  ASSUME Named, UNCHANGED <<access, board>>,
         pc' \in {"options", "main", "search"} => pc' = pc
  PROVE  Named'
BY DEF Named, Drives

LEMMA NamedGetDev ==
  ASSUME SearchInv, Named, GetDev
  PROVE  Named'
<1>1. /\ access' = access /\ pc = "search" /\ pc' \notin {"options", "main", "search"}
      /\ board' = anyio_get_dev(boards, access.device, "WILDCARD" \in access.open_iface)
  BY DEF GetDev, MainStep, Exit, GoOn
<1> DEFINE mine == {i \in DOMAIN boards :
                      \/ "WILDCARD" \in access.open_iface
                      \/ NameMatches(access.device, boards[i])}
           first == CHOOSE i \in mine : \A j \in mine : i <= j
<1>2. mine \in SUBSET Nat
  BY DEF SearchInv, FoundBoards
<1>3. mine # {} => first \in mine
  BY <1>2, FirstIndex
<1>4. board' = IF mine = {} THEN NoBoard ELSE boards[first]
  BY <1>1 DEF anyio_get_dev
<1>5. CASE mine = {}
  BY <1>1, <1>4, <1>5, NothingDriven DEF Named
<1>6. CASE mine # {}
  <2>1. \/ "WILDCARD" \in access.open_iface
        \/ NameMatches(access.device, board')
    BY <1>3, <1>4, <1>6
  <2>2. access.device = board'.name \/ Entry(access.device) \in WildcardNames
    BY <1>1, <2>1 DEF Named, NameMatches
  <2> QED BY <1>1, <2>2 DEF Named
<1> QED BY <1>5, <1>6

LEMMA NamedNext ==
  ASSUME SearchInv, Named, [Next]_vars
  PROVE  Named'
<1>1. CASE Start
  BY <1>1, NothingDriven DEF Start, Named, NoAccess
<1>2. CASE Kill \/ AnswerLost
  BY <1>2, NamedKept, AnswerLostMoves DEF Kill, Dies
<1>3. CASE GetOption
  <2>1. /\ pc = "options" /\ board' = board /\ ~Drives(board')
        /\ pc' \in {"options", "main", "off"}
    BY <1>3 DEF GetOption, RestUnchanged, OptionOnce, SetsValue, Refused, Exit, GoOn, Named, Drives
  <2>2. PICK d : access' = access \/ access' = [access EXCEPT !.device = d]
    BY <1>3 DEF GetOption, OptionOnce, SetsValue, Refused
  <2>3. {"device", "open_iface"} \subseteq DOMAIN access' /\ access'.open_iface = access.open_iface
    BY <2>2 DEF Named
  <2> QED BY <2>1, <2>3 DEF Named
<1>4. CASE EndOfOptions
  <2>1. /\ pc = "options" /\ board' = board /\ ~Drives(board') /\ pc' = "main"
        /\ access' = [access EXCEPT !.type = TypeAsked]
    BY <1>4 DEF EndOfOptions, RestUnchanged, GoOn, Named, Drives
  <2>2. {"device", "open_iface"} \subseteq DOMAIN access' /\ access'.open_iface = access.open_iface
    BY <2>1 DEF Named
  <2> QED BY <2>1, <2>2 DEF Named
<1>5. CASE Main
  <2> DEFINE wild == {"WILDCARD" : n \in {Entry(access.device)} \cap WildcardNames}
  <2>1. pc = "main" /\ board' = board /\ ~Drives(board')
    BY <1>5 DEF Main, Named, Drives
  <2>2. CASE pc' = "off" /\ access' = access
    BY <2>1, <2>2 DEF Named
  <2>3. CASE /\ pc' = "search"
             /\ access' = [access EXCEPT !.recover = "recover" \in flags,
                                         !.address = "addr" \in flags, !.open_iface = wild]
    <3>1. /\ {"device", "open_iface"} \subseteq DOMAIN access'
          /\ access'.open_iface = wild /\ access'.device = access.device
      BY <2>3 DEF Named
    <3>2. "WILDCARD" \in wild => Entry(access.device) \in WildcardNames
      OBVIOUS
    <3> QED BY <2>1, <2>3, <3>1, <3>2 DEF Named
  <2> QED BY <1>5, <2>2, <2>3 DEF Main, Exit, GoOn
<1>6. CASE ScanBus
  <2>1. /\ pc = "search" /\ board' = board /\ pc' \in {"search", "off"}
        /\ access' = [access EXCEPT !.open_iface = @ \cup {NextBus}]
    BY <1>6 DEF ScanBus, Scan, Found, NothingFound, Exit, Dies, GoOn
  <2>2. NextBus # "WILDCARD"
    BY <1>6, NextBusAsked DEF ScanBus, SearchInv, EppAsked, Buses
  <2>3. /\ {"device", "open_iface"} \subseteq DOMAIN access' /\ access'.device = access.device
        /\ access'.open_iface = access.open_iface \cup {NextBus}
    BY <2>1 DEF Named
  <2> QED BY <2>1, <2>2, <2>3 DEF Named, Drives
<1>7. CASE ScanDevice
  BY <1>7, NamedKept DEF ScanDevice, Found, GoOn
<1>8. CASE GetDev
  BY <1>8, NamedGetDev
<1>9. CASE Commands
  <2>1. pc' \notin {"options", "main", "search"}
    <3>1. CASE \/ Open \/ AccessRegisters \/ SetRemote \/ FlashCommand \/ Verify
      BY <3>1 DEF Open, AccessRegisters, SetRemote, FlashCommand, Verify, CallFlash, NextAfter,
                  AfterWrite, AfterVerify, Dies, GoOn
    <3>2. CASE ProgramFpga \/ ResetReturns \/ Reload \/ Reset
      BY <3>2 DEF ProgramFpga, ResetReturns, Reload, Reset, CallsBoard, Refuses, Finish, Dies, GoOn
    <3>3. CASE ProgramReturns \/ NoReload \/ ReloadReturns \/ OnlyResetReturns \/ Close
      BY <3>3 DEF ProgramReturns, NoReload, ReloadReturns, OnlyResetReturns, Close, Finish, GoOn
    <3> QED BY <1>9, <3>1, <3>2, <3>3 DEF Commands
  <2> QED BY <1>9, <2>1, CommandsKeep, NamedKept DEF MainStep
<1>10. CASE Cleanup
  <2>1. /\ board' = board /\ pc' = "off" /\ access' = [access EXCEPT !.open_iface = {}]
    BY <1>10 DEF Cleanup, Exit
  <2>2. {"device", "open_iface"} \subseteq DOMAIN access' /\ access'.device = access.device
    BY <2>1 DEF Named
  <2> QED BY <2>1, <2>2 DEF Named, Drives
<1>11. CASE UNCHANGED <<mainVars, worldVars, pc>> \/ UNCHANGED vars
  BY <1>11, NamedKept DEF vars, mainVars
<1> QED BY <1>1, <1>2, <1>3, <1>4, <1>5, <1>6, <1>7, <1>8, <1>9, <1>10, <1>11
        DEF Next, Process, Commands

\* Only a function of the board that main got drives anything.
LEMMA DrivenIsNamed ==
  ASSUME AllInv, Named, [Next]_vars,
         line' # line \/ cfg' # cfg \/ icap' # icap \/ fpga'.took # fpga.took
  PROVE  NamesHolder
<1>1. InBoard
  <2>1. ASSUME UNCHANGED <<line, cfg, icap, fpga>> PROVE FALSE
    BY <2>1
  <2>2. ~(Start \/ Others)
    BY <2>1, OthersQuiet
  <2>3. ~Kill /\ ~AnswerLost
    BY <2>1 DEF Kill, AnswerLost, boardVars
  <2>4. ~Calls
    BY <2>1, CallsCall DEF CallsWaited, boardVars, loadVars, AllInv, MainInv
  <2>5. ~Chip
    <3> SUFFICES ASSUME Chip PROVE FALSE
      OBVIOUS
    <3>1. /\ UNCHANGED <<line, cfg, icap>>
          /\ \/ fpga' = [fpga EXCEPT !.state = "ready"]
             \/ fpga' = [fpga EXCEPT !.state = "running", !.runs = fpga.of]
      BY DEF Chip, FpgaStep, FpgaClears, FpgaStarts
    <3>2. "took" \in DOMAIN fpga
      BY DEF AllInv, BootsInv, Shapes
    <3>3. fpga'.took = fpga.took
      BY <3>1, <3>2
    <3> QED BY <3>1, <3>3
  <2>6. ~UNCHANGED vars
    BY <2>1 DEF vars, loadVars, boardVars
  <2> QED BY <2>2, <2>3, <2>4, <2>5, <2>6 DEF Next, Process, Others, Calls
<1>2. pc \in Waiting /\ routine = Waited /\ Waited # NULL
  BY <1>1, InBoardMoves DEF AllInv, RunsInv
<1>3. Drives(board)
  BY <1>2 DEF AllInv, RunsInv, Waited, Waiting, Drives
<1> QED BY <1>3 DEF AllInv, SearchInv, FoundBoards, Here, Named, NamesHolder

\* anyio_get_dev: whatever is connected and asked for, the outputs of bridge
\* and CPLD, the configuration of the card, ICAP and the FPGA's loading are only
\* touched in a run whose --device is the whole name of their board, or has the
\* entry ETHER, SPI or AUTO for its beginning.
THEOREM SessionOnlyNamedIsDriven == Spec => OnlyNamedIsDriven
<1>1. SearchInv /\ Named /\ [Next]_vars => Named'
  BY NamedNext
<1>2. AllInv /\ Named /\ [Next]_vars =>
        [line' # line \/ cfg' # cfg \/ icap' # icap \/ fpga'.took # fpga.took => NamesHolder]_vars
  BY DrivenIsNamed
<1> QED BY <1>1, <1>2, NamedInit, AllInvariant, PTL DEF Spec, AllInv, OnlyNamedIsDriven
=============================================================================
