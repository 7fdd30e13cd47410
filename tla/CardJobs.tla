------------------------------ MODULE CardJobs ------------------------------
(***************************************************************************)
(* What mesaflash and its examples do with the modules of a HostMot2 card, *)
(* one of these in a run: enable the outputs of all modules, return all    *)
(* pins to their state at power up, catalogue the smart serial remotes, or *)
(* follow an encoder.                                                      *)
(***************************************************************************)
EXTENDS Sserial, Encoder

VARIABLE job

vars == <<job, pinVars, ssVars, encVars>>

Jobs == {"enable all", "safe", "sserial pins", "encoder pins"}

\* A card as it comes up, or as another program left it; what the job does not
\* look at is not varied.
Init ==
  /\ job \in Jobs
  /\ firmware \in BOOLEAN /\ hm2 = FALSE
  /\ pc = "idrom" /\ pin = 0
  /\ ddr \in {[p \in Ports |-> {}], [p \in Ports |-> Outputs(p)]}
  /\ alt \in {[p \in Ports |-> {}], [p \in Ports |-> Bits]}
  /\ SserialInit
  /\ EncoderInit
  /\ job # "sserial pins" => setup = {} /\ ~verbose
  /\ job # "encoder pins" => counter = 0

FirstOf(j) == IF j = "enable all" THEN "enable alt" ELSE j

Process ==
  \/ read_idrom(FirstOf(job)) /\ UNCHANGED <<job, ssVars, encVars>>
  \/ (EnableAll \/ SafeIo \/ EncoderPins) /\ UNCHANGED <<job, ssVars, encVars>>
  \/ sserial_module_init /\ UNCHANGED <<job, encVars>>

Processor == Execute /\ UNCHANGED <<job, encVars>>

\* The shaft turns all the time; what it did before the first read shows in
\* the count that is read first.
Encoding == pc = "encoder" /\ EncoderStep /\ UNCHANGED <<job, pinVars, ssVars>>

Next == Process \/ Processor \/ Encoding

\* The process runs on, and the processor of the card executes its commands.
Spec == Init /\ [][Next]_vars /\ WF_vars(Process) /\ WF_vars(Processor)

-----------------------------------------------------------------------------
(* Properties *)

\* All variables keep to their values; the reset of the sserial processor is
\* released before anything is asked of it.
TypeOK == PinsTypeOK /\ SserialTypeOK /\ job \in Jobs

\* hm2_enable_all_module_outputs, enable_sserial_pins, enable_encoder_pins: no
\* pin is driven whose secondary function is not an output.
OnlyOutputsDriven == \A p \in Ports : ddr[p] \subseteq Outputs(p)

\* Each job ends with the pins as it promises: all at their state of power up,
\* all outputs of modules driven, the first two ports at their default.
Ended(j) == job = j /\ pc = "done" /\ found_module
PinsLeft ==
  /\ Ended("safe") => \A p \in Ports : ddr[p] = {} /\ alt[p] = {}
  /\ Ended("enable all") => \A p \in Ports : ddr[p] = Outputs(p) /\ alt[p] = Bits
  /\ Ended("sserial pins") => \A p \in Ports \cap 0 .. 1 : ddr[p] = {} /\ alt[p] = {}

\* sserial_module_init: when it ends, no remote was cut short: each record of
\* each list that is to be read has been, the revisions from RAM and all others
\* from non-volatile memory - the parameters kept in RAM, which only --verbose
\* reads, from the wrong one too (line 445).  No remote is left with its
\* non-volatile memory selected, which would hide its list.
CatalogueComplete == Ended("sserial pins") => found = Catalogue /\ nv = {}

\* The loops over channels, records and modes all advance: a job that is not
\* the encoder's comes to its end, or to abort() over the name of a mode.  That
\* the processor answers, which is polled without bound, is assumed.
JobEnds == <>(pc \in {"done", "killed", "encoder"})
=============================================================================
