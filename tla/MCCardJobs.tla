----------------------------- MODULE MCCardJobs -----------------------------
(***************************************************************************)
(* Instances of CardJobs for TLC: three ports of two pins, remotes with    *)
(* every kind of record, a counter of six values.                          *)
(***************************************************************************)
EXTENDS CardJobs, TLC

MCpins ==
  <<[sec_tag |-> "SSERIAL", output |-> TRUE], [sec_tag |-> "SSERIAL", output |-> FALSE],
    [sec_tag |-> "MUXED_ENCODER_SEL", output |-> TRUE], [sec_tag |-> "NONE", output |-> FALSE],
    [sec_tag |-> "MUXED_ENCODER_SEL", output |-> FALSE], [sec_tag |-> "PWM", output |-> TRUE]>>

MCRemotes ==
  (0 :> <<"nv", "mode", "revision", "other", "ram verbose", "nv verbose">>)
    @@ (2 :> <<"mode", "mode", "nv">>)
=============================================================================
