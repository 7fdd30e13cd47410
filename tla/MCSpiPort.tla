----------------------------- MODULE MCSpiPort -----------------------------
(***************************************************************************)
(* An instance of SpiPort for TLC: bytes of three bits, a chip of two      *)
(* sectors of two pages of two bytes.                                      *)
(***************************************************************************)
EXTENDS SpiPort

MCFirstMemory == [x \in Addresses |-> IF x < 4 THEN Ones ELSE x]
MCPages == {[k \in 0 .. PageSize - 1 |-> 2 + 3 * k]}
=============================================================================
