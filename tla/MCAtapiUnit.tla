---------------------------- MODULE MCAtapiUnit ----------------------------
(***************************************************************************)
(* Instances of AtapiUnit for TLC: the constants are plain values, given in  *)
(* the configurations.                                                      *)
(***************************************************************************)
EXTENDS AtapiUnit
=============================================================================
