----------------------------- MODULE MCWifiBt ------------------------------
(* WifiBtPower for TLC. *)
EXTENDS WifiBtPower
=============================================================================
