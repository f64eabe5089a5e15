---------------------------- MODULE MCBootloader ----------------------------
(***************************************************************************)
(* Bootloader for TLC: two struct http_state addresses, a user flash of    *)
(* three blocks of three units in two sectors.                             *)
(***************************************************************************)
EXTENDS Bootloader, TLC

ConnSymmetry == Permutations(Conns)
=============================================================================
