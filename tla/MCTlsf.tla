------------------------------- MODULE MCTlsf -------------------------------
(***************************************************************************)
(* A pool of fourteen granules of two bytes with two second-level classes,   *)
(* so that lengths of eight bytes and more share a class.                  *)
(***************************************************************************)
EXTENDS Tlsf

MCThread == {"m68k", "ppc"}
=============================================================================
