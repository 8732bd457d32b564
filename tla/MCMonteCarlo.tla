---------------------------- MODULE MCMonteCarlo ----------------------------
(***************************************************************************)
(* Instances of MonteCarlo for TLC.                                        *)
(***************************************************************************)
EXTENDS MonteCarlo

CONSTANTS w1, w2
=============================================================================
