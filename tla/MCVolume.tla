------------------------------- MODULE MCVolume -------------------------------
(* Small instances of Volume for TLC.                                      *)
EXTENDS Volume

\* A request below, inside and above the range.
MCRequested == {-5, 40, 130}
=============================================================================
