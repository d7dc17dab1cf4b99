------------------------------ MODULE MCReaper ------------------------------
(* Small instances of Reaper.                                              *)
EXTENDS Reaper

CONSTANTS c1, c2, d1, o1, r1, r2
=============================================================================
