----------------------------- MODULE MCDevMgmt -----------------------------
(* The facade on a clock of eight ticks, two to the hour: the cap of three *)
(* hours is inside the wrap, as 744 hours of 1193 are, and five hours      *)
(* without it would be past it.                                            *)
EXTENDS DevMgmt
=============================================================================
