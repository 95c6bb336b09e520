------------------------------- MODULE MCQspi -------------------------------
(* The flash with the five wake attempts of the code, and a partition map  *)
(* scaled to sectors of two bytes; addresses have one bit more than it.    *)
EXTENDS QspiRegions
=============================================================================
