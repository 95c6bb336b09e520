--------------------------- MODULE MCSettingsStore ---------------------------
(* The settings store on a small instance: firmware versions are model     *)
(* values that nothing tells apart, and MaxSeq lets the writer come back   *)
(* to each sector.                                                         *)
EXTENDS SettingsStore, TLC

VersionSymmetry == Permutations(Versions)
=============================================================================
