----------------------- MODULE MCIncidentCorrelation -----------------------
(* Small instances of IncidentCorrelation for TLC.                         *)
EXTENDS IncidentCorrelation, TLC

Symmetry == Permutations(Workers) \cup Permutations(Sources) \cup Permutations(Classes)
=============================================================================
