---------------------------- MODULE MCExportJobs -----------------------------
(***************************************************************************)
(* Instances of ExportJobs for TLC.                                        *)
(***************************************************************************)
EXTENDS ExportJobs, TLC

CONSTANTS x1, x2, a1, w1, w2

Symmetry == Permutations(Workers) \cup Permutations(Exports)
=============================================================================
